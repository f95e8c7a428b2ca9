---------------------------- MODULE LookupSession ----------------------------
(***************************************************************************)
(* The state of an iterative lookup, dht::LookupSession                    *)
(* (src/src/dht/lookup_engine.cpp), as operators on the states of its      *)
(* candidates.                                                             *)
(*                                                                         *)
(* A node is named by its rank in XOR distance to the target, so the       *)
(* shortlist, which add_candidates keeps sorted, is the set of the nodes   *)
(* that are known, in the order of their numbers.                          *)
(***************************************************************************)
EXTENDS Integers, Sequences, FiniteSets

CONSTANTS
  N,        \* the nodes other than the local one are 1..N
  Alpha,    \* alpha_
  K         \* k_

ASSUME NAssumption == N \in Nat /\ Alpha \in Nat \ {0} /\ K \in Nat \ {0}

Nodes == 1..N

CandidateState == {"unknown", "UNQUERIED", "IN_FLIGHT", "RESPONDED", "FAILED"}

In(c, s) == {n \in Nodes : c[n] = s}
Known(c) == {n \in Nodes : c[n] # "unknown"}

\* The m elements of S that are closest to the target.
Closest(S, m) == {n \in S : Cardinality({j \in S : j < n}) < m}

\* Mutant: a peer that is known already is taken for a new one.
AddCandidatesAgain(c, peers) ==
  [n \in Nodes |-> IF n \in peers THEN "UNQUERIED" ELSE c[n]]

\* LookupSession::add_candidates.
AddCandidates(c, peers) ==
  [n \in Nodes |-> IF n \in peers /\ c[n] = "unknown" THEN "UNQUERIED" ELSE c[n]]

\* Mutant: the queries in flight are not counted.
PickAlphaMore(c) == Closest(In(c, "UNQUERIED"), Alpha)

\* LookupSession::pick_next_queries: at least one, when one is unqueried.
PickNextQueries(c) ==
  LET room == Alpha - Cardinality(In(c, "IN_FLIGHT"))
  IN  Closest(In(c, "UNQUERIED"), IF room > 1 THEN room ELSE 1)

\* LookupSession::on_response and on_failure.
OnResponse(c, from, peers) ==
  AddCandidates([c EXCEPT ![from] = "RESPONDED"], peers)
OnFailure(c, from) == [c EXCEPT ![from] = "FAILED"]

\* Mutant: queries in flight are not waited for.
IsCompleteEarly(c) ==
  LET top == Closest(Known(c), K)
  IN  /\ top \cap In(c, "UNQUERIED") = {}
      /\ \/ Cardinality(top \cap In(c, "RESPONDED")) >= K
         \/ In(c, "UNQUERIED") = {}

\* LookupSession::is_complete.
IsComplete(c) ==
  LET top == Closest(Known(c), K)
  IN  /\ In(c, "IN_FLIGHT") = {}
      /\ top \cap In(c, "UNQUERIED") = {}
      /\ \/ Cardinality(top \cap In(c, "RESPONDED")) >= K
         \/ In(c, "UNQUERIED") = {}

\* LookupSession::get_closest.
GetClosest(c) == Closest(In(c, "RESPONDED"), K)

\* The frames of the calls that have returned are dropped.
Push(frame, s) == IF frame = {} THEN s ELSE <<frame>> \o s

\* The peer that the innermost of the active loops over queries comes to, and
\* the loops after it has been dealt with.
Peer(s) == CHOOSE n \in Head(s) : \A m \in Head(s) : n <= m
Rest(s) == Push(Head(s) \ {Peer(s)}, Tail(s))

\* timer->cancel(), which does not stop a handler that is already queued.
Cancelled(t) == IF t = "queued" THEN t ELSE "off"

\* What a call of step_func that queries leaves of the candidates.
Queried(c) ==
  [n \in Nodes |-> IF n \in PickNextQueries(c) THEN "IN_FLIGHT" ELSE c[n]]

=============================================================================
