------------------------------- MODULE Publish -------------------------------
(***************************************************************************)
(* Node::publish_self_record (src/src/node.cpp): the node's record is      *)
(* published under its node key and then, when it has an alias and the     *)
(* first round succeeded, under its alias key.  A round is a call of       *)
(* Node::publish_record: the record is put into the local store, a lookup  *)
(* gives the keepers, each gets a STORE request, and the last answer,      *)
(* timeout or failed connection calls back with the number of acks.        *)
(*                                                                         *)
(* A lookup may call back again after a race of an answer and its timer    *)
(* (module Lookup).  Each of its calls is a phase of its own, with its own *)
(* requests and shared counters, and each phase that ends may go on to the *)
(* alias.  The handlers of a phase outlive its end.                        *)
(***************************************************************************)
EXTENDS Integers, Sequences, FiniteSets

CONSTANTS
  N,            \* the nodes other than the local one are 1..N, by distance
  Replication,  \* config_.dht.replication
  SizeRange,    \* the number of values of std::size_t
  Results,      \* bound on the nodes that a lookup may find, with or without
                \* an alias: SUBSET Nodes is no bound
  MaxCalls      \* bound on the callbacks of a lookup, with or without an
                \* alias and for each key; the first one is never prevented

ASSUME PublishAssumption ==
  /\ N \in Nat /\ Replication \in Nat /\ SizeRange \in Nat
  /\ SizeRange > 2 * N

ASSUME MaxCallsAssumption == MaxCalls \in [BOOLEAN \X {"node", "alias"} -> Nat]

Nodes == 1..N

ASSUME ResultsAssumption == Results \in [BOOLEAN -> SUBSET SUBSET Nodes]

VARIABLES
  alias,    \* whether the node has an alias
  lookups,  \* the calls of publish_record: key, phase before, callbacks
  phases,   \* the calls of the lookups' callbacks: requests and counters
  outcome   \* what the callback of publish_self_record was given, and by whom

vars == <<alias, lookups, phases, outcome>>

\* remote_keepers: one at least, the size is tested after the push.
RemoteKeepers(closest) ==
  LET most == IF Replication > 2 THEN Replication - 1 ELSE 1
  IN  {n \in closest : Cardinality({m \in closest : m < n}) < most}

Least(a, b) == IF a < b THEN a ELSE b

\* required_quorum, of the remote keepers and the local node.
RequiredQuorum(remote) == Least(2, Cardinality(remote) + 1)

\* publish_record under a key, called by the callback of phase p.  It ignores
\* whether the local store takes the record, and counts it as a copy.
Round(key, p) == [key |-> key, from |-> p, calls |-> 0]

\* What the callback of a lookup makes for its keepers.
Phase(l, remote) ==
  [lookup    |-> l,
   keepers   |-> remote,
   loop      |-> remote,                        \* still to contact
   pending   |-> {},                            \* in pending_requests_
   timer     |-> [n \in Nodes |-> "off"],
   acks      |-> 1,
   remaining |-> Cardinality(remote),
   finished  |-> FALSE,
   confirmed |-> {},                            \* confirmations handled
   reports   |-> <<>>,                          \* what its callback was given
   raced     |-> FALSE]                         \* an answer met a queued timer

(***************************************************************************)
(* The callback of phase p of ph, with the calls lk of publish_record: the *)
(* one of publish_self_record is next, or the round of the alias, unless   *)
(* the record is no longer valid.                                          *)
(***************************************************************************)
CallBack(ph, lk, p, ok) ==
  LET acks  == ph[p].acks
      round == lk[ph[p].lookup]
  IN  /\ UNCHANGED alias
      /\ phases' = [ph EXCEPT ![p].reports = Append(@, [ok |-> ok, acks |-> acks])]
      /\ IF round.key = "node" /\ ok /\ alias
         THEN \/ /\ lookups' = Append(lk, Round("alias", p))
                 /\ UNCHANGED outcome
              \/ /\ lookups' = lk
                 /\ outcome' = Append(outcome, [ok |-> FALSE, acks |-> 0, by |-> p])
         ELSE /\ lookups' = lk
              /\ outcome' = Append(outcome,
                   [ok   |-> ok,
                    acks |-> IF round.key = "node" THEN acks
                             ELSE Least(acks, ph[round.from].reports[1].acks),
                    by   |-> p])

\* Mutant: the callback runs whenever the quorum is there.
SettleAtQuorum(ph, p) ==
  LET left == (ph[p].remaining + SizeRange - 1) % SizeRange
      down == [ph EXCEPT ![p].remaining = left, ![p].finished = @ \/ left = 0]
      ok   == ph[p].acks >= RequiredQuorum(ph[p].keepers)
  IN  IF ok \/ left = 0 THEN CallBack(down, lookups, p, ok)
                        ELSE phases' = down /\ UNCHANGED <<alias, lookups, outcome>>

\* Mutant: the quorum has to be exceeded.
SettleAboveQuorum(ph, p) ==
  LET left == (ph[p].remaining + SizeRange - 1) % SizeRange
      ends == left = 0 /\ ~ph[p].finished
      down == [ph EXCEPT ![p].remaining = left, ![p].finished = @ \/ ends]
  IN  IF ends THEN CallBack(down, lookups, p,
                            ph[p].acks > RequiredQuorum(ph[p].keepers))
              ELSE phases' = down /\ UNCHANGED <<alias, lookups, outcome>>

\* (*remaining)-- and the end of phase p when it comes to 0.
Settle(ph, p) ==
  LET left == (ph[p].remaining + SizeRange - 1) % SizeRange
      ends == left = 0 /\ ~ph[p].finished
      down == [ph EXCEPT ![p].remaining = left, ![p].finished = @ \/ ends]
  IN  IF ends THEN CallBack(down, lookups, p,
                            ph[p].acks >= RequiredQuorum(ph[p].keepers))
              ELSE phases' = down /\ UNCHANGED <<alias, lookups, outcome>>

-----------------------------------------------------------------------------

\* The first round: its record is refused, or put into the local store.
Init ==
  /\ alias \in BOOLEAN
  /\ phases = <<>>
  /\ \/ /\ lookups = <<Round("node", 0)>>
        /\ outcome = <<>>
     \/ /\ lookups = <<>>
        /\ outcome = <<[ok |-> FALSE, acks |-> 0, by |-> 0]>>

\* No loop over keepers is active: another handler may run.
Idle == \A p \in 1..Len(phases) : phases[p].loop = {}

\* Lookup l may call back: for the first time or, after a race, again.
CallsBack(l) ==
  \/ lookups[l].calls = 0
  \/ lookups[l].calls < MaxCalls[alias, lookups[l].key]

\* Mutant: the shared counters are made once for all the calls of a lookup.
LookupEndsShared(l, closest) ==
  /\ Idle
  /\ CallsBack(l)
  /\ LET remote == RemoteKeepers(closest)
         lk == [lookups EXCEPT ![l].calls = @ + 1]
         earlier == {p \in 1..Len(phases) : phases[p].lookup = l}
         acks == IF earlier = {} THEN 1 ELSE phases[CHOOSE p \in earlier : TRUE].acks
         ph == Append(phases, [Phase(l, remote) EXCEPT !.acks = acks])
     IN  IF remote = {} THEN CallBack(ph, lk, Len(ph), TRUE)
         ELSE phases' = ph /\ lookups' = lk /\ UNCHANGED <<alias, outcome>>

\* The callback of lookup l: the keepers are chosen.
LookupEnds(l, closest) ==
  /\ Idle
  /\ CallsBack(l)
  /\ LET remote == RemoteKeepers(closest)
         lk == [lookups EXCEPT ![l].calls = @ + 1]
         ph == Append(phases, Phase(l, remote))
     IN  IF remote = {} THEN CallBack(ph, lk, Len(ph), TRUE)
         ELSE phases' = ph /\ lookups' = lk /\ UNCHANGED <<alias, outcome>>

\* One iteration of the loop over the keepers: the request is sent.
Send(p, n) ==
  /\ n \in phases[p].loop
  /\ phases' = [phases EXCEPT ![p].loop = @ \ {n},
                              ![p].pending = @ \cup {n},
                              ![p].timer[n] = "armed"]
  /\ UNCHANGED <<alias, lookups, outcome>>

\* Mutant: a keeper that cannot be reached is not counted off.
ConnectFailsUncounted(p, n) ==
  /\ n \in phases[p].loop
  /\ phases' = [phases EXCEPT ![p].loop = @ \ {n}]
  /\ UNCHANGED <<alias, lookups, outcome>>

\* One iteration without a connection.
ConnectFails(p, n) ==
  /\ n \in phases[p].loop
  /\ Settle([phases EXCEPT ![p].loop = @ \ {n}], p)

\* The response handler of the request; ok is resp.success.  timer->cancel()
\* does not stop a handler that is already queued.
ReceiveResponse(p, n, ok) ==
  /\ Idle
  /\ n \in phases[p].pending
  /\ LET queued == phases[p].timer[n] = "queued"
         answered ==
           [phases[p] EXCEPT !.pending = @ \ {n},
                             !.timer[n] = IF queued THEN @ ELSE "off",
                             !.raced = @ \/ queued,
                             !.acks = IF ok THEN @ + 1 ELSE @,
                             !.confirmed = IF ok THEN @ \cup {n} ELSE @]
     IN  Settle([phases EXCEPT ![p] = answered], p)

\* The time of a request is over: the handler of its timer is queued.
TimerExpires(p, n) ==
  /\ phases[p].timer[n] = "armed"
  /\ phases' = [phases EXCEPT ![p].timer[n] = "queued"]
  /\ UNCHANGED <<alias, lookups, outcome>>

\* The handler of the timer, whether the request is still pending or not.
TimerFires(p, n) ==
  /\ Idle
  /\ phases[p].timer[n] = "queued"
  /\ Settle([phases EXCEPT ![p].timer[n] = "off", ![p].pending = @ \ {n}], p)

Next ==
  \/ \E l \in 1..Len(lookups), closest \in Results[alias] : LookupEnds(l, closest)
  \/ \E p \in 1..Len(phases), n \in Nodes :
       \/ Send(p, n)
       \/ ConnectFails(p, n)
       \/ \E ok \in BOOLEAN : ReceiveResponse(p, n, ok)
       \/ TimerExpires(p, n)
       \/ TimerFires(p, n)

Spec == Init /\ [][Next]_vars

(***************************************************************************)
(* What the event loop comes to whatever the peers do: the first callback  *)
(* of a lookup (Lookup), the steps of a loop over keepers, and the timers. *)
(* Each of these happens a bounded number of times.                        *)
(***************************************************************************)
Progress ==
  \/ \E l \in 1..Len(lookups), closest \in Results[alias] :
       lookups[l].calls = 0 /\ LookupEnds(l, closest)
  \/ \E p \in 1..Len(phases), n \in Nodes :
       Send(p, n) \/ ConnectFails(p, n) \/ TimerExpires(p, n) \/ TimerFires(p, n)

Fairness == WF_vars(Progress)

FairSpec == Spec /\ Fairness

-----------------------------------------------------------------------------

\* Every phase calls back at most once, although remaining wraps below 0 when
\* an answer and its timer are both handled; so publish_self_record calls back
\* more than once only if a lookup did.
ReportedOnce ==
  /\ \A p \in 1..Len(phases) : Len(phases[p].reports) <= 1
  /\ Len(outcome) > 1 => \E l \in 1..Len(lookups) : lookups[l].calls > 1

\* The phases behind an outcome: the one that called back and, for an alias,
\* the one under the node key before it.
Behind(p) == {p, lookups[phases[p].lookup].from} \ {0}

\* A publication that is reported to succeed has, in each of its rounds, as
\* many keepers that confirmed, and the local node, as the quorum asks for and
\* as it reports, also when a lookup called back twice.  (The local store may
\* have refused the record: publish_record ignores that.)
SuccessHasQuorum ==
  \A i \in 1..Len(outcome) : outcome[i].ok =>
    \A p \in Behind(outcome[i].by) :
      LET copies == Cardinality(phases[p].confirmed) + 1
      IN  copies >= RequiredQuorum(phases[p].keepers) /\ copies >= outcome[i].acks

\* No handler of phase p is left.
Settled(p) ==
  /\ phases[p].loop = {} /\ phases[p].pending = {}
  /\ \A n \in Nodes : phases[p].timer[n] = "off"

\* "Quorum: successful if at least 2 confirmations received (or min(2,
\* keepers.size()))" (src/src/node.hpp:90): once every keeper has answered or
\* timed out, a phase that got the confirmations was reported to succeed.
\* The exception is one in which an answer came when the handler of its
\* timer was queued: both count the keeper off, and the phase ends early.
QuorumIsReported ==
  \A p \in 1..Len(phases) :
    /\ Settled(p)
    /\ ~phases[p].raced
    /\ Cardinality(phases[p].confirmed) + 1 >= RequiredQuorum(phases[p].keepers)
    => phases[p].reports # <<>> /\ phases[p].reports[1].ok

\* publish_self_record calls back and, in the end, so has every phase that a
\* lookup started, whatever keepers are unreachable, refuse the record or do
\* not answer.
EventuallyReported ==
  <>[](outcome # <<>> /\ \A p \in 1..Len(phases) : phases[p].reports # <<>>)

=============================================================================
