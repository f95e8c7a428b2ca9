------------------------------- MODULE Lookup --------------------------------
(***************************************************************************)
(* One iterative lookup: a LookupSession driven by Node::async_lookup or   *)
(* by Node::async_find_value (src/src/node.cpp), with the answers and the  *)
(* timers of its requests.  The two functions differ in three things: the  *)
(* second looks into the local store first, takes a record for an answer,  *)
(* and has a flag *finished.                                               *)
(*                                                                         *)
(* step_func calls itself from inside its loop when a connection fails.    *)
(* `stack' holds, for each active call, the peers its loop has still to    *)
(* query; a handler runs until it is empty, and no other handler starts    *)
(* before.  The nodes of Holders answer with a record, which may have      *)
(* become invalid on the way, the others with peers; a record is named by  *)
(* the node that gave it.  Adding the answered peers to the routing table  *)
(* is in LruProbe, the versions of a record are in Republish.              *)
(***************************************************************************)
EXTENDS LookupSession

CONSTANT Holders   \* the nodes that have a record under the key

ASSUME HoldersAssumption == Holders \subseteq Nodes

VARIABLES
  kind,      \* the function: "async_lookup" or "async_find_value"
  cand,      \* the state of each node in the shortlist, or "unknown"
  stack,     \* the active calls of step_func
  pending,   \* the nodes with a request in pending_requests_
  timer,     \* the timer of the request to each node
  found,     \* *found_record: a set of at most one record
  finished,  \* *finished
  cached,    \* the records that were put into the local store
  reports,   \* what the callback was given, call by call
  raced,     \* history: whether an answer came when its timer was queued
  asked      \* history: the nodes whose turn in a loop of step_func has come

vars == <<kind, cand, stack, pending, timer, found, finished, cached, reports, raced,
          asked>>

\* What the callback is given: the closest nodes or the record.
Result(c, f) == IF kind = "async_lookup" THEN GetClosest(c) ELSE f

\* Mutant: async_find_value has no *finished either.
StepAgain(c, f, s) ==
  LET ends == \/ f # {}
              \/ IsComplete(c)
              \/ PickNextQueries(c) = {} /\ In(c, "IN_FLIGHT") = {}
  IN  /\ found' = f
      /\ finished' = FALSE
      /\ reports' = IF ends THEN Append(reports, Result(c, f)) ELSE reports
      /\ cand' = IF ends THEN c ELSE Queried(c)
      /\ stack' = IF ends THEN s ELSE Push(PickNextQueries(c), s)

\* Mutant: *finished stops the second report but not the queries.
StepGoesOn(c, f, s) ==
  LET exhausted == \/ IsComplete(c)
                   \/ PickNextQueries(c) = {} /\ In(c, "IN_FLIGHT") = {}
      ends      == ~finished /\ (f # {} \/ exhausted)
      queries   == ~ends /\ ~exhausted
  IN  /\ found' = f
      /\ finished' = (kind = "async_find_value" /\ (finished \/ ends))
      /\ reports' = IF ends THEN Append(reports, Result(c, f)) ELSE reports
      /\ cand' = IF queries THEN Queried(c) ELSE c
      /\ stack' = IF queries THEN Push(PickNextQueries(c), s) ELSE s

(***************************************************************************)
(* A call of step_func with the session in state c, the record f found and *)
(* s the calls below: it returns at once, calls back, or marks its queries *)
(* and enters its loop.                                                    *)
(***************************************************************************)
Step(c, f, s) ==
  LET exhausted == \/ IsComplete(c)
                   \/ PickNextQueries(c) = {} /\ In(c, "IN_FLIGHT") = {}
      ends      == ~finished /\ (f # {} \/ exhausted)
      queries   == ~finished /\ ~ends
  IN  /\ found' = f
      /\ finished' = (kind = "async_find_value" /\ (finished \/ ends))
      /\ reports' = IF ends THEN Append(reports, Result(c, f)) ELSE reports
      /\ cand' = IF queries THEN Queried(c) ELSE c
      /\ stack' = IF queries THEN Push(PickNextQueries(c), s) ELSE s

-----------------------------------------------------------------------------

\* The local store of async_find_value has the record: the callback runs.
InitLocal ==
  /\ kind = "async_find_value"
  /\ cand = [n \in Nodes |-> "unknown"]
  /\ stack = <<>>
  /\ finished = FALSE
  /\ reports = <<{0}>>

\* The candidates of the routing table and the first call of step_func.
InitNetwork ==
  /\ kind \in {"async_lookup", "async_find_value"}
  /\ \E initial \in SUBSET Nodes :
       LET c == AddCandidates([n \in Nodes |-> "unknown"], initial)
       IN  /\ Cardinality(initial) <= 2 * Alpha
           /\ cand = Queried(c)
           /\ stack = Push(PickNextQueries(c), <<>>)
           /\ finished = (kind = "async_find_value" /\ initial = {})
           /\ reports = IF initial = {} THEN <<{}>> ELSE <<>>

Init ==
  /\ InitLocal \/ InitNetwork
  /\ pending = {}
  /\ timer = [n \in Nodes |-> "off"]
  /\ found = {}
  /\ cached = {}
  /\ raced = FALSE
  /\ asked = {}

Idle == stack = <<>>

\* Mutant: the timer of the request is not started.
QueryNoTimer ==
  /\ ~Idle
  /\ pending' = pending \cup {Peer(stack)}
  /\ stack' = Rest(stack)
  /\ asked' = asked \cup {Peer(stack)}
  /\ UNCHANGED <<kind, cand, timer, found, finished, cached, reports, raced>>

\* One iteration of the loop with a connection: the request is sent.
Query ==
  /\ ~Idle
  /\ pending' = pending \cup {Peer(stack)}
  /\ timer' = [timer EXCEPT ![Peer(stack)] = "armed"]
  /\ stack' = Rest(stack)
  /\ asked' = asked \cup {Peer(stack)}
  /\ UNCHANGED <<kind, cand, found, finished, cached, reports, raced>>

\* One iteration of the loop without: step_func runs inside the loop.
ConnectFails ==
  /\ ~Idle
  /\ Step(OnFailure(cand, Peer(stack)), found, Rest(stack))
  /\ asked' = asked \cup {Peer(stack)}
  /\ UNCHANGED <<kind, pending, timer, cached, raced>>

\* on_frame takes the handler of the request, which cancels the timer.
Answered(n) ==
  /\ Idle
  /\ n \in pending
  /\ pending' = pending \ {n}
  /\ timer' = [timer EXCEPT ![n] = Cancelled(@)]
  /\ raced' = (raced \/ timer[n] = "queued")
  /\ UNCHANGED <<kind, asked>>

\* A valid record: it is cached and found; the candidate stays in flight.
ReceiveValue(n) ==
  /\ kind = "async_find_value" /\ n \in Holders
  /\ Answered(n)
  /\ cached' = cached \cup {n}
  /\ Step(cand, {n}, stack)

\* The closest peers, of a node that has no record or was not asked for it.
ReceivePeers(n, peers) ==
  /\ kind = "async_find_value" => n \notin Holders
  /\ Answered(n)
  /\ UNCHANGED cached
  /\ Step(OnResponse(cand, n, peers), found, stack)

\* A record that is not valid, or a response that does not parse.
ReceiveInvalid(n) ==
  /\ Answered(n)
  /\ UNCHANGED cached
  /\ Step(OnFailure(cand, n), found, stack)

\* The time of a request is over: the handler of its timer is queued.
TimerExpires(n) ==
  /\ timer[n] = "armed"
  /\ timer' = [timer EXCEPT ![n] = "queued"]
  /\ UNCHANGED <<kind, cand, stack, pending, found, finished, cached, reports, raced,
                 asked>>

\* Mutant: the timeout is not reported to the session.
TimerFiresSilently(n) ==
  /\ Idle
  /\ timer[n] = "queued"
  /\ timer' = [timer EXCEPT ![n] = "off"]
  /\ pending' = pending \ {n}
  /\ Step(cand, found, stack)
  /\ UNCHANGED <<kind, cached, raced, asked>>

\* The handler of the timer, whether the request is still pending or not.
TimerFires(n) ==
  /\ Idle
  /\ timer[n] = "queued"
  /\ timer' = [timer EXCEPT ![n] = "off"]
  /\ pending' = pending \ {n}
  /\ Step(OnFailure(cand, n), found, stack)
  /\ UNCHANGED <<kind, cached, raced, asked>>

Next ==
  \/ Query
  \/ ConnectFails
  \/ \E n \in Nodes :
       \/ ReceiveValue(n)
       \/ \E peers \in SUBSET Nodes : ReceivePeers(n, peers)
       \/ ReceiveInvalid(n)
       \/ TimerExpires(n)
       \/ TimerFires(n)

Spec == Init /\ [][Next]_vars

(***************************************************************************)
(* A handler that runs goes on, a timer expires, and the handler of an     *)
(* expired timer gets its turn in the queue of the io_context.             *)
(***************************************************************************)
Fairness ==
  /\ WF_vars(Query \/ ConnectFails)
  /\ \A n \in Nodes : WF_vars(TimerExpires(n)) /\ SF_vars(TimerFires(n))

FairSpec == Spec /\ Fairness

-----------------------------------------------------------------------------

\* A node that a lookup without a result waits for is still to be queried by a
\* running loop, or has a request whose timer will end it: no candidate is left
\* in flight by the recursion of step_func or by a race of answers and timers.
InFlightIsTracked ==
  reports = <<>> =>
    \A n \in In(cand, "IN_FLIGHT") :
      \/ \E i \in 1..Len(stack) : n \in stack[i]
      \/ n \in pending /\ timer[n] # "off"

\* A lookup turns to a node at most once, whether the node then cannot be
\* reached, answers, fails, or is named again by other answers: no active loop
\* of step_func holds a node whose turn has come, or one that another loop holds.
QueriedOnce ==
  /\ \A i, j \in 1..Len(stack) : i # j => stack[i] \cap stack[j] = {}
  /\ \A i \in 1..Len(stack) : stack[i] \subseteq In(cand, "IN_FLIGHT") \ asked

\* The callback runs at most once, whatever connections fail inside the loop
\* and whatever handlers still call step_func afterwards.  The one exception
\* is async_lookup after an answer that came when the handler of its timer was
\* queued.
CallbackOnce == Len(reports) > 1 => kind = "async_lookup" /\ raced

\* "Employs alpha=3 parallelism" (src/src/node.hpp:81): at most alpha queries
\* are in flight, those of all the active calls of step_func together, unless
\* an answer came when the handler of its timer was queued.
AtMostAlphaInFlight == ~raced => Cardinality(In(cand, "IN_FLIGHT")) <= Alpha

\* After the callback of async_find_value nothing more is sent.
QuietAfterReport == kind = "async_find_value" /\ reports # <<>> => Idle

\* When the callback first runs without a record, the lookup has converged:
\* every known node has answered without one or has failed, unless k known
\* nodes that are closer have answered.  So the result of async_lookup has the
\* k closest of the known nodes that live, and async_find_value has missed no
\* holder that answers.
ConvergedAtFirstCallback ==
  [][(reports = <<>> /\ reports' # <<>> /\ found' = {}) =>
       LET answered == IF kind = "async_lookup" THEN reports'[1]
                                                ELSE In(cand', "RESPONDED")
       IN  \A n \in Known(cand') :
             \/ n \in answered
             \/ cand'[n] = "FAILED"
             \/ Cardinality({m \in answered : m < n}) >= K]_vars

\* The lookup ends: its callback runs, whatever connections fail and whatever
\* answers are late or missing.
EventuallyReported == <>(reports # <<>>)

\* "invokes callback when the lookup converges" (src/src/node.hpp:82): the
\* callback of async_lookup runs at most once.
CallbackAtMostOnce == Len(reports) <= 1

=============================================================================
