------------------------------ MODULE Republish ------------------------------
(***************************************************************************)
(* The record of one owner over time: the republish timer and the sequence *)
(* number of the owner (Node::schedule_republish and create_self_record in *)
(* src/src/node.cpp), the stores of its keepers, restarts of both, and a   *)
(* reader that calls async_find_value again and again.                     *)
(*                                                                         *)
(* A record is its sequence number and its time of issue; the number of    *)
(* the owner's run, which no code sees, tells the records of different     *)
(* runs apart.  The rounds of a publication are in Publish, the search is  *)
(* in Lookup: here a publication sends a STORE request to some keepers, a  *)
(* search asks every node.                                                 *)
(*                                                                         *)
(* The stores are those of RecordStore with one key.  An expired record is *)
(* left in place, since erasing it makes no difference: it is not served,  *)
(* and its number stays in highest_seq_, which is therefore the number of  *)
(* the record here.                                                        *)
(*                                                                         *)
(* All clocks agree, and time does not pass a deadline: a timer may be     *)
(* late by MaxLate and a request may be under way for MaxDelay.            *)
(***************************************************************************)
EXTENDS Integers, FiniteSets

CONSTANTS
  Keepers,     \* the nodes that may get the record
  Owner,       \* the node whose record it is
  Reader,      \* a node that searches it
  Ttl,         \* config_.dht.record_ttl_sec
  Interval,    \* config_.dht.republish_interval_sec
  MaxLate,     \* bound on the delay of a timer
  MaxDelay,    \* bound on the age of a STORE request that arrives
  MaxTime,     \* bound on the clock
  MaxRuns,     \* bound on the starts of the owner
  MaxSeq,      \* bound on the sequence number
  MaxByApp,    \* the application publishes only up to this number
  MaxAnswers   \* bound on the answers under way

\* "Republish interval (must be <= TTL/2)" (src/config/default.toml:33), and
\* what is left of the TTL covers the delays.
ASSUME TimesAssumption ==
  /\ Ttl \in Nat /\ Interval \in Nat \ {0} /\ MaxLate \in Nat /\ MaxDelay \in Nat
  /\ 2 * (Interval + MaxLate) + MaxDelay <= Ttl
ASSUME NodesAssumption ==
  Owner \notin Keepers /\ Reader \notin Keepers /\ Owner # Reader

Stores == Keepers \cup {Owner, Reader}

Record == [run : Nat, seq : Nat, issued_at : Nat]
NoRecord == [run |-> 0, seq |-> 0, issued_at |-> 0]

VARIABLES
  now,         \* the wall clock
  up,          \* whether the owner runs
  run,         \* how often it was started
  record_seq,  \* record_seq_
  due,         \* when the republish timer expires
  started,     \* history: when the owner was started
  before,      \* history: the largest number of its earlier runs
  store,       \* the record of each store, or NoRecord
  net,         \* the STORE requests under way
  lost,        \* history: the records of this run that did not reach a keeper
  searching,   \* whether a search of the reader runs
  answers,     \* the answers under way, of this search or an earlier one
  read         \* the record that the reader's callback was given last

owner == <<up, run, record_seq, due, started, before>>
reader == <<searching, answers, read>>
vars == <<now, owner, store, net, lost, reader>>

\* NodeRecord::is_time_valid.
IsTimeValid(r) == now <= r.issued_at + Ttl

\* RecordStore::put, whether it takes the record and what the store holds then.
Takes(s, r) == IsTimeValid(r) /\ r.seq > store[s].seq
Put(s, r) == [store EXCEPT ![s] = IF Takes(s, r) THEN r ELSE @]

\* Whether RecordStore::get returns a record.
Has(s) == store[s] # NoRecord /\ IsTimeValid(store[s])

\* The records of this run among the requests under way to keeper k.
UnderWay(k) == {m.rec : m \in {x \in net : x.to = k /\ x.rec.run = run}}

-----------------------------------------------------------------------------

Init ==
  /\ now = 0
  /\ up = TRUE
  /\ run = 1
  /\ record_seq = 0
  /\ due = Interval
  /\ started = 0
  /\ before = 0
  /\ store = [s \in Stores |-> NoRecord]
  /\ net = {}
  /\ lost = [k \in Keepers |-> {}]
  /\ searching = FALSE
  /\ answers = {}
  /\ read = NoRecord

\* publish_self_record: a record with the next number goes into the local
\* store and to the keepers that the lookup found and that can be reached.
PublishSelfRecord(reached) ==
  LET r == [run |-> run, seq |-> record_seq + 1, issued_at |-> now]
  IN  /\ up
      /\ record_seq < MaxSeq
      /\ record_seq' = record_seq + 1
      /\ store' = Put(Owner, r)
      /\ net' = net \cup {[to |-> k, rec |-> r] : k \in reached}
      /\ lost' = [k \in Keepers |-> IF k \in reached THEN lost[k] ELSE lost[k] \cup {r}]
      /\ UNCHANGED <<now, up, run, started, before, reader>>

\* The application publishes.
Publish(reached) ==
  /\ record_seq < MaxByApp
  /\ PublishSelfRecord(reached)
  /\ UNCHANGED due

\* Mutant: the timer is armed for twice the interval.
RepublishRarely(reached) ==
  /\ now >= due
  /\ due' = now + 2 * Interval
  /\ PublishSelfRecord(reached)

\* The handler of the republish timer, which is armed again at once.
Republish(reached) ==
  /\ now >= due
  /\ due' = now + Interval
  /\ PublishSelfRecord(reached)

\* The owner stops or crashes, with all it has in memory.
Crash ==
  /\ up
  /\ up' = FALSE
  /\ store' = [store EXCEPT ![Owner] = NoRecord]
  /\ UNCHANGED <<now, run, record_seq, due, started, before, net, lost, reader>>

\* Mutant: the republish timer is not armed when the owner starts again.
StartNoTimer ==
  /\ ~up
  /\ run < MaxRuns
  /\ up' = TRUE
  /\ run' = run + 1
  /\ record_seq' = 0
  /\ started' = now
  /\ before' = IF record_seq > before THEN record_seq ELSE before
  /\ due' = MaxTime + 1
  /\ lost' = [k \in Keepers |-> {}]
  /\ UNCHANGED <<now, store, net, reader>>

\* Node::start: the keys are loaded, the number starts from 0 again.
Start ==
  /\ ~up
  /\ run < MaxRuns
  /\ up' = TRUE
  /\ run' = run + 1
  /\ record_seq' = 0
  /\ started' = now
  /\ before' = IF record_seq > before THEN record_seq ELSE before
  /\ due' = now + Interval
  /\ lost' = [k \in Keepers |-> {}]
  /\ UNCHANGED <<now, store, net, reader>>

\* The handler of STORE_REQUEST.
Store(m) ==
  /\ m \in net
  /\ net' = net \ {m}
  /\ store' = Put(m.to, m.rec)
  /\ UNCHANGED <<now, owner, lost, reader>>

\* The request is lost with its connection.
Lose(m) ==
  /\ m \in net
  /\ net' = net \ {m}
  /\ lost' = IF m.rec.run = run THEN [lost EXCEPT ![m.to] = @ \cup {m.rec}] ELSE lost
  /\ UNCHANGED <<now, owner, store, reader>>

\* A keeper restarts with an empty store; its connections are gone.
KeeperRestarts(k) ==
  /\ store[k] # NoRecord
  /\ store' = [store EXCEPT ![k] = NoRecord]
  /\ net' = {m \in net : m.to # k}
  /\ lost' = [lost EXCEPT ![k] = @ \cup UnderWay(k)]
  /\ UNCHANGED <<now, owner, reader>>

\* async_find_value with the record in the local store.
FindLocally ==
  /\ ~searching
  /\ Has(Reader)
  /\ read' = store[Reader]
  /\ UNCHANGED <<now, owner, store, net, lost, searching, answers>>

\* async_find_value without: the search starts.
Find ==
  /\ ~searching
  /\ ~Has(Reader)
  /\ searching' = TRUE
  /\ answers' = {[a EXCEPT !.current = FALSE] : a \in answers}
  /\ UNCHANGED <<now, owner, store, net, lost, read>>

\* The handler of FIND_VALUE_REQUEST of a node with the record.
Answer(s) ==
  /\ searching
  /\ Has(s)
  /\ Cardinality(answers) < MaxAnswers
  /\ answers' = answers \cup {[rec |-> store[s], current |-> TRUE]}
  /\ UNCHANGED <<now, owner, store, net, lost, searching, read>>

\* Mutant: the record is returned without being cached.
ReceiveUncached(a) ==
  /\ a \in answers
  /\ answers' = answers \ {a}
  /\ IF IsTimeValid(a.rec) /\ a.current /\ searching
     THEN read' = a.rec /\ searching' = FALSE
     ELSE UNCHANGED <<read, searching>>
  /\ UNCHANGED <<now, owner, store, net, lost>>

\* The handler of FIND_VALUE_RESPONSE: a valid record is cached, if the local
\* store takes it, and ends the search that asked for it either way.
Receive(a) ==
  /\ a \in answers
  /\ answers' = answers \ {a}
  /\ store' = Put(Reader, a.rec)
  /\ IF IsTimeValid(a.rec) /\ a.current /\ searching
     THEN read' = a.rec /\ searching' = FALSE
     ELSE UNCHANGED <<read, searching>>
  /\ UNCHANGED <<now, owner, net, lost>>

\* The search ends without a record when every request is answered or timed
\* out; an answer to a request that timed out is ignored.
FindNothing ==
  /\ searching
  /\ searching' = FALSE
  /\ answers' = {a \in answers : ~a.current}
  /\ UNCHANGED <<now, owner, store, net, lost, read>>

\* Time passes, but not the deadlines.
Tick ==
  /\ now < MaxTime
  /\ up => now < due + MaxLate
  /\ \A m \in net : now < m.rec.issued_at + MaxDelay
  /\ now' = now + 1
  /\ UNCHANGED <<owner, store, net, lost, reader>>

Next ==
  \/ \E reached \in SUBSET Keepers : Publish(reached) \/ Republish(reached)
  \/ Crash
  \/ Start
  \/ \E m \in net : Store(m) \/ Lose(m)
  \/ \E k \in Keepers : KeeperRestarts(k)
  \/ FindLocally
  \/ Find
  \/ \E s \in Keepers \cup {Owner} : Answer(s)
  \/ \E a \in answers : Receive(a)
  \/ FindNothing
  \/ Tick

Spec == Init /\ [][Next]_vars

-----------------------------------------------------------------------------

\* A keeper that holds a record of the owner's current run, and has missed at
\* most one later publication, serves a valid record: this is what the
\* interval of at most half the TTL is for.
KeptThroughOneLoss ==
  \A k \in Keepers :
    /\ up
    /\ store[k].run = run
    /\ \A p, q \in lost[k] :
         p.seq > store[k].seq /\ q.seq > store[k].seq => p = q
    => Has(k)

\* The outage after a restart is bounded: the keepers refuse the numbers that
\* the restarted owner uses again, and a keeper that misses nothing serves its
\* record at the latest when the owner has published once more than before.
OutageBounded ==
  \A k \in Keepers :
    /\ up
    /\ store[k] # NoRecord
    /\ lost[k] = {}
    /\ now > started + (before + 1) * (Interval + MaxLate) + MaxDelay
    => Has(k)

\* The reader's callback is given an older record than before only when the
\* owner has restarted since its first run: the cached record lives as long
\* as any older one.
ReadsGoForward == [][read'.issued_at < read.issued_at => read.run > 1]_vars

=============================================================================
