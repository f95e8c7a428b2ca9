------------------------------ MODULE LruProbe ------------------------------
(***************************************************************************)
(* How a Node keeps its routing table: every way in which it learns of a   *)
(* peer ends in Node::add_contact, which, when the bucket of the peer is   *)
(* full, probes the least recently seen contact of that bucket with a      *)
(* PING; the answer refreshes the contact, a timeout or a failed           *)
(* connection evicts it (src/src/node.cpp).                                *)
(*                                                                         *)
(* The node runs one io_context on one thread: a handler (a received       *)
(* frame, an expired timer, a lost connection) is atomic.  A handler that  *)
(* adds several contacts is a sequence of steps here, with the contacts    *)
(* still to add in `todo'; no other handler runs until it is empty.        *)
(*                                                                         *)
(* A timer whose time has come has its handler in the queue of the         *)
(* io_context, and cancel() no longer stops it.  A handler that runs       *)
(* first may so find the timer "queued".                                   *)
(*                                                                         *)
(* A peer has at most one connection, and `linked' is the set of peers     *)
(* for which Node::get_connection_to finds one.  No code of the node reads *)
(* last_seen, so a contact is seen at time 0 all along.  The result of a   *)
(* send is not awaited: a lost connection is the action Disconnect.        *)
(***************************************************************************)
EXTENDS RoutingTable, FiniteSets

CONSTANTS
  Rids,       \* bound on the PINGs outstanding at a time
  Stable,     \* peers that are always reachable and answer in time
  MaxNew      \* bound on the contacts of one FIND_NODE response

ASSUME StableAssumption == Stable \subseteq Nodes
ASSUME MaxNewAssumption == MaxNew \in Nat

VARIABLES
  routing_table,      \* routing_table_
  linked,     \* the peers of connections_
  pings,      \* pending_pings_, the timer of each, and its history
  todo        \* the contacts that the running handler has still to add

probeVars == <<routing_table, linked, pings, todo>>

Contact == [id : Nodes \cup {Self}, seen : {0}]

ContactOf(n) == [id |-> n, seen |-> 0]

(***************************************************************************)
(* A PING: the peer it was sent to, whether it is a probe (with an         *)
(* expected_peer_id and a callback that acts on the table), whether it is  *)
(* in pending_pings_, and its timer.  History: how often its callback ran. *)
(***************************************************************************)
Ping == [peer    : Nodes \cup {Self},
         probe   : BOOLEAN,
         pending : BOOLEAN,
         timer   : {"off", "armed", "queued"},
         calls   : Nat]

NoPing == [peer |-> Self, probe |-> FALSE, pending |-> FALSE,
           timer |-> "off", calls |-> 0]

IsFree(p) == ~p.pending /\ p.timer = "off"

FreeRids(pgs) == {r \in Rids : IsFree(pgs[r])}

\* timer->cancel().
Cancelled(timer) == IF timer = "armed" THEN "off" ELSE timer

(***************************************************************************)
(* Node::send_ping on an open connection: an entry in pending_pings_ and   *)
(* an armed timer, under a fresh request id.                               *)
(***************************************************************************)
Sent(pgs, r, n, isProbe) ==
  [pgs EXCEPT ![r] = [peer |-> n, probe |-> isProbe, pending |-> TRUE,
                      timer |-> "armed", calls |-> 0]]

(***************************************************************************)
(* The wrapped callback of PING r, which cancels the timer, after its      *)
(* entry was erased from pending_pings_.                                   *)
(***************************************************************************)
Called(pgs, r) ==
  [pgs EXCEPT ![r] = [peer |-> @.peer, probe |-> @.probe, pending |-> FALSE,
                      timer |-> Cancelled(@.timer), calls |-> @.calls + 1]]

(***************************************************************************)
(* The probe callback of Node::probe_lru_contact: the table afterwards.    *)
(***************************************************************************)
ProbeResult(tbl, p, success) ==
  IF ~p.probe THEN tbl
  ELSE IF success THEN TableTouched(tbl, p.peer, 0)
  ELSE TableRemoved(tbl, p.peer)

State(tbl, lnk, pgs) == [table |-> tbl, linked |-> lnk, pings |-> pgs]

(***************************************************************************)
(* Node::probe_lru_contact: the possible outcomes.  An existing connection *)
(* is used; otherwise the node connects (blocking), and evicts the contact *)
(* when that fails.                                                        *)
(***************************************************************************)
ProbeLruContact(st, n) ==
  {State(st.table, st.linked \cup {n}, Sent(st.pings, r, n, TRUE)) :
      r \in FreeRids(st.pings)}
  \cup
  (IF n \in st.linked \cup Stable THEN {}
   ELSE {State(TableRemoved(st.table, n), st.linked, st.pings)})

\* Mutant: the LRU contact of a full bucket is replaced without a probe.
AddContactEvicts(st, n) ==
  LET new == [st EXCEPT !.table = TableAddOrUpdate(@, ContactOf(n))]
      lru == TableLeastRecentlySeen(st.table, n).id
  IN  IF n = Self \/ TableIsAdded(st.table, n)
        THEN {new}
        ELSE {[new EXCEPT !.table = TableRemoved(@, lru)]}

(***************************************************************************)
(* Node::add_contact: the possible outcomes.  The LRU contact it probes is *)
(* never the new peer, which is not among the contacts of the full bucket. *)
(***************************************************************************)
AddContact(st, n) ==
  LET new == [st EXCEPT !.table = TableAddOrUpdate(@, ContactOf(n))]
  IN  IF n = Self \/ TableIsAdded(st.table, n)
        THEN {new}
        ELSE ProbeLruContact(new, TableLeastRecentlySeen(new.table, n).id)

-----------------------------------------------------------------------------

ProbeInit ==
  /\ routing_table = EmptyTable
  /\ linked = {}
  /\ pings = [r \in Rids |-> NoPing]
  /\ todo = <<>>

\* No handler is running.
Idle == todo = <<>>

\* The state after a handler that left table, linked and pings as in st.
Becomes(st) ==
  /\ routing_table' = st.table
  /\ linked' = st.linked
  /\ pings' = st.pings

(***************************************************************************)
(* on_frame, PING with a verified identity: the connection belongs to the  *)
(* peer, the peer becomes a contact, a PONG is sent.  A PING that fails    *)
(* the verification closes the connection: Disconnect.                     *)
(***************************************************************************)
ReceivePing(n) ==
  /\ Idle
  /\ \E st \in AddContact(State(routing_table, (linked \cup {n}) \ {Self}, pings), n) :
        Becomes(st)
  /\ UNCHANGED todo

(***************************************************************************)
(* on_frame, FIND_NODE_REQUEST, STORE_REQUEST or FIND_VALUE_REQUEST: the   *)
(* sender that the message names becomes a contact.                        *)
(***************************************************************************)
ReceiveRequest(n) ==
  /\ Idle
  /\ \E st \in AddContact(State(routing_table, linked, pings), n) : Becomes(st)
  /\ UNCHANGED todo

(***************************************************************************)
(* on_frame, FIND_NODE_RESPONSE: every returned peer becomes a contact, in *)
(* order; when the request is pending, the callback of the lookup then     *)
(* adds all of them once more.                                             *)
(***************************************************************************)
ReceiveFindNodeResponse(peers, isPending) ==
  /\ Idle
  /\ peers # <<>>
  /\ todo' = IF isPending THEN peers \o peers ELSE peers
  /\ Cardinality(FreeRids(pings)) >= Len(todo')
  /\ UNCHANGED <<routing_table, linked, pings>>

\* One iteration of the loop over the returned peers.
AddNext ==
  /\ todo # <<>>
  /\ \E st \in AddContact(State(routing_table, linked, pings), Head(todo)) :
        Becomes(st)
  /\ todo' = Tail(todo)

(***************************************************************************)
(* on_frame, PONG for a pending PING: the entry is erased; an answer with  *)
(* the identity of the expected peer adds the contact and then calls back  *)
(* with success.  A PONG for a request id that is not pending is ignored.  *)
(***************************************************************************)
ReceivePong(r) ==
  LET p == pings[r]
  IN  /\ Idle
      /\ p.pending
      /\ p.peer \in linked
      /\ \E st \in AddContact(
                     State(routing_table, linked, [pings EXCEPT ![r].pending = FALSE]),
                     p.peer) :
            Becomes(State(ProbeResult(st.table, p, TRUE), st.linked,
                          Called(st.pings, r)))
      /\ UNCHANGED todo

(***************************************************************************)
(* on_frame, PONG that is malformed or has the wrong identity: the         *)
(* callback reports failure, and a wrong identity closes the connection.   *)
(***************************************************************************)
ReceiveBadPong(r, closes) ==
  LET p == pings[r]
  IN  /\ Idle
      /\ p.pending
      /\ p.peer \in linked \ Stable
      /\ routing_table' = ProbeResult(routing_table, p, FALSE)
      /\ linked' = IF closes THEN linked \ {p.peer} ELSE linked
      /\ pings' = Called(pings, r)
      /\ UNCHANGED todo

\* The time of a timer has come: its handler is queued.
TimerExpires(r) ==
  /\ pings[r].timer = "armed"
  /\ ~(pings[r].pending /\ pings[r].peer \in Stable)
  /\ pings' = [pings EXCEPT ![r].timer = "queued"]
  /\ UNCHANGED <<routing_table, linked, todo>>

\* Mutant: the handler does not look whether the PING is still pending.
TimerFiresAlways(r) ==
  /\ Idle
  /\ pings[r].timer = "queued"
  /\ routing_table' = ProbeResult(routing_table, pings[r], FALSE)
  /\ pings' = Called([pings EXCEPT ![r].timer = "off"], r)
  /\ UNCHANGED <<linked, todo>>

(***************************************************************************)
(* The handler of the timer of Node::send_ping: it reports failure when    *)
(* the PING is still pending.                                              *)
(***************************************************************************)
TimerFires(r) ==
  LET p == pings[r]
      done == [pings EXCEPT ![r].timer = "off"]
  IN  /\ Idle
      /\ p.timer = "queued"
      /\ IF p.pending
           THEN /\ routing_table' = ProbeResult(routing_table, p, FALSE)
                /\ pings' = Called(done, r)
           ELSE /\ pings' = done
                /\ UNCHANGED routing_table
      /\ UNCHANGED <<linked, todo>>

\* on_disconnect.
Disconnect(n) ==
  /\ Idle
  /\ n \in linked \ Stable
  /\ linked' = linked \ {n}
  /\ UNCHANGED <<routing_table, pings, todo>>

\* Node::connect_to_peer and Node::ping_all: a PING that is not a probe.
SendPing(n, r) ==
  /\ Idle
  /\ r \in FreeRids(pings)
  /\ linked' = linked \cup {n}
  /\ pings' = Sent(pings, r, n, FALSE)
  /\ UNCHANGED <<routing_table, todo>>

ProbeNext ==
  \/ \E n \in Nodes \cup {Self} : ReceivePing(n) \/ ReceiveRequest(n)
  \/ \E m \in 0..MaxNew : \E peers \in [1..m -> Nodes \cup {Self}] :
        \E isPending \in BOOLEAN : ReceiveFindNodeResponse(peers, isPending)
  \/ AddNext
  \/ \E r \in Rids : \/ ReceivePong(r)
                     \/ \E closes \in BOOLEAN : ReceiveBadPong(r, closes)
                     \/ TimerExpires(r)
                     \/ TimerFires(r)
  \/ \E n \in Nodes : Disconnect(n) \/ \E r \in Rids : SendPing(n, r)

ProbeSpec == ProbeInit /\ [][ProbeNext]_probeVars

-----------------------------------------------------------------------------

\* The types of the variables.
TypeOK ==
  /\ routing_table \in [Buckets -> Bucket(Contact)]
  /\ linked \in SUBSET Nodes
  /\ pings \in [Rids -> Ping]
  /\ todo \in Seq(Nodes \cup {Self})

\* However additions, probe answers and evictions interleave, every bucket
\* stays well formed, and holds only peers that fall into it: never the
\* local node, never a peer of another bucket.
TableOK ==
  \A i \in Buckets :
    /\ WellFormed(routing_table[i])
    /\ \A id \in BucketIds(routing_table[i]) : id \in Nodes /\ BucketOf[id] = i

\* The callback of a PING runs at most once although its PONG and its timer
\* race, the timer's handler being queued when the PONG arrives included.
CallbackAtMostOnce == \A r \in Rids : pings[r].calls <= 1

\* What makes CallbackAtMostOnce and StableContactsStay inductive: a pending
\* PING has a timer that is armed or queued, and its callback did not run; the
\* timer of a pending PING to a stable peer is not queued.
PingsOK ==
  \A r \in Rids :
    /\ pings[r].pending => pings[r].timer # "off" /\ pings[r].calls = 0
    /\ pings[r].calls <= 1
    /\ (pings[r].pending /\ pings[r].peer \in Stable)
         => pings[r].timer # "queued"

\* New peers never displace a contact that is reachable and answers: no
\* sequence of additions, probes and evictions takes a stable peer out of
\* the contacts of its bucket.
StableContactsStay ==
  [][\A n \in Stable : TableHas(routing_table, n) => TableHas(routing_table', n)]_probeVars

=============================================================================
