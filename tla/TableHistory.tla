---------------------------- MODULE TableHistory ----------------------------
(***************************************************************************)
(* Arbitrary sequences of calls on a RoutingTable                          *)
(* (src/src/dht/routing_table.cpp, k_bucket.cpp), with the ids of NodeId.  *)
(* The mutex of the table serialises the calls, so each one is an atomic   *)
(* action.  Every call that reads the steady clock sees a later time than  *)
(* the one before it.                                                      *)
(*                                                                         *)
(* Two history variables record what the class itself forgets: the address *)
(* each peer was last reported with, and which contacts came out of a      *)
(* replacement cache and were not seen since.                              *)
(***************************************************************************)
EXTENDS RoutingTable, NodeId, Functions, FiniteSets

CONSTANTS
  Addrs,      \* the addresses a peer may be reported with
  MaxTime     \* bound on the number of calls

NoAddr == "no address"

ASSUME TableAssumption ==
  /\ Self \in NodeID /\ Nodes \subseteq NodeID
  /\ Buckets = 0..(Bits - 1)
  /\ BucketOf = [n \in Nodes |-> BucketIndex(Self, n)]
  /\ NoAddr \notin Addrs
  /\ MaxTime \in Nat

\* The ids that the calls are made with.
Peers == Nodes \cup {Self}

VARIABLES
  table,      \* buckets_
  now,        \* the steady clock
  lastAddr,   \* history: the address of the last add_or_update of each peer
  promoted    \* history: contacts promoted from the cache and not seen since

vars == <<table, now, lastAddr, promoted>>

Contacts == UNION {Range(table[i].contacts) : i \in Buckets}
Entries == Contacts \cup UNION {Range(table[i].replacements) : i \in Buckets}

Closer(target, a, b) == Less(XorDistance(a.id, target), XorDistance(b.id, target))

\* How many contacts std::sort puts before c.
Rank(target, c) == Cardinality({d \in Contacts : Closer(target, d, c)})

\* RoutingTable::find_closest.
FindClosest(target, count) ==
  LET size == Cardinality(Contacts)
  IN  [i \in 1..(IF size > count THEN count ELSE size) |->
         CHOOSE c \in Contacts : Rank(target, c) = i - 1]

-----------------------------------------------------------------------------

Init ==
  /\ table = EmptyTable
  /\ now = 0
  /\ lastAddr = [n \in Peers |-> NoAddr]
  /\ promoted = {}

Tick == now < MaxTime /\ now' = now + 1

\* RoutingTable::add_or_update(peer).
DoAddOrUpdate(n, a) ==
  /\ Tick
  /\ table' = TableAddOrUpdate(table, [id |-> n, addr |-> a, seen |-> now'])
  /\ lastAddr' = [lastAddr EXCEPT ![n] = a]
  /\ promoted' = promoted \ {n}

\* RoutingTable::remove(id).
DoRemove(n) ==
  /\ Tick
  /\ table' = TableRemoved(table, n)
  /\ promoted' = (promoted \ {n}) \cup
       {m \in Peers : TableHas(table', m) /\ ~TableHas(table, m)}
  /\ UNCHANGED lastAddr

\* RoutingTable::touch(id).
DoTouch(n) ==
  /\ Tick
  /\ table' = TableTouched(table, n, now')
  /\ promoted' = promoted \ {n}
  /\ UNCHANGED lastAddr

Next ==
  \E n \in Peers : (\E a \in Addrs : DoAddOrUpdate(n, a)) \/ DoRemove(n) \/ DoTouch(n)

Spec == Init /\ [][Next]_vars

-----------------------------------------------------------------------------

\* Whatever path an entry took (refreshed in place in the cache, promoted by
\* remove, moved to the back by touch), its address is the one that the last
\* add_or_update of the peer reported.
AddressFresh == \A e \in Entries : e.addr = lastAddr[e.id]

\* "ordered by last-seen time (LRU)" (src/src/dht/k_bucket.hpp:25), except for
\* promoted candidates, which remove puts last with an old time: a contact that
\* stands behind one that was seen later came out of the replacement cache and
\* was not seen since.
OnlyPromotedOutOfOrder ==
  \A b \in Buckets : \A i, j \in 1..Len(table[b].contacts) :
    (i < j /\ table[b].contacts[i].seen > table[b].contacts[j].seen)
      => table[b].contacts[j].id \in promoted

\* What a lookup relies on: if the bucket of a target has a contact, the first
\* node that find_closest gives is closer to the target than the local node,
\* and it is in that bucket.
NextHopIsCloser ==
  \A target \in NodeID \ {Self} :
    table[BucketIndex(Self, target)].contacts # <<>> =>
      LET hop == FindClosest(target, 1)[1].id
      IN  /\ Less(XorDistance(hop, target), XorDistance(Self, target))
          /\ BucketIndex(Self, hop) = BucketIndex(Self, target)

=============================================================================
