---------------------------- MODULE RoutingTable ----------------------------
(***************************************************************************)
(* The Kademlia routing table (src/src/dht/routing_table.cpp): one bucket  *)
(* for each index, every call under one mutex, so each call is one atomic  *)
(* operator on the table.                                                  *)
(*                                                                         *)
(* NodeID::bucket_index (src/src/common/types.hpp) is the constant         *)
(* BucketOf, defined for every id but the local one, for which the code    *)
(* returns -1 and every operation does nothing.                            *)
(***************************************************************************)
EXTENDS KBucket

CONSTANTS
  Nodes,      \* the NodeIDs of the other nodes
  Self,       \* local_id_
  Buckets,    \* the bucket indices
  BucketOf    \* the index of each NodeID but the local one

ASSUME SelfAssumption == Self \notin Nodes
ASSUME BucketOfAssumption == BucketOf \in [Nodes -> Buckets]

\* RoutingTable::RoutingTable.
EmptyTable == [i \in Buckets |-> EmptyBucket]

\* RoutingTable::add_or_update: the new table.
TableAddOrUpdate(table, c) ==
  IF c.id = Self THEN table
  ELSE [table EXCEPT ![BucketOf[c.id]] = AddOrUpdate(@, c)]

\* RoutingTable::add_or_update: its result.
TableIsAdded(table, id) == id # Self /\ IsAdded(table[BucketOf[id]], id)

\* RoutingTable::remove.
TableRemoved(table, id) ==
  IF id = Self THEN table
  ELSE [table EXCEPT ![BucketOf[id]] = Removed(@, id)]

\* RoutingTable::touch.
TableTouched(table, id, now) ==
  IF id = Self THEN table
  ELSE [table EXCEPT ![BucketOf[id]] = Touched(@, id, now)]

\* RoutingTable::least_recently_seen_in_bucket, of a bucket with a contact.
TableLeastRecentlySeen(table, id) == LeastRecentlySeen(table[BucketOf[id]])

\* Whether RoutingTable::find returns a contact.
TableHas(table, id) == id # Self /\ IsContact(table[BucketOf[id]], id)

=============================================================================
