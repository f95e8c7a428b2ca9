----------------------------- MODULE RecordStore -----------------------------
(***************************************************************************)
(* The record store of a node (src/src/dht/record_store.cpp) under any     *)
(* sequence of calls, with the validation of a record                      *)
(* (src/src/dht/node_record.cpp) and the wall clock that the callers in    *)
(* src/src/node.cpp pass in.  One mutex makes every call atomic, except    *)
(* the calls that look a record up by its key first and scan the store     *)
(* afterwards; on the one thread of the node these are atomic too.         *)
(*                                                                         *)
(* A record is abstracted to its owner, its alias, its sequence number,    *)
(* its time window, and the first check other than the time window that it *)
(* fails ("None" for a good record).  A DHT key is a value, and NodeKey    *)
(* and AliasKey stand for node_record_key and alias_record_key.            *)
(***************************************************************************)
EXTENDS Integers

CONSTANTS
  Owners,      \* NodeIDs
  Aliases,     \* normalised aliases
  NoAlias,     \* the empty alias
  Keys,        \* DHT keys
  NodeKey,     \* the key of each owner
  AliasKey,    \* the key of each alias
  Records,     \* the records that may be put
  Skew,        \* SKEW_TOLERANCE
  MaxTime,     \* bound on the wall clock
  StepsBack    \* whether the wall clock may be set back

FormatErrors == {"InvalidSize", "EmptyAddresses", "InvalidAddress"}
CryptoErrors == {"IdentityMismatch", "InvalidSignature"}
Errors == FormatErrors \cup CryptoErrors
            \cup {"None", "NotYetValid", "Expired", "RollbackDetected"}

Record == [owner : Owners, alias : Aliases \cup {NoAlias}, seq : Nat,
           issued_at : Nat, expires_at : Nat,
           flaw : FormatErrors \cup CryptoErrors \cup {"None"}]

ASSUME RecordsAssumption == Records \subseteq Record
ASSUME KeysAssumption ==
  NodeKey \in [Owners -> Keys] /\ AliasKey \in [Aliases -> Keys]
ASSUME TimeAssumption == Skew \in Nat /\ MaxTime \in Nat /\ StepsBack \in BOOLEAN

NoRecord == [seq |-> -1]
NoSeq == -1

VARIABLES
  records,      \* records_: the record under each key, or NoRecord
  highest_seq,  \* highest_seq_: the highest number seen, or NoSeq
  now,          \* the wall clock
  result,       \* the record that the last call returned, or NoRecord
  served        \* history: the last number that get returned for each key

storeVars == <<records, highest_seq, now, result, served>>

\* Mutant: the end of the time window is not checked.
IsTimeValidNoEnd(r, t) == r.issued_at <= t + Skew

\* NodeRecord::is_time_valid.
IsTimeValid(r, t) == r.issued_at <= t + Skew /\ t <= r.expires_at

\* NodeRecord::validate: the first check that fails.
Validate(r, t) ==
  IF r.flaw \in FormatErrors THEN r.flaw
  ELSE IF t + Skew < r.issued_at THEN "NotYetValid"
  ELSE IF t > r.expires_at THEN "Expired"
  ELSE r.flaw

\* RecordStore::put: its result.
PutResult(k, r) ==
  IF Validate(r, now) # "None" THEN Validate(r, now)
  ELSE IF r.seq <= highest_seq[k] \/ r.seq <= records[k].seq
    THEN "RollbackDetected"
  ELSE "None"

Stored == {k \in Keys : records[k] # NoRecord}

\* The keys whose records every traversal of the store erases.
Stale == {k \in Stored : ~IsTimeValid(records[k], now)}

Erased(S) == [k \in Keys |-> IF k \in S THEN NoRecord ELSE records[k]]

-----------------------------------------------------------------------------

StoreInit ==
  /\ records = [k \in Keys |-> NoRecord]
  /\ highest_seq = [k \in Keys |-> NoSeq]
  /\ now = 0
  /\ result = NoRecord
  /\ served = [k \in Keys |-> NoSeq]

\* Mutant: the highest number is kept only for the first record of a key.
PutTracksFirst(k, r) ==
  /\ IF PutResult(k, r) = "None"
       THEN /\ records' = [records EXCEPT ![k] = r]
            /\ highest_seq' =
                 [highest_seq EXCEPT ![k] = IF @ = NoSeq THEN r.seq ELSE @]
       ELSE UNCHANGED <<records, highest_seq>>
  /\ result' = NoRecord
  /\ UNCHANGED <<now, served>>

\* RecordStore::put(key, record, now).
Put(k, r) ==
  /\ IF PutResult(k, r) = "None"
       THEN /\ records' = [records EXCEPT ![k] = r]
            /\ highest_seq' = [highest_seq EXCEPT ![k] = r.seq]
       ELSE UNCHANGED <<records, highest_seq>>
  /\ result' = NoRecord
  /\ UNCHANGED <<now, served>>

\* Mutant: the time window is not checked when a record is returned.
GetHitAnyTime(k) ==
  /\ k \in Stored
  /\ result' = records[k]
  /\ served' = [served EXCEPT ![k] = records[k].seq]
  /\ UNCHANGED <<records, highest_seq, now>>

\* RecordStore::get(key, now) that finds a record within its time window.
GetHit(k) ==
  /\ k \in Stored \ Stale
  /\ result' = records[k]
  /\ served' = [served EXCEPT ![k] = records[k].seq]
  /\ UNCHANGED <<records, highest_seq, now>>

\* RecordStore::get(key, now) that finds none, and erases what it found.
GetMiss(k) ==
  /\ k \notin Stored \ Stale
  /\ records' = Erased({k})
  /\ result' = NoRecord
  /\ UNCHANGED <<highest_seq, now, served>>

\* The traversal of get_by_node_id and get_by_alias, in the order of the hash
\* table, after a miss under the direct key k: it stops at the first record
\* that is valid and under one of the keys in matching, and has erased the
\* stale ones before it.
Scan(k, matching) ==
  \/ \E m \in matching \ Stale : \E S \in SUBSET Stale :
       /\ records' = Erased(S \cup {k})
       /\ result' = records[m]
  \/ /\ matching \subseteq Stale
     /\ records' = Erased(Stale \cup {k})
     /\ result' = NoRecord

\* RecordStore::get_by_node_id.
GetByNodeId(o) ==
  LET k == NodeKey[o]
  IN  \/ GetHit(k)
      \/ /\ k \notin Stored \ Stale
         /\ Scan(k, {m \in Stored : records[m].owner = o})
         /\ UNCHANGED <<highest_seq, now, served>>

\* RecordStore::get_by_alias, of an alias that is not empty.
GetByAlias(a) ==
  LET k == AliasKey[a]
  IN  \/ GetHit(k)
      \/ /\ k \notin Stored \ Stale
         /\ Scan(k, {m \in Stored : records[m].alias = a})
         /\ UNCHANGED <<highest_seq, now, served>>

\* Mutant: the purge also forgets the numbers of the keys that it erases.
PurgeForgetsNumbers ==
  /\ records' = Erased(Stale)
  /\ highest_seq' = [k \in Keys |-> IF k \in Stale THEN NoSeq ELSE highest_seq[k]]
  /\ result' = NoRecord
  /\ UNCHANGED <<now, served>>

\* RecordStore::purge_expired, which Node::schedule_purge calls every 15 s.
PurgeExpired ==
  /\ records' = Erased(Stale)
  /\ result' = NoRecord
  /\ UNCHANGED <<highest_seq, now, served>>

\* RecordStore::clear.
Clear ==
  /\ records' = [k \in Keys |-> NoRecord]
  /\ highest_seq' = [k \in Keys |-> NoSeq]
  /\ result' = NoRecord
  /\ served' = [k \in Keys |-> NoSeq]
  /\ UNCHANGED now

\* The wall clock advances, or is set back.
Tick ==
  /\ now' \in 0..MaxTime
  /\ now' > now \/ (StepsBack /\ now' < now)
  /\ result' = NoRecord
  /\ UNCHANGED <<records, highest_seq, served>>

StoreNext ==
  \/ \E k \in Keys, r \in Records : Put(k, r)
  \/ \E k \in Keys : GetHit(k) \/ GetMiss(k)
  \/ \E o \in Owners : GetByNodeId(o)
  \/ \E a \in Aliases : GetByAlias(a)
  \/ PurgeExpired
  \/ Clear
  \/ Tick

StoreSpec == StoreInit /\ [][StoreNext]_storeVars

\* Node::schedule_purge runs the purge again and again.
StoreFairSpec == StoreSpec /\ WF_storeVars(PurgeExpired)

-----------------------------------------------------------------------------

\* The types of the variables.
TypeOK ==
  /\ records \in [Keys -> Records \cup {NoRecord}]
  /\ highest_seq \in [Keys -> Nat \cup {NoSeq}]
  /\ now \in 0..MaxTime
  /\ result \in Records \cup {NoRecord}
  /\ served \in [Keys -> Nat \cup {NoSeq}]

\* The number of a stored record is the highest one seen for its key, so the
\* second rollback check of put never decides.
TrackerMatches == \A k \in Stored : records[k].seq = highest_seq[k]

\* A record in the store passed every check that does not depend on time.
StoredIsSound == \A k \in Stored : records[k].flaw = "None"

\* What get returned for a key is never newer than the tracker, also after the
\* record was purged.
ServedTracked == \A k \in Keys : served[k] <= highest_seq[k]

\* Unless the store is cleared, a reader of a key never sees the number go
\* back: not after a purge, an expiry, a lookup that erased the record, or a
\* step of the clock.
ServedNeverRollsBack ==
  [][Clear \/ \A k \in Keys : served'[k] >= served[k]]_storeVars

\* Whatever call returns a record, and after whatever sequence of puts and
\* clock steps: the record passed all the checks of validate when it was put,
\* and is within its time window when it is returned.
ServedIsValid ==
  [][result' # NoRecord => Validate(result', now) = "None"]_storeVars

\* A record that has expired does not stay in the store: a lookup, a newer
\* record or the periodic purge takes it out, unless the clock goes back.
ExpiredIsPurged ==
  \A k \in Keys :
    (k \in Stored /\ now > records[k].expires_at)
      ~> (k \notin Stored \/ now <= records[k].expires_at)

=============================================================================
