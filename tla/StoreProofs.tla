----------------------------- MODULE StoreProofs ----------------------------
(***************************************************************************)
(* Proofs about records: the store of a node, and their publication.       *)
(*                                                                         *)
(* RecordStore, for any keys, records and clock.  The properties a reader  *)
(* sees (ServedNeverRollsBack, ServedIsValid) follow from an invariant     *)
(* that ties each stored record to the tracker, and what was served to the *)
(* tracker.                                                                *)
(*                                                                         *)
(* Publish, for any number of nodes and any width of the counters.  The    *)
(* invariant ties the counters of a phase to its sets of keepers as long   *)
(* as no answer met a queued timer, and rounds and results to the reports  *)
(* of the phases they come from.                                           *)
(***************************************************************************)
EXTENDS RecordStore, Publish, FiniteSetTheorems, TLAPS

\* The backends, in the order in which a leaf is given to them.
USE ZenonT(2), SMTT(10), ZenonT(20), SMTT(40)

-----------------------------------------------------------------------------
\* RecordStore

\* The inductive invariant.
StoreInv == TypeOK /\ TrackerMatches /\ ServedTracked /\ StoredIsSound

\* The sentinel is not a record, and a record has a natural number.
LEMMA RecordFacts ==
  /\ NoRecord \notin Records
  /\ \A r \in Records : r.seq \in Nat /\ r.issued_at \in Nat /\ r.expires_at \in Nat
<1>1. \A r \in Records : r.seq \in Nat /\ r.issued_at \in Nat /\ r.expires_at \in Nat
  BY RecordsAssumption DEF Record
<1>2. NoRecord.seq \notin Nat
  BY DEF NoRecord
<1> QED
  BY <1>1, <1>2

\* Erasing records keeps what the invariant says of the others.
LEMMA ErasedKeeps ==
  ASSUME StoreInv, NEW S, records' = Erased(S),
         highest_seq' = highest_seq, served' = served,
         now' = now, result' \in Records \cup {NoRecord}
  PROVE  StoreInv'
<1>1. records' \in [Keys -> Records \cup {NoRecord}]
  BY DEF StoreInv, TypeOK, Erased
<1>2. \A k \in Keys : records'[k] # NoRecord => records'[k] = records[k]
  BY DEF Erased
<1>3. TypeOK'
  BY <1>1 DEF StoreInv, TypeOK
<1>4. TrackerMatches'
  BY <1>2 DEF StoreInv, TrackerMatches, Stored
<1>5. ServedTracked'
  BY DEF StoreInv, ServedTracked
<1>6. StoredIsSound'
  BY <1>2 DEF StoreInv, StoredIsSound, Stored
<1> QED
  BY <1>3, <1>4, <1>5, <1>6 DEF StoreInv

\* A record found within its time window passes validate.
LEMMA FoundIsValid ==
  ASSUME StoreInv, NEW k \in Stored \ Stale
  PROVE  /\ records[k] \in Records /\ k \in Keys
         /\ Validate(records[k], now) = "None"
<1>1. k \in Keys /\ records[k] # NoRecord /\ IsTimeValid(records[k], now)
  BY DEF Stored, Stale
<1>2. records[k] \in Records /\ now \in Nat /\ records[k].flaw = "None"
  BY SMTT(30), <1>1, TimeAssumption DEF StoreInv, TypeOK, StoredIsSound, Stored
<1>3. records[k].issued_at \in Nat /\ records[k].expires_at \in Nat
  BY <1>2, RecordFacts
<1>4. "None" \notin FormatErrors
  BY DEF FormatErrors
<1> QED
  BY <1>1, <1>2, <1>3, <1>4, TimeAssumption DEF Validate, IsTimeValid

\* What a step establishes beside the invariant.
StepOK ==
  /\ StoreInv'
  /\ Clear \/ \A k \in Keys : served'[k] >= served[k]
  /\ result' # NoRecord => Validate(result', now) = "None"

\* A call that leaves served alone does not roll back.
LEMMA ServedSame ==
  ASSUME StoreInv, served' = served
  PROVE  \A k \in Keys : served'[k] >= served[k]
BY DEF StoreInv, TypeOK, NoSeq

\* put replaces a record only by one with a greater number, and checks it first.
LEMMA PutStep ==
  ASSUME StoreInv, NEW k \in Keys, NEW r \in Records, Put(k, r)
  PROVE  StepOK
<1>0. /\ result' = NoRecord /\ now' = now /\ served' = served
  BY DEF Put
<1>1. CASE PutResult(k, r) = "None"
  <2>1. /\ records' = [records EXCEPT ![k] = r]
        /\ highest_seq' = [highest_seq EXCEPT ![k] = r.seq]
    BY <1>1 DEF Put
  <2>2. Validate(r, now) = "None" /\ ~(r.seq <= highest_seq[k])
    BY <1>1 DEF PutResult
  <2>3. r.flaw = "None"
    <3>1. "None" \notin FormatErrors
      BY DEF FormatErrors
    <3> QED
      BY <2>2, <3>1 DEF Validate
  <2>4. r.seq \in Nat
    BY RecordFacts
  <2>5. TypeOK'
    BY <1>0, <2>1, <2>4 DEF StoreInv, TypeOK
  <2>6. \A j \in Keys : /\ j = k => records'[j] = r /\ highest_seq'[j] = r.seq
                        /\ j # k => /\ records'[j] = records[j]
                                    /\ highest_seq'[j] = highest_seq[j]
    BY <2>1 DEF StoreInv, TypeOK
  <2>7. TrackerMatches'
    BY <2>6 DEF StoreInv, TrackerMatches, Stored
  <2>8. StoredIsSound'
    BY <2>3, <2>6 DEF StoreInv, StoredIsSound, Stored
  <2>9. ServedTracked'
    BY SMTT(30), <1>0, <2>2, <2>4, <2>6 DEF StoreInv, TypeOK, ServedTracked, NoSeq
  <2> QED
    BY <1>0, <2>5, <2>7, <2>8, <2>9, ServedSame DEF StepOK, StoreInv
<1>2. CASE PutResult(k, r) # "None"
  <2>1. records' = records /\ highest_seq' = highest_seq
    BY <1>2 DEF Put
  <2>2. StoreInv'
    BY <1>0, <2>1
    DEF StoreInv, TypeOK, TrackerMatches, ServedTracked, StoredIsSound, Stored
  <2> QED
    BY <1>0, <2>2, ServedSame DEF StepOK
<1> QED
  BY <1>1, <1>2

\* get returns a stored record whose time window is open.
LEMMA GetHitStep ==
  ASSUME StoreInv, NEW k \in Keys, GetHit(k)
  PROVE  StepOK
<1>0. /\ k \in Stored \ Stale
      /\ result' = records[k]
      /\ served' = [served EXCEPT ![k] = records[k].seq]
      /\ records' = records /\ highest_seq' = highest_seq /\ now' = now
  BY DEF GetHit
<1>1. records[k] \in Records /\ Validate(records[k], now) = "None"
  BY <1>0, FoundIsValid
<1>2. records[k].seq = highest_seq[k] /\ records[k].seq \in Nat
  BY <1>0, <1>1, RecordFacts DEF StoreInv, TrackerMatches
<1>3. \A j \in Keys : /\ j = k => served'[j] = highest_seq[k]
                      /\ j # k => served'[j] = served[j]
  BY <1>0, <1>2 DEF StoreInv, TypeOK
<1>4. TypeOK'
  BY <1>0, <1>1, <1>2 DEF StoreInv, TypeOK
<1>5. ServedTracked'
  BY SMTT(30), <1>0, <1>2, <1>3 DEF StoreInv, TypeOK, ServedTracked
<1>6. TrackerMatches' /\ StoredIsSound'
  BY <1>0 DEF StoreInv, TrackerMatches, StoredIsSound, Stored
<1>7. \A j \in Keys : served'[j] >= served[j]
  BY SMTT(30), <1>2, <1>3 DEF StoreInv, TypeOK, ServedTracked, NoSeq
<1> QED
  BY <1>0, <1>1, <1>4, <1>5, <1>6, <1>7 DEF StepOK, StoreInv

\* A call that erases records and returns none.
LEMMA EraseStep ==
  ASSUME StoreInv, NEW S, records' = Erased(S), result' = NoRecord,
         highest_seq' = highest_seq, served' = served, now' = now
  PROVE  StepOK
BY ErasedKeeps, ServedSame DEF StepOK

\* A call that scans the store after a miss.
LEMMA ScanStep ==
  ASSUME StoreInv, NEW k \in Keys,
         \/ \E m \in Stored \ Stale : \E S \in SUBSET Stale :
              /\ records' = Erased(S \cup {k})
              /\ result' = records[m]
         \/ /\ records' = Erased(Stale \cup {k})
            /\ result' = NoRecord,
         highest_seq' = highest_seq, served' = served, now' = now
  PROVE  StepOK
<1>1. CASE \E m \in Stored \ Stale : \E S \in SUBSET Stale :
             /\ records' = Erased(S \cup {k})
             /\ result' = records[m]
  <2>1. PICK m \in Stored \ Stale, S \in SUBSET Stale :
          records' = Erased(S \cup {k}) /\ result' = records[m]
    BY <1>1
  <2>2. result' \in Records /\ Validate(result', now) = "None"
    BY <2>1, FoundIsValid
  <2>3. StoreInv'
    BY <2>1, <2>2, ErasedKeeps
  <2> QED
    BY <2>2, <2>3, ServedSame DEF StepOK
<1>2. CASE records' = Erased(Stale \cup {k}) /\ result' = NoRecord
  BY <1>2, EraseStep
<1> QED
  BY <1>1, <1>2

\* The calls of get_by_node_id: a hit under the direct key, or a scan.
LEMMA GetByNodeIdStep ==
  ASSUME StoreInv, NEW o \in Owners, GetByNodeId(o)
  PROVE  StepOK
<1>1. NodeKey[o] \in Keys
  BY KeysAssumption
<1>2. CASE GetHit(NodeKey[o])
  BY <1>1, <1>2, GetHitStep
<1>3. CASE ~GetHit(NodeKey[o])
  BY <1>1, <1>3, ScanStep DEF GetByNodeId, Scan
<1> QED
  BY <1>2, <1>3

\* The calls of get_by_alias: a hit under the direct key, or a scan.
LEMMA GetByAliasStep ==
  ASSUME StoreInv, NEW x \in Aliases, GetByAlias(x)
  PROVE  StepOK
<1>1. AliasKey[x] \in Keys
  BY KeysAssumption
<1>2. CASE GetHit(AliasKey[x])
  BY <1>1, <1>2, GetHitStep
<1>3. CASE ~GetHit(AliasKey[x])
  BY <1>1, <1>3, ScanStep DEF GetByAlias, Scan
<1> QED
  BY <1>2, <1>3

\* clear forgets records and numbers, and with them what was served.
LEMMA ClearStep ==
  ASSUME StoreInv, Clear
  PROVE  StepOK
<1>1. StoreInv'
  BY SMTT(30) DEF Clear, StoreInv, TypeOK, TrackerMatches, ServedTracked, StoredIsSound,
         Stored, NoSeq
<1> QED
  BY <1>1 DEF StepOK, Clear

\* The clock moves, forward or backward.
LEMMA TickStep ==
  ASSUME StoreInv, Tick
  PROVE  StepOK
<1>1. /\ records' = records /\ highest_seq' = highest_seq /\ served' = served
      /\ result' = NoRecord /\ now' \in 0..MaxTime
  BY DEF Tick
<1>2. StoreInv'
  BY <1>1
  DEF StoreInv, TypeOK, TrackerMatches, ServedTracked, StoredIsSound, Stored
<1> QED
  BY <1>1, <1>2, ServedSame DEF StepOK

\* Every step keeps the invariant, and does what the properties say.
LEMMA NextStep ==
  ASSUME StoreInv, StoreNext
  PROVE  StepOK
<1>1. ASSUME NEW k \in Keys, NEW r \in Records, Put(k, r)
      PROVE  StepOK
  BY <1>1, PutStep
<1>2. ASSUME NEW k \in Keys, GetHit(k)
      PROVE  StepOK
  BY <1>2, GetHitStep
<1>3. ASSUME NEW k \in Keys, GetMiss(k)
      PROVE  StepOK
  BY <1>3, EraseStep DEF GetMiss
<1>4. ASSUME NEW o \in Owners, GetByNodeId(o)
      PROVE  StepOK
  BY <1>4, GetByNodeIdStep
<1>5. ASSUME NEW x \in Aliases, GetByAlias(x)
      PROVE  StepOK
  BY <1>5, GetByAliasStep
<1>6. CASE PurgeExpired
  BY <1>6, EraseStep DEF PurgeExpired
<1>7. CASE Clear
  BY <1>7, ClearStep
<1>8. CASE Tick
  BY <1>8, TickStep
<1> QED
  BY <1>1, <1>2, <1>3, <1>4, <1>5, <1>6, <1>7, <1>8 DEF StoreNext

-----------------------------------------------------------------------------

\* StoreInv is an inductive invariant of the store.
THEOREM StoreInvariant == StoreSpec => []StoreInv
<1>1. StoreInit => StoreInv
  BY TimeAssumption
  DEF StoreInit, StoreInv, TypeOK, TrackerMatches, ServedTracked, StoredIsSound, Stored,
      NoSeq
<1>2. StoreInv /\ [StoreNext]_storeVars => StoreInv'
  <2>1. CASE StoreNext
    BY <2>1, NextStep DEF StepOK
  <2>2. CASE UNCHANGED storeVars
    BY <2>2 DEF storeVars, StoreInv, TypeOK, TrackerMatches, ServedTracked,
                StoredIsSound, Stored
  <2> QED
    BY <2>1, <2>2
<1> QED
  BY <1>1, <1>2, PTL DEF StoreSpec

\* The number of a stored record is the highest seen for its key.
THEOREM TrackerCorrect == StoreSpec => [](TypeOK /\ TrackerMatches)
<1>1. StoreInv => TypeOK /\ TrackerMatches
  BY DEF StoreInv
<1> QED
  BY <1>1, StoreInvariant, PTL

\* A reader of a key never sees the sequence number go back.
THEOREM NoRollback == StoreSpec => ServedNeverRollsBack
<1>1. StoreInv /\ [StoreNext]_storeVars
        => [Clear \/ \A k \in Keys : served'[k] >= served[k]]_storeVars
  BY NextStep DEF StepOK
<1> QED
  BY <1>1, StoreInvariant, PTL DEF StoreSpec, ServedNeverRollsBack

\* Every record that a call returns passes validate at that moment.
THEOREM OnlyValidServed == StoreSpec => ServedIsValid
<1>1. StoreInv /\ [StoreNext]_storeVars
        => [result' # NoRecord => Validate(result', now) = "None"]_storeVars
  BY NextStep DEF StepOK
<1> QED
  BY <1>1, StoreInvariant, PTL DEF StoreSpec, ServedIsValid

-----------------------------------------------------------------------------
\* Publish

(* A phase, with what its callback was given.                                *)
PhaseRecords ==
  [lookup : Nat, keepers : SUBSET Nodes, loop : SUBSET Nodes,
   pending : SUBSET Nodes, timer : [Nodes -> {"off", "armed", "queued"}],
   acks : Nat, remaining : Nat, finished : BOOLEAN,
   confirmed : SUBSET Nodes, reports : Seq([ok : BOOLEAN, acks : Nat]),
   raced : BOOLEAN]

(* A call of publish_record.                                                 *)
LookupRecords == [key : {"node", "alias"}, from : Nat, calls : Nat]

(* What publish_self_record calls back with.                                 *)
Outcomes == [ok : BOOLEAN, acks : Nat, by : Nat]

(* The types of the variables.                                               *)
PublishTypeOK ==
  /\ alias \in BOOLEAN
  /\ phases \in Seq(PhaseRecords)
  /\ lookups \in Seq(LookupRecords)
  /\ outcome \in Seq(Outcomes)

(* The keepers of a phase that still have to be asked or to answer.          *)
Left(r) == r.loop \cup r.pending

(* What every phase keeps, raced or not.                                     *)
Sound(r) ==
  /\ r.loop \subseteq r.keepers
  /\ r.pending \subseteq r.keepers
  /\ r.loop \cap r.pending = {}
  /\ \A n \in Nodes : r.timer[n] # "off" => n \in r.keepers
  /\ r.confirmed \subseteq r.keepers
  /\ r.confirmed \cap Left(r) = {}
  /\ r.acks = 1 + Cardinality(r.confirmed)

(* As long as no answer met a queued timer, the timers that run are those of *)
(* the requests that are pending, and remaining counts the keepers left.     *)
Counts(r) ==
  ~r.raced => /\ \A n \in Nodes : n \in r.pending <=> r.timer[n] # "off"
              /\ r.remaining = Cardinality(Left(r))

(* The callback ran at most once, with no more acks than there are, and with *)
(* success only at the quorum; without a race it ran when no keeper was left *)
(* and its verdict is that of the acks.                                      *)
Reported(r) ==
  /\ Len(r.reports) <= 1
  /\ r.reports # <<>> <=> (r.finished \/ r.keepers = {})
  /\ r.reports # <<>> =>
       /\ r.reports[1].acks <= r.acks
       /\ r.reports[1].ok => r.reports[1].acks >= RequiredQuorum(r.keepers)
  /\ ~r.raced => (r.reports # <<>> <=> Left(r) = {})
  /\ (~r.raced /\ r.reports # <<>>) =>
       (r.reports[1].ok <=> r.acks >= RequiredQuorum(r.keepers))

(* What the invariant says of a single phase.                                *)
PhaseOK(r) == Sound(r) /\ Counts(r) /\ Reported(r)

(* Phase p reported success.                                                 *)
Good(ph, p) == p \in 1..Len(ph) /\ ph[p].reports # <<>> /\ ph[p].reports[1].ok

(* Every phase belongs to a lookup; a round of the alias comes from a phase  *)
(* that succeeded; and a successful result comes from such phases, with no   *)
(* more acks than any of them reported.                                      *)
Linked(ph, lk, oc) ==
  /\ \A p \in 1..Len(ph) : ph[p].lookup \in 1..Len(lk)
  /\ \A l \in 1..Len(lk) :
       IF lk[l].key = "alias" THEN Good(ph, lk[l].from) ELSE lk[l].from = 0
  /\ \A i \in 1..Len(oc) : oc[i].ok =>
       /\ Good(ph, oc[i].by)
       /\ oc[i].acks <= ph[oc[i].by].reports[1].acks
       /\ LET f == lk[ph[oc[i].by].lookup].from
          IN  f # 0 => oc[i].acks <= ph[f].reports[1].acks

(* No lookup called back twice.                                              *)
Once(lk) == \A l \in 1..Len(lk) : lk[l].calls <= 1

(* If no lookup called back twice there is one phase for each lookup, at     *)
(* most one round of the alias, which follows the report of the first round, *)
(* and at most one result, after which nothing is left to report.            *)
Single(ph, lk, oc) ==
  /\ \A p \in 1..Len(ph) : lk[ph[p].lookup].calls > 0
  /\ Once(lk) =>
       /\ Len(lk) <= 2 /\ Len(oc) <= 1
       /\ \A l \in 1..Len(lk) : lk[l].key = "node" <=> l = 1
       /\ \A p, q \in 1..Len(ph) : ph[p].lookup = ph[q].lookup => p = q
       /\ oc # <<>> => /\ \A l \in 1..Len(lk) : lk[l].calls = 1
                       /\ \A p \in 1..Len(ph) : ph[p].reports # <<>>
       /\ Len(lk) = 2 =>
            /\ lk[1].calls = 1
            /\ \A p \in 1..Len(ph) :
                 ph[p].lookup = 1 => ph[p].reports # <<>>

(* The inductive invariant.                                                  *)
PublishInv ==
  /\ \A p \in 1..Len(phases) : PhaseOK(phases[p])
  /\ Linked(phases, lookups, outcome)
  /\ Single(phases, lookups, outcome)

-----------------------------------------------------------------------------

(* The decrement of remaining, a size_t, when it is not 0.                   *)
LEMMA CountDown ==
  ASSUME NEW S \in Nat, NEW r \in Nat, 0 < r, r < S
  PROVE  (r + S - 1) % S = r - 1
<1>1. (r - 1) \in 0..(S-1)
  OBVIOUS
<1>2. r + S - 1 = S * 1 + (r - 1)
  OBVIOUS
<1> QED BY <1>1, <1>2

(* A sequence with one of its elements replaced.                             *)
LEMMA Replaced ==
  ASSUME NEW R, NEW t \in Seq(R), NEW i \in 1..Len(t), NEW x \in R,
         NEW u, u = [t EXCEPT ![i] = x]
  PROVE  /\ u \in Seq(R)
         /\ Len(u) = Len(t)
         /\ u[i] = x
         /\ \A j \in 1..Len(t) : j # i => u[j] = t[j]
OBVIOUS

(* The nodes are finitely many, and so are the keepers of a phase.           *)
LEMMA FewNodes ==
  ASSUME NEW S \in SUBSET Nodes
  PROVE  /\ IsFiniteSet(S)
         /\ Cardinality(S) \in 0..N
         /\ Cardinality(S) = 0 <=> S = {}
<1>1. IsFiniteSet(Nodes) /\ Cardinality(Nodes) = N
  BY FS_Interval, PublishAssumption DEF Nodes
<1>2. IsFiniteSet(S) /\ Cardinality(S) <= N
  BY <1>1, FS_Subset
<1>3. Cardinality(S) \in Nat /\ (Cardinality(S) = 0 <=> S = {})
  BY <1>2, FS_CardinalityType, FS_EmptySet
<1> QED
  BY <1>2, <1>3, PublishAssumption

(* The quorum is a number.                                                   *)
LEMMA QuorumType ==
  ASSUME NEW S \in SUBSET Nodes
  PROVE  /\ RequiredQuorum(S) \in Nat
         /\ S = {} => RequiredQuorum(S) = 1
BY SMTT(30), FewNodes, PublishAssumption DEF RequiredQuorum, Least

(* A phase that one keeper was taken off, before remaining is counted down.  *)
Open(r) ==
  /\ Sound(r)
  /\ r.keepers # {}
  /\ Len(r.reports) <= 1
  /\ r.reports # <<>> <=> r.finished
  /\ r.reports # <<>> =>
       /\ r.reports[1].acks <= r.acks
       /\ r.reports[1].ok => r.reports[1].acks >= RequiredQuorum(r.keepers)
  /\ ~r.raced => /\ \A n \in Nodes : n \in r.pending <=> r.timer[n] # "off"
                 /\ r.remaining = Cardinality(Left(r)) + 1
                 /\ r.reports = <<>>

(* The new value of remaining: in a phase that did not race it is the number *)
(* of keepers that are left, so it does not wrap.                            *)
LEMMA LeftOver ==
  ASSUME NEW r \in PhaseRecords, Open(r)
  PROVE  /\ (r.remaining + SizeRange - 1) % SizeRange \in Nat
         /\ ~r.raced =>
              (r.remaining + SizeRange - 1) % SizeRange = Cardinality(Left(r))
<1>1. /\ r.loop \in SUBSET Nodes /\ r.pending \in SUBSET Nodes
      /\ r.keepers \in SUBSET Nodes /\ r.remaining \in Nat
  BY DEF PhaseRecords
<1>2. PICK k \in Nodes : k \in r.keepers
  BY <1>1 DEF Open
<1>3. N >= 1 /\ SizeRange \in Nat /\ SizeRange > N + 1
  BY <1>2, PublishAssumption DEF Nodes
<1>4. (r.remaining + SizeRange - 1) % SizeRange \in Nat
  BY <1>1, <1>3, PublishAssumption
<1>5. ASSUME ~r.raced
      PROVE  (r.remaining + SizeRange - 1) % SizeRange = Cardinality(Left(r))
  <2>1. Cardinality(Left(r)) \in 0..N
    BY <1>1, FewNodes DEF Left
  <2>2. r.remaining = Cardinality(Left(r)) + 1
    BY <1>5 DEF Open
  <2>3. 0 < r.remaining /\ r.remaining < SizeRange
    BY <2>1, <2>2, <1>3, PublishAssumption
  <2>4. (r.remaining + SizeRange - 1) % SizeRange = r.remaining - 1
    BY <2>3, <1>1, <1>3, CountDown
  <2> QED BY <2>1, <2>2, <2>4
<1> QED BY <1>4, <1>5

(* A sequence of one element.                                                *)
LEMMA OneReport ==
  ASSUME NEW x, NEW t, t = <<x>>
  PROVE  Len(t) = 1 /\ t # <<>> /\ t[1] = x
OBVIOUS

(* remaining and finished after the decrement, and the report of a phase.    *)
Down(r, left, ends) == [r EXCEPT !.remaining = left, !.finished = @ \/ ends]

Told(r, ok) == [r EXCEPT !.reports = Append(@, [ok |-> ok, acks |-> r.acks])]

(* The end of a handler, for the phase it belongs to: remaining is counted   *)
(* down and, at 0, the callback runs unless it already did.                  *)
LEMMA CountedDown ==
  ASSUME NEW r \in PhaseRecords, Open(r),
         NEW left \in Nat, ~r.raced => left = Cardinality(Left(r)),
         NEW ends \in BOOLEAN, ends <=> left = 0 /\ ~r.finished,
         NEW d, d = Down(r, left, ends),
         NEW ok \in BOOLEAN, ok <=> r.acks >= RequiredQuorum(r.keepers),
         NEW e, e = Told(d, ok)
  PROVE  /\ d \in PhaseRecords
         /\ d.reports = r.reports /\ d.lookup = r.lookup /\ d.acks = r.acks
         /\ ~ends => PhaseOK(d)
         /\ ends => PhaseOK(e) /\ d.reports = <<>>
<1>1. /\ r.loop \in SUBSET Nodes /\ r.pending \in SUBSET Nodes
      /\ r.keepers \in SUBSET Nodes /\ r.remaining \in Nat
      /\ r.finished \in BOOLEAN /\ r.raced \in BOOLEAN /\ r.acks \in Nat
      /\ r.reports \in Seq([ok : BOOLEAN, acks : Nat])
  BY DEF PhaseRecords
<1>3. d \in PhaseRecords
  BY <1>1 DEF PhaseRecords, Down
<1>4. /\ d.lookup = r.lookup /\ d.keepers = r.keepers /\ d.loop = r.loop
      /\ d.pending = r.pending /\ d.timer = r.timer /\ d.acks = r.acks
      /\ d.confirmed = r.confirmed /\ d.reports = r.reports
      /\ d.remaining = left
      /\ d.finished <=> (r.finished \/ ends)
      /\ d.raced <=> r.raced
  BY <1>1 DEF PhaseRecords, Down
<1>5. /\ e.lookup = r.lookup /\ e.keepers = r.keepers /\ e.loop = r.loop
      /\ e.pending = r.pending /\ e.timer = r.timer /\ e.acks = r.acks
      /\ e.confirmed = r.confirmed
      /\ e.reports = Append(r.reports, [ok |-> ok, acks |-> r.acks])
      /\ e.remaining = left
      /\ e.finished <=> (r.finished \/ ends)
      /\ e.raced <=> r.raced
  BY <1>3, <1>4 DEF PhaseRecords, Told
<1>6. Left(d) = Left(r) /\ Left(e) = Left(r) /\ Left(r) \in SUBSET Nodes
  BY <1>1, <1>4, <1>5 DEF Left
<1>7. /\ Cardinality(Left(r)) \in 0..N
      /\ Cardinality(Left(r)) = 0 <=> Left(r) = {}
      /\ RequiredQuorum(r.keepers) \in Nat
  BY <1>1, <1>6, FewNodes, QuorumType
<1>8. Sound(r) /\ Sound(d) /\ Sound(e)
  <2>1. Sound(r)
    BY DEF Open
  <2>2. Sound(d)
    BY SMTT(30), <2>1, <1>4, <1>6 DEF Sound
  <2>3. Sound(e)
    BY SMTT(30), <2>1, <1>5, <1>6 DEF Sound
  <2> QED BY <2>1, <2>2, <2>3
<1>10. Counts(d) /\ Counts(e)
  <2>1. ~r.raced => \A n \in Nodes : n \in r.pending <=> r.timer[n] # "off"
    BY DEF Open
  <2>2. Counts(d)
    BY <2>1, <1>4, <1>6 DEF Counts
  <2>3. Counts(e)
    BY SMTT(30), <2>1, <1>5, <1>6 DEF Counts
  <2> QED BY <2>2, <2>3
<1>11. ASSUME ~ends PROVE Reported(d)
  <2>1. d.finished <=> r.finished
    BY <1>4, <1>11
  <2>2. /\ Len(d.reports) <= 1
        /\ d.reports # <<>> <=> (d.finished \/ d.keepers = {})
        /\ d.reports # <<>> =>
             /\ d.reports[1].acks <= d.acks
             /\ d.reports[1].ok => d.reports[1].acks >= RequiredQuorum(d.keepers)
    BY <1>4, <2>1 DEF Open
  <2>3. ASSUME ~r.raced PROVE d.reports = <<>> /\ Left(d) # {}
    <3>1. r.reports = <<>> /\ ~r.finished
      BY <2>3 DEF Open
    <3>2. left # 0
      BY <1>11, <3>1
    <3> QED BY <3>1, <3>2, <1>4, <1>6, <1>7, <2>3
  <2> QED BY <2>2, <2>3, <1>4 DEF Reported
<1>12. ASSUME ends PROVE Reported(e) /\ d.reports = <<>>
  <2>1. r.reports = <<>> /\ left = 0
    BY <1>12 DEF Open
  <2>2. e.reports = <<[ok |-> ok, acks |-> r.acks]>>
    BY SMTT(30), <2>1, <1>5
  <2>3. /\ Len(e.reports) = 1 /\ e.reports # <<>>
        /\ e.reports[1].acks = r.acks
        /\ e.reports[1].ok <=> ok
    <3> DEFINE rep == [ok |-> ok, acks |-> r.acks]
    <3>1. rep.acks = r.acks /\ (rep.ok <=> ok)
      OBVIOUS
    <3> HIDE DEF rep
    <3>2. e.reports = <<rep>>
      BY <2>2 DEF rep
    <3>3. Len(e.reports) = 1 /\ e.reports # <<>> /\ e.reports[1] = rep
      BY <3>2, OneReport
    <3> QED BY <3>1, <3>3
  <2>4. e.finished
    BY <1>5, <1>12
  <2>5. ~r.raced => Left(e) = {}
    BY <2>1, <1>6, <1>7
  <2>6. e.reports[1].ok <=> r.acks >= RequiredQuorum(r.keepers)
    BY <2>3
  <2>7. /\ e.reports[1].acks <= e.acks
        /\ e.reports[1].ok => e.reports[1].acks >= RequiredQuorum(e.keepers)
        /\ e.reports[1].ok <=> e.acks >= RequiredQuorum(e.keepers)
    BY SMTT(30), <2>3, <2>6, <1>1, <1>5
  <2>8. Reported(e)
    <3>1. e.reports # <<>> <=> (e.finished \/ e.keepers = {})
      BY <2>3, <2>4
    <3>2. ~e.raced => (e.reports # <<>> <=> Left(e) = {})
      BY <2>3, <2>5, <1>5
    <3>3. Len(e.reports) <= 1
      BY <2>3
    <3> QED BY <3>1, <3>2, <3>3, <2>7 DEF Reported
  <2> QED BY <2>1, <2>8, <1>4
<1> QED
  BY <1>3, <1>4, <1>8, <1>10, <1>11, <1>12 DEF PhaseOK

-----------------------------------------------------------------------------

(* What Linked and Single say of the phases is only about the lookup each    *)
(* belongs to and what it reported.                                          *)
LEMMA SameReports ==
  ASSUME NEW ph, NEW ph2, NEW lk, NEW oc, Len(ph2) = Len(ph),
         \A q \in 1..Len(ph) : /\ ph2[q].lookup = ph[q].lookup
                               /\ ph2[q].reports = ph[q].reports,
         Linked(ph, lk, oc), Single(ph, lk, oc)
  PROVE  Linked(ph2, lk, oc) /\ Single(ph2, lk, oc)
<1>1. \A q : Good(ph, q) => Good(ph2, q)
  BY DEF Good
<1>2. ASSUME NEW i \in 1..Len(oc), oc[i].ok
      PROVE  /\ Good(ph2, oc[i].by)
             /\ oc[i].acks <= ph2[oc[i].by].reports[1].acks
             /\ LET f == lk[ph2[oc[i].by].lookup].from
                IN  f # 0 => oc[i].acks <= ph2[f].reports[1].acks
  <2> DEFINE b == oc[i].by
             f == lk[ph[b].lookup].from
  <2>1. /\ Good(ph, b)
        /\ oc[i].acks <= ph[b].reports[1].acks
        /\ f # 0 => oc[i].acks <= ph[f].reports[1].acks
    BY <1>2 DEF Linked
  <2>2. b \in 1..Len(ph) /\ ph[b].lookup \in 1..Len(lk)
    BY <2>1 DEF Good, Linked
  <2>3. f # 0 => f \in 1..Len(ph)
    BY <2>2 DEF Linked, Good
  <2> QED BY <1>1, <2>1, <2>2, <2>3
<1>3. Linked(ph2, lk, oc)
  BY <1>1, <1>2 DEF Linked
<1>4. Single(ph2, lk, oc)
  BY DEF Single
<1> QED BY <1>3, <1>4

(* The first element of a sequence that is not empty.                        *)
LEMMA FirstOf ==
  ASSUME NEW R, NEW t \in Seq(R), t # <<>>
  PROVE  t[1] \in R
<1>1. Len(t) \in Nat /\ Len(t) # 0
  OBVIOUS
<1> QED BY <1>1

(* std::min of two counts.                                                   *)
LEMMA LeastBelow ==
  ASSUME NEW a \in Nat, NEW b \in Nat
  PROVE  Least(a, b) \in Nat /\ Least(a, b) <= a /\ Least(a, b) <= b
BY DEF Least

(* The callback of a phase that did not call back before: its report, and    *)
(* the next lookup or the result of the whole publication.                   *)
LEMMA CalledBack ==
  ASSUME NEW ph \in Seq(PhaseRecords), NEW lk \in Seq(LookupRecords),
         NEW p \in 1..Len(ph), NEW ok \in BOOLEAN,
         alias \in BOOLEAN, outcome \in Seq(Outcomes),
         ph[p].reports = <<>>,
         Linked(ph, lk, outcome), Single(ph, lk, outcome),
         CallBack(ph, lk, p, ok)
  PROVE  /\ PublishTypeOK'
         /\ Linked(phases', lookups', outcome')
         /\ Single(phases', lookups', outcome')
         /\ Len(phases') = Len(ph)
         /\ phases'[p] = Told(ph[p], ok)
         /\ \A q \in 1..Len(ph) : q # p => phases'[q] = ph[q]
<1> DEFINE e == [ph[p] EXCEPT !.reports =
                   Append(@, [ok |-> ok, acks |-> ph[p].acks])]
           round == lk[ph[p].lookup]
           new == [ok   |-> ok,
                   acks |-> IF round.key = "node" THEN ph[p].acks
                            ELSE Least(ph[p].acks, ph[round.from].reports[1].acks),
                   by   |-> p]
           none == [ok |-> FALSE, acks |-> 0, by |-> p]
<1>1. /\ ph[p] \in PhaseRecords /\ ph[p].lookup \in 1..Len(lk)
      /\ round \in LookupRecords /\ p \in Nat
  <2>1. ph[p] \in PhaseRecords
    OBVIOUS
  <2>2. ph[p].lookup \in 1..Len(lk)
    BY DEF Linked
  <2> QED BY <2>1, <2>2
<1>2. /\ ph[p].acks \in Nat
      /\ round.key \in {"node", "alias"} /\ round.from \in Nat
  BY <1>1 DEF PhaseRecords, LookupRecords
<1>3. /\ e \in PhaseRecords
      /\ e.lookup = ph[p].lookup
      /\ e.reports = <<[ok |-> ok, acks |-> ph[p].acks]>>
  <2> DEFINE rep == [ok |-> ok, acks |-> ph[p].acks]
  <2>1. rep \in [ok : BOOLEAN, acks : Nat]
    BY <1>2
  <2> HIDE DEF rep
  <2>2. Append(ph[p].reports, rep) = <<rep>> /\ <<rep>> \in Seq([ok : BOOLEAN, acks : Nat])
    BY SMTT(30), <2>1
  <2>3. e = [ph[p] EXCEPT !.reports = <<rep>>]
    BY <2>2, <1>1 DEF rep
  <2>4. /\ [ph[p] EXCEPT !.reports = <<rep>>] \in PhaseRecords
        /\ [ph[p] EXCEPT !.reports = <<rep>>].lookup = ph[p].lookup
        /\ [ph[p] EXCEPT !.reports = <<rep>>].reports = <<rep>>
    BY <2>2, <1>1 DEF PhaseRecords
  <2> QED BY <2>3, <2>4 DEF rep
<1>4. /\ e.reports # <<>>
      /\ e.reports[1].ok <=> ok
      /\ e.reports[1].acks = ph[p].acks
  BY <1>3
<1>5. phases' = [ph EXCEPT ![p] = e]
  BY DEF CallBack
<1> HIDE DEF e
<1>6. /\ phases' \in Seq(PhaseRecords)
      /\ Len(phases') = Len(ph)
      /\ phases'[p] = e
      /\ \A q \in 1..Len(ph) : q # p => phases'[q] = ph[q]
  BY SMTT(30), <1>3, <1>5, Replaced
<1>7. \A q \in 1..Len(ph) : /\ phases'[q].lookup = ph[q].lookup
                            /\ Good(ph, q) => Good(phases', q)
                            /\ ph[q].reports # <<>> =>
                                 phases'[q].reports = ph[q].reports
  BY <1>3, <1>6 DEF Good
<1>8. round.key = "alias" => /\ Good(ph, round.from)
                             /\ ph[round.from].reports[1].acks \in Nat
  <2> SUFFICES ASSUME round.key = "alias"
               PROVE  /\ Good(ph, round.from)
                      /\ ph[round.from].reports[1].acks \in Nat
    OBVIOUS
  <2>1. Good(ph, round.from)
    BY <1>1 DEF Linked
  <2>2. ph[round.from] \in PhaseRecords /\ ph[round.from].reports # <<>>
    <3>1. round.from \in 1..Len(ph) /\ ph[round.from].reports # <<>>
      BY <2>1 DEF Good
    <3>2. \A q \in 1..Len(ph) : ph[q] \in PhaseRecords
      OBVIOUS
    <3> HIDE DEF round
    <3> QED BY <3>1, <3>2
  <2>3. ph[round.from].reports \in Seq([ok : BOOLEAN, acks : Nat])
    BY <2>2 DEF PhaseRecords
  <2>4. \A t \in Seq([ok : BOOLEAN, acks : Nat]) :
          t # <<>> => t[1] \in [ok : BOOLEAN, acks : Nat]
    BY FirstOf
  <2>5. ph[round.from].reports[1] \in [ok : BOOLEAN, acks : Nat]
    BY <2>2, <2>3, <2>4
  <2> QED BY <2>1, <2>5
<1>9. /\ new \in Outcomes /\ none \in Outcomes
      /\ new.ok <=> ok
      /\ ~none.ok
      /\ new.by = p
      /\ new.acks <= ph[p].acks
      /\ round.key = "alias" => new.acks <= ph[round.from].reports[1].acks
  <2> DEFINE a == IF round.key = "node" THEN ph[p].acks
                  ELSE Least(ph[p].acks, ph[round.from].reports[1].acks)
  <2>1. /\ a \in Nat
        /\ a <= ph[p].acks
        /\ round.key = "alias" => a <= ph[round.from].reports[1].acks
    <3>1. CASE round.key = "node"
      BY <3>1, <1>2
    <3>2. CASE round.key = "alias"
      <4>1. a = Least(ph[p].acks, ph[round.from].reports[1].acks)
        BY <3>2
      <4> HIDE DEF a
      <4> QED BY <4>1, <3>2, <1>2, <1>8, LeastBelow
    <3> QED BY <3>1, <3>2, <1>2
  <2>2. new = [ok |-> ok, acks |-> a, by |-> p]
    OBVIOUS
  <2> HIDE DEF a, new
  <2> QED BY <2>1, <2>2, <1>1 DEF Outcomes
<1>10. /\ alias' = alias
       /\ \/ /\ round.key = "node" /\ ok
             /\ lookups' = Append(lk, Round("alias", p))
             /\ outcome' = outcome
          \/ /\ lookups' = lk
             /\ outcome' = Append(outcome, none)
          \/ /\ lookups' = lk
             /\ outcome' = Append(outcome, new)
  BY DEF CallBack
<1>11. /\ Round("alias", p) \in LookupRecords
       /\ Round("alias", p).key = "alias"
       /\ Round("alias", p).from = p
       /\ Round("alias", p).calls = 0
  BY <1>1 DEF Round, LookupRecords
<1> HIDE DEF new, none
<1>12. PublishTypeOK'
  <2>1. lookups' \in Seq(LookupRecords)
    <3>1. Append(lk, Round("alias", p)) \in Seq(LookupRecords)
      BY <1>11
    <3> QED BY <3>1, <1>10
  <2>2. outcome' \in Seq(Outcomes)
    <3>1. outcome \in Seq(Outcomes)
      BY <1>9
    <3> HIDE DEF Outcomes
    <3>2. \A x \in Outcomes : Append(outcome, x) \in Seq(Outcomes)
      BY <3>1
    <3> QED BY <3>1, <3>2, <1>9, <1>10
  <2> QED BY <2>1, <2>2, <1>6, <1>10 DEF PublishTypeOK
<1>13. /\ Len(lookups') \in {Len(lk), Len(lk) + 1} /\ Len(lk) \in Nat
       /\ \A l \in 1..Len(lk) : lookups'[l] = lk[l]
       /\ Len(lookups') = Len(lk) + 1 =>
            /\ round.key = "node" /\ ok /\ outcome' = outcome
            /\ lookups'[Len(lk) + 1] = Round("alias", p)
       /\ Len(lookups') = Len(lk) =>
            lookups' = lk /\ outcome' \in {Append(outcome, none), Append(outcome, new)}
  <2>1. CASE /\ round.key = "node" /\ ok
             /\ lookups' = Append(lk, Round("alias", p))
             /\ outcome' = outcome
    BY <2>1, <1>11
  <2>2. CASE lookups' = lk /\ outcome' \in {Append(outcome, none), Append(outcome, new)}
    BY <2>2
  <2> QED BY <2>1, <2>2, <1>10
<1>14. \A l \in 1..Len(lookups') :
         \/ l \in 1..Len(lk) /\ lookups'[l] = lk[l]
         \/ l = Len(lk) + 1 /\ Len(lookups') = Len(lk) + 1
  BY <1>13
<1>15. \A i \in 1..Len(outcome') :
         \/ i \in 1..Len(outcome) /\ outcome'[i] = outcome[i]
         \/ i = Len(outcome) + 1 /\ lookups' = lk /\ outcome'[i] \in {none, new}
  <2>1. CASE outcome' = outcome
    BY <2>1
  <2>2. ASSUME NEW o \in Outcomes, o \in {none, new}, outcome' = Append(outcome, o), lookups' = lk
        PROVE  \A i \in 1..Len(outcome') :
                 \/ i \in 1..Len(outcome) /\ outcome'[i] = outcome[i]
                 \/ i = Len(outcome) + 1 /\ lookups' = lk /\ outcome'[i] \in {none, new}
    BY <2>2
  <2> QED BY <2>1, <2>2, <1>9, <1>10
<1>16. Linked(phases', lookups', outcome')
  <2>1. \A q \in 1..Len(phases') : phases'[q].lookup \in 1..Len(lookups')
    <3>1. \A q \in 1..Len(ph) : ph[q].lookup \in 1..Len(lk)
      BY DEF Linked
    <3>2. \A l \in 1..Len(lk) : l \in 1..Len(lookups')
      BY <1>13
    <3> QED BY <3>1, <3>2, <1>6, <1>7
  <2>2. ASSUME NEW l \in 1..Len(lookups')
        PROVE  IF lookups'[l].key = "alias" THEN Good(phases', lookups'[l].from)
                                            ELSE lookups'[l].from = 0
    <3>1. CASE l \in 1..Len(lk) /\ lookups'[l] = lk[l]
      <4>1. lk[l].key = "alias" => Good(ph, lk[l].from)
        BY <3>1 DEF Linked
      <4>2. lk[l].key = "alias" => Good(phases', lk[l].from)
        BY <4>1, <1>7 DEF Good
      <4> QED BY <3>1, <4>2 DEF Linked
    <3>2. CASE l = Len(lk) + 1 /\ Len(lookups') = Len(lk) + 1
      <4>1. Good(phases', p)
        BY <3>2, <1>4, <1>6, <1>13 DEF Good
      <4> QED BY <4>1, <3>2, <1>11, <1>13
    <3> QED BY <3>1, <3>2, <1>14
  <2>3. ASSUME NEW i \in 1..Len(outcome'), outcome'[i].ok
        PROVE  /\ Good(phases', outcome'[i].by)
               /\ outcome'[i].acks <= phases'[outcome'[i].by].reports[1].acks
               /\ LET f == lookups'[phases'[outcome'[i].by].lookup].from
                  IN  f # 0 => outcome'[i].acks <= phases'[f].reports[1].acks
    <3>1. ASSUME i \in 1..Len(outcome), outcome'[i] = outcome[i]
          PROVE  /\ Good(phases', outcome[i].by)
                 /\ outcome[i].acks <= phases'[outcome[i].by].reports[1].acks
                 /\ LET f == lookups'[phases'[outcome[i].by].lookup].from
                    IN  f # 0 => outcome[i].acks <= phases'[f].reports[1].acks
      <4> DEFINE b == outcome[i].by
                 f == lk[ph[b].lookup].from
      <4>1. /\ Good(ph, b)
            /\ outcome[i].acks <= ph[b].reports[1].acks
            /\ f # 0 => outcome[i].acks <= ph[f].reports[1].acks
        BY <3>1, <2>3 DEF Linked
      <4>2. b \in 1..Len(ph) /\ ph[b].lookup \in 1..Len(lk)
        BY <4>1 DEF Good, Linked
      <4>3. f # 0 => Good(ph, f)
        BY <4>2 DEF Linked
      <4>4. f # 0 => phases'[f].reports = ph[f].reports
        BY <4>3, <1>7 DEF Good
      <4>5. phases'[b].reports = ph[b].reports /\ Good(phases', b)
        BY <4>1, <4>2, <1>7 DEF Good
      <4>6. lookups'[phases'[b].lookup].from = f
        BY <4>2, <1>7, <1>13
      <4> QED BY <4>1, <4>4, <4>5, <4>6
    <3>2. ASSUME i = Len(outcome) + 1, lookups' = lk, outcome'[i] \in {none, new}
          PROVE  /\ Good(phases', new.by)
                 /\ new.ok /\ outcome'[i] = new
                 /\ new.acks <= phases'[new.by].reports[1].acks
                 /\ LET f == lookups'[phases'[new.by].lookup].from
                    IN  f # 0 => new.acks <= phases'[f].reports[1].acks
      <4>1. outcome'[i] = new /\ new.ok /\ ok
        BY <3>2, <2>3, <1>9
      <4>2. Good(phases', p) /\ phases'[p].reports[1].acks = ph[p].acks
        BY <4>1, <1>4, <1>6 DEF Good
      <4>3. lookups'[phases'[p].lookup] = round
        BY <3>2, <1>3, <1>6
      <4>4. round.from # 0 => round.key = "alias"
        BY <1>1 DEF Linked
      <4>5. round.key = "alias" => phases'[round.from].reports = ph[round.from].reports
        BY <1>7, <1>8 DEF Good
      <4> HIDE DEF round
      <4> QED BY <4>1, <4>2, <4>3, <4>4, <4>5, <1>9
    <3> QED BY <3>1, <3>2, <1>15
  <2> QED BY <2>1, <2>2, <2>3 DEF Linked
<1>17. Single(phases', lookups', outcome')
  <2>1. \A q \in 1..Len(phases') : lookups'[phases'[q].lookup].calls > 0
    <3>1. \A q \in 1..Len(ph) : ph[q].lookup \in 1..Len(lk) /\ lk[ph[q].lookup].calls > 0
      BY DEF Linked, Single
    <3> QED BY SMTT(30), <3>1, <1>6, <1>7, <1>13
  <2>2. Once(lookups') => Once(lk)
    BY SMTT(30), <1>13 DEF Once
  <2> SUFFICES ASSUME Once(lookups')
               PROVE  /\ Len(lookups') <= 2 /\ Len(outcome') <= 1
                      /\ \A l \in 1..Len(lookups') : lookups'[l].key = "node" <=> l = 1
                      /\ \A q, s \in 1..Len(phases') :
                           phases'[q].lookup = phases'[s].lookup => q = s
                      /\ outcome' # <<>> =>
                           /\ \A l \in 1..Len(lookups') : lookups'[l].calls = 1
                           /\ \A q \in 1..Len(phases') : phases'[q].reports # <<>>
                      /\ Len(lookups') = 2 =>
                           /\ lookups'[1].calls = 1
                           /\ \A q \in 1..Len(phases') :
                                phases'[q].lookup = 1 => phases'[q].reports # <<>>
    BY <2>1 DEF Single
  <2>3. /\ Len(lk) <= 2 /\ Len(outcome) <= 1
        /\ \A l \in 1..Len(lk) : lk[l].key = "node" <=> l = 1
        /\ \A q, s \in 1..Len(ph) : ph[q].lookup = ph[s].lookup => q = s
        /\ outcome # <<>> => \A q \in 1..Len(ph) : ph[q].reports # <<>>
        /\ Len(lk) = 2 => /\ lk[1].calls = 1
                          /\ \A q \in 1..Len(ph) :
                               ph[q].lookup = 1 => ph[q].reports # <<>>
    BY <2>2 DEF Single
  <2>4. outcome = <<>>
    BY <2>3
  <2>5. phases'[p].reports # <<>>
    BY <1>4, <1>6
  <2>6. /\ round.key = "node" <=> ph[p].lookup = 1
        /\ Len(lk) = 2 => ph[p].lookup = 2
        /\ Len(lk) # 2 => Len(lk) = 1 /\ ph[p].lookup = 1
    <3>1. round.key = "node" <=> ph[p].lookup = 1
      BY <1>1, <2>3
    <3>2. Len(lk) = 2 => ph[p].lookup # 1
      BY <2>3
    <3>3. ph[p].lookup \in Nat /\ 1 <= ph[p].lookup /\ ph[p].lookup <= Len(lk)
      BY <1>1, <1>13
    <3>4. Len(lk) <= 2
      BY <2>3
    <3> HIDE DEF round
    <3>5. /\ Len(lk) = 2 => ph[p].lookup = 2
          /\ Len(lk) # 2 => Len(lk) = 1 /\ ph[p].lookup = 1
      <4>1. \A k, m \in Nat : (1 <= k /\ k <= m /\ m <= 2 /\ (m = 2 => k # 1)) =>
              (m = 2 => k = 2) /\ (m # 2 => m = 1 /\ k = 1)
        OBVIOUS
      <4>2. Len(lk) \in Nat
        BY <1>13
      <4> QED BY <4>1, <4>2, <3>2, <3>3, <3>4
    <3> QED BY <3>1, <3>5
  <2>7. \A q, s \in 1..Len(phases') : phases'[q].lookup = phases'[s].lookup => q = s
    BY <2>3, <1>6, <1>7
  <2>8. lk[ph[p].lookup].calls = 1 /\ round.calls = 1
    <3>1. round.calls > 0 /\ round.calls <= 1 /\ round.calls \in Nat
      BY <2>2, <1>1 DEF Single, Once, LookupRecords
    <3> QED BY <3>1
  <2>9. \A q \in 1..Len(ph) : ph[q].lookup = 1 => phases'[q].reports # <<>>
    <3> SUFFICES ASSUME NEW q \in 1..Len(ph), ph[q].lookup = 1
                 PROVE  phases'[q].reports # <<>>
      OBVIOUS
    <3>1. CASE q = p
      BY <3>1, <2>5
    <3>2. CASE q # p
      <4>1. Len(lk) = 2
        BY <3>2, <2>3, <2>6
      <4>2. ph[q].reports # <<>>
        BY <4>1, <2>3
      <4> QED BY <4>2, <3>2, <1>7
    <3> QED BY <3>1, <3>2
  <2>10. CASE Len(lookups') = Len(lk) + 1
    <3>1. Len(lk) = 1 /\ ph[p].lookup = 1
      BY <2>10, <2>6, <1>13
    <3>2. \A l \in 1..Len(lookups') : lookups'[l].key = "node" <=> l = 1
      BY SMTT(30), <3>1, <2>10, <2>3, <1>11, <1>13
    <3>3. lookups'[1].calls = 1
      BY SMTT(30), <3>1, <2>8, <1>13
    <3> QED BY SMTT(30), <3>1, <3>2, <3>3, <2>4, <2>7, <2>9, <2>10, <1>6, <1>7, <1>13
  <2>11. CASE Len(lookups') = Len(lk)
    <3>1. lookups' = lk
      BY <2>11, <1>13
    <3>2. Len(outcome') = 1
      <4>1. \E o \in Outcomes : outcome' = Append(outcome, o)
        BY <2>11, <1>9, <1>13
      <4> QED BY <4>1, <2>4
    <3>3. \A l \in 1..Len(lk) : lk[l].calls = 1
      BY SMTT(30), <2>3, <2>6, <2>8
    <3>4. \A q \in 1..Len(phases') : phases'[q].reports # <<>>
      <4> SUFFICES ASSUME NEW q \in 1..Len(ph) PROVE phases'[q].reports # <<>>
        BY <1>6
      <4>1. ph[q].lookup \in 1..Len(lk)
        BY DEF Linked
      <4>2. CASE ph[q].lookup = 1
        BY <4>2, <2>9
      <4>3. CASE ph[q].lookup = 2
        BY SMTT(30), <4>3, <4>1, <2>3, <2>5, <2>6
      <4> QED BY SMTT(30), <4>1, <4>2, <4>3, <2>3
    <3> QED BY SMTT(30), <3>1, <3>2, <3>3, <3>4, <2>3, <2>7
  <2> QED BY <2>10, <2>11, <1>13
<1> QED
  BY <1>6, <1>12, <1>16, <1>17 DEF e, Told

(* What each handler's counting-down makes of the whole state: ph is phases  *)
(* with phase p already changed by the handler.                              *)
LEMMA SettleKeeps ==
  ASSUME PublishTypeOK, PublishInv,
         NEW p \in 1..Len(phases), NEW r \in PhaseRecords, Open(r),
         r.lookup = phases[p].lookup, r.reports = phases[p].reports,
         NEW ph, ph = [phases EXCEPT ![p] = r],
         Settle(ph, p)
  PROVE  PublishTypeOK' /\ PublishInv'
<1> DEFINE left == (r.remaining + SizeRange - 1) % SizeRange
<1>ends. PICK ends \in BOOLEAN : ends = (left = 0 /\ ~r.finished)
  OBVIOUS
<1>ok. PICK ok \in BOOLEAN : ok = (r.acks >= RequiredQuorum(r.keepers))
  <2>1. (r.acks >= RequiredQuorum(r.keepers)) \in BOOLEAN
    OBVIOUS
  <2> WITNESS (r.acks >= RequiredQuorum(r.keepers)) \in BOOLEAN
  <2> QED OBVIOUS
<1> DEFINE d == Down(r, left, ends)
           e == Told(d, ok)
           down == [ph EXCEPT ![p] = d]
<1>0. phases \in Seq(PhaseRecords) /\ lookups \in Seq(LookupRecords)
  BY DEF PublishTypeOK
<1>1. /\ ph \in Seq(PhaseRecords)
      /\ Len(ph) = Len(phases)
      /\ ph[p] = r
      /\ \A q \in 1..Len(phases) : q # p => ph[q] = phases[q]
  BY SMTT(30), <1>0, Replaced
<1>2. IF ends THEN CallBack(down, lookups, p, ok)
              ELSE phases' = down /\ UNCHANGED <<alias, lookups, outcome>>
  <2> DEFINE two == [ph EXCEPT ![p].remaining = left, ![p].finished = @ \/ ends]
  <2>1. two = down
    BY <1>1 DEF Down
  <2> HIDE DEF two, down, left
  <2>2. IF ends THEN CallBack(two, lookups, p, ok)
                ELSE phases' = two /\ UNCHANGED <<alias, lookups, outcome>>
    BY <1>1, <1>ends, <1>ok DEF Settle, two, left
  <2> QED BY <2>1, <2>2
<1>3. /\ d \in PhaseRecords
      /\ d.reports = r.reports /\ d.lookup = r.lookup /\ d.acks = r.acks
      /\ ~ends => PhaseOK(d)
      /\ ends => PhaseOK(e) /\ d.reports = <<>>
  <2>1. /\ left \in Nat /\ (~r.raced => left = Cardinality(Left(r)))
    BY LeftOver
  <2>4. /\ d = Down(r, left, ends)
        /\ e = Told(d, ok)
    OBVIOUS
  <2> HIDE DEF left, d, e
  <2>2. ends <=> left = 0 /\ ~r.finished
    BY <1>ends
  <2>3. ok <=> r.acks >= RequiredQuorum(r.keepers)
    BY <1>ok
  <2> QED BY SMTT(30), <2>1, <2>2, <2>3, <2>4, CountedDown
<1> HIDE DEF left, d
<1>4. /\ down \in Seq(PhaseRecords)
      /\ Len(down) = Len(phases)
      /\ down[p] = d
      /\ \A q \in 1..Len(phases) : q # p => down[q] = phases[q]
  BY SMTT(30), <1>1, <1>3, Replaced
<1> HIDE DEF down
<1>5. Linked(down, lookups, outcome) /\ Single(down, lookups, outcome)
  <2>1. \A q \in 1..Len(phases) : /\ down[q].lookup = phases[q].lookup
                                  /\ down[q].reports = phases[q].reports
    BY <1>3, <1>4
  <2> QED BY <2>1, <1>4, SameReports DEF PublishInv
<1>6. \A q \in 1..Len(phases) : PhaseOK(phases[q])
  BY DEF PublishInv
<1>7. CASE ~ends
  <2>1. phases' = down /\ UNCHANGED <<alias, lookups, outcome>>
    BY <1>7, <1>2
  <2>2. \A q \in 1..Len(phases') : PhaseOK(phases'[q])
    BY <2>1, <1>3, <1>4, <1>6, <1>7
  <2> QED BY <2>1, <2>2, <1>4, <1>5 DEF PublishInv, PublishTypeOK
<1>8. CASE ends
  <2>1. CallBack(down, lookups, p, ok)
    BY <1>8, <1>2
  <2>2. p \in 1..Len(down) /\ down[p].reports = <<>>
    BY <1>3, <1>4, <1>8
  <2>3. alias \in BOOLEAN /\ outcome \in Seq(Outcomes)
    BY DEF PublishTypeOK
  <2>4. /\ PublishTypeOK'
        /\ Linked(phases', lookups', outcome')
        /\ Single(phases', lookups', outcome')
        /\ Len(phases') = Len(down)
        /\ phases'[p] = Told(down[p], ok)
        /\ \A q \in 1..Len(down) : q # p => phases'[q] = down[q]
    BY <2>1, <2>2, <2>3, <1>0, <1>4, <1>5, CalledBack
  <2>5. phases'[p] = e
    BY <2>4, <1>3, <1>4
  <2> HIDE DEF e
  <2>6. \A q \in 1..Len(phases') : PhaseOK(phases'[q])
    BY <2>4, <2>5, <1>3, <1>4, <1>6, <1>8
  <2> QED BY <2>4, <2>6 DEF PublishInv
<1> QED BY <1>7, <1>8

-----------------------------------------------------------------------------

(* A step that changes one phase and neither reports nor looks up.           *)
LEMMA OnlyOne ==
  ASSUME PublishTypeOK, PublishInv,
         NEW p \in 1..Len(phases), NEW r \in PhaseRecords, PhaseOK(r),
         r.lookup = phases[p].lookup, r.reports = phases[p].reports,
         phases' = [phases EXCEPT ![p] = r],
         UNCHANGED <<alias, lookups, outcome>>
  PROVE  PublishTypeOK' /\ PublishInv'
<1>0. phases \in Seq(PhaseRecords)
  BY DEF PublishTypeOK
<1>1. /\ phases' \in Seq(PhaseRecords)
      /\ Len(phases') = Len(phases)
      /\ phases'[p] = r
      /\ \A q \in 1..Len(phases) : q # p => phases'[q] = phases[q]
  BY SMTT(30), <1>0, Replaced
<1>2. \A q \in 1..Len(phases') : PhaseOK(phases'[q])
  BY <1>1 DEF PublishInv
<1>3. \A q \in 1..Len(phases) : /\ phases'[q].lookup = phases[q].lookup
                                /\ phases'[q].reports = phases[q].reports
  BY <1>1
<1>4. Linked(phases', lookups, outcome) /\ Single(phases', lookups, outcome)
  BY <1>1, <1>3, SameReports DEF PublishInv
<1> QED BY <1>1, <1>2, <1>4 DEF PublishInv, PublishTypeOK

(* Send keeps the invariant.                                                 *)
LEMMA SendKeeps ==
  ASSUME PublishTypeOK, PublishInv,
         NEW p \in 1..Len(phases), NEW n \in Nodes, Send(p, n)
  PROVE  PublishTypeOK' /\ PublishInv'
<1> DEFINE o == phases[p]
           r == [o EXCEPT !.loop = @ \ {n}, !.pending = @ \cup {n},
                          !.timer[n] = "armed"]
<1>0. phases \in Seq(PhaseRecords)
  BY DEF PublishTypeOK
<1>1. o \in PhaseRecords /\ PhaseOK(o)
  BY <1>0 DEF PublishInv
<1>2. n \in o.loop /\ phases' = [phases EXCEPT ![p] = r]
      /\ UNCHANGED <<alias, lookups, outcome>>
  BY DEF Send
<1> HIDE DEF o
<1>3. /\ r \in PhaseRecords
      /\ r.lookup = o.lookup /\ r.keepers = o.keepers /\ r.acks = o.acks
      /\ r.remaining = o.remaining /\ r.confirmed = o.confirmed
      /\ r.reports = o.reports
      /\ r.finished = o.finished /\ r.raced = o.raced
      /\ r.loop = o.loop \ {n} /\ r.pending = o.pending \cup {n}
      /\ r.timer = [o.timer EXCEPT ![n] = "armed"]
  BY <1>1 DEF PhaseRecords
<1> HIDE DEF r
<1>4. /\ o.loop \in SUBSET Nodes /\ o.pending \in SUBSET Nodes
      /\ o.timer \in [Nodes -> {"off", "armed", "queued"}]
  BY <1>1 DEF PhaseRecords
<1>5. Left(r) = Left(o)
  BY <1>2, <1>3 DEF Left
<1>6. /\ r.timer[n] = "armed"
      /\ \A m \in Nodes : m # n => r.timer[m] = o.timer[m]
  BY <1>3, <1>4
<1>7. Sound(r)
  BY <1>1, <1>2, <1>3, <1>5, <1>6 DEF PhaseOK, Sound
<1>8. Counts(r)
  BY <1>1, <1>2, <1>3, <1>5, <1>6 DEF PhaseOK, Counts
<1>9. Reported(r)
  BY <1>1, <1>3, <1>5 DEF PhaseOK, Reported
<1>10. PhaseOK(r) /\ r.lookup = phases[p].lookup /\ r.reports = phases[p].reports
  BY <1>3, <1>7, <1>8, <1>9 DEF PhaseOK, o
<1> QED BY <1>2, <1>3, <1>10, OnlyOne

(* TimerExpires keeps the invariant.                                         *)
LEMMA TimerExpiresKeeps ==
  ASSUME PublishTypeOK, PublishInv,
         NEW p \in 1..Len(phases), NEW n \in Nodes, TimerExpires(p, n)
  PROVE  PublishTypeOK' /\ PublishInv'
<1> DEFINE o == phases[p]
           r == [o EXCEPT !.timer[n] = "queued"]
<1>0. phases \in Seq(PhaseRecords)
  BY DEF PublishTypeOK
<1>1. o \in PhaseRecords /\ PhaseOK(o)
  BY <1>0 DEF PublishInv
<1>2. /\ o.timer[n] = "armed" /\ phases' = [phases EXCEPT ![p] = r]
      /\ UNCHANGED <<alias, lookups, outcome>>
  BY DEF TimerExpires
<1> HIDE DEF o
<1>3. /\ r \in PhaseRecords
      /\ r.lookup = o.lookup /\ r.keepers = o.keepers /\ r.acks = o.acks
      /\ r.remaining = o.remaining /\ r.confirmed = o.confirmed
      /\ r.reports = o.reports
      /\ r.finished = o.finished /\ r.raced = o.raced
      /\ r.loop = o.loop /\ r.pending = o.pending
      /\ r.timer = [o.timer EXCEPT ![n] = "queued"]
  BY <1>1 DEF PhaseRecords
<1> HIDE DEF r
<1>4. o.timer \in [Nodes -> {"off", "armed", "queued"}]
  BY <1>1 DEF PhaseRecords
<1>5. Left(r) = Left(o)
  BY <1>3 DEF Left
<1>6. /\ r.timer[n] = "queued"
      /\ \A m \in Nodes : m # n => r.timer[m] = o.timer[m]
  BY <1>3, <1>4
<1>7. Sound(r)
  BY <1>1, <1>2, <1>3, <1>5, <1>6 DEF PhaseOK, Sound
<1>8. Counts(r)
  BY <1>1, <1>2, <1>3, <1>5, <1>6 DEF PhaseOK, Counts
<1>9. Reported(r)
  BY <1>1, <1>3, <1>5 DEF PhaseOK, Reported
<1>10. PhaseOK(r) /\ r.lookup = phases[p].lookup /\ r.reports = phases[p].reports
  BY <1>3, <1>7, <1>8, <1>9 DEF PhaseOK, o
<1> QED BY <1>2, <1>3, <1>10, OnlyOne

(* A handler that takes keeper n off a phase leaves it open.                 *)
LEMMA TakenOff ==
  ASSUME NEW o \in PhaseRecords, PhaseOK(o), NEW n \in Nodes, n \in o.keepers,
         NEW r \in PhaseRecords, Sound(r), r.keepers = o.keepers,
         r.remaining = o.remaining, r.finished = o.finished,
         r.reports = o.reports, r.acks >= o.acks,
         ~r.raced => /\ ~o.raced
                     /\ n \in Left(o) /\ Left(r) = Left(o) \ {n}
                     /\ \A m \in Nodes : m \in r.pending <=> r.timer[m] # "off"
  PROVE  Open(r)
<1>1. /\ o.acks \in Nat /\ r.acks \in Nat
      /\ o.loop \in SUBSET Nodes /\ o.pending \in SUBSET Nodes
      /\ o.keepers \in SUBSET Nodes /\ o.remaining \in Nat
      /\ o.reports \in Seq([ok : BOOLEAN, acks : Nat])
  BY DEF PhaseRecords
<1>2. Left(o) \in SUBSET Nodes
  BY <1>1 DEF Left
<1>3. ASSUME o.reports # <<>>
      PROVE  /\ o.reports[1].acks <= r.acks
             /\ o.reports[1].ok => o.reports[1].acks >= RequiredQuorum(o.keepers)
  <2>1. /\ o.reports[1].acks <= o.acks
        /\ o.reports[1].ok => o.reports[1].acks >= RequiredQuorum(o.keepers)
    BY <1>3 DEF PhaseOK, Reported
  <2>2. o.reports[1] \in [ok : BOOLEAN, acks : Nat]
    BY <1>1, <1>3, FirstOf
  <2>3. o.reports[1].acks \in Nat
    BY <2>2
  <2> QED BY SMTT(30), <2>1, <2>3, <1>1
<1>4. /\ Len(o.reports) <= 1
      /\ o.reports # <<>> <=> o.finished
  BY DEF PhaseOK, Reported
<1>5. ASSUME ~r.raced
      PROVE  /\ r.remaining = Cardinality(Left(r)) + 1
             /\ o.reports = <<>>
  <2>1. ~o.raced /\ n \in Left(o) /\ Left(r) = Left(o) \ {n}
    BY <1>5
  <2>2. o.remaining = Cardinality(Left(o)) /\ o.reports = <<>>
    BY <2>1 DEF PhaseOK, Counts, Reported
  <2>3. /\ Cardinality(Left(o) \ {n}) = Cardinality(Left(o)) - 1
        /\ Cardinality(Left(o)) \in 0..N
    BY <2>1, <1>2, FewNodes, FS_RemoveElement
  <2> QED BY SMTT(30), <2>1, <2>2, <2>3, PublishAssumption
<1> QED BY <1>3, <1>4, <1>5 DEF Open

(* ConnectFails keeps the invariant.                                         *)
LEMMA ConnectFailsKeeps ==
  ASSUME PublishTypeOK, PublishInv,
         NEW p \in 1..Len(phases), NEW n \in Nodes, ConnectFails(p, n)
  PROVE  PublishTypeOK' /\ PublishInv'
<1> DEFINE o == phases[p]
           r == [o EXCEPT !.loop = @ \ {n}]
           ph == [phases EXCEPT ![p] = r]
<1>1. o \in PhaseRecords /\ PhaseOK(o)
  BY DEF PublishTypeOK, PublishInv
<1>2. n \in o.loop /\ Settle(ph, p)
  BY DEF ConnectFails
<1> HIDE DEF o
<1>3. /\ r \in PhaseRecords
      /\ r.lookup = o.lookup /\ r.keepers = o.keepers /\ r.acks = o.acks
      /\ r.remaining = o.remaining /\ r.confirmed = o.confirmed
      /\ r.reports = o.reports
      /\ r.finished = o.finished /\ r.raced = o.raced
      /\ r.loop = o.loop \ {n} /\ r.pending = o.pending
      /\ r.timer = o.timer
  BY <1>1 DEF PhaseRecords
<1> HIDE DEF r
<1>4. n \in o.keepers /\ n \notin o.pending
  BY <1>1, <1>2 DEF PhaseOK, Sound
<1>5. n \in Left(o) /\ Left(r) = Left(o) \ {n}
  BY <1>2, <1>3, <1>4 DEF Left
<1>6. Sound(r)
  BY <1>1, <1>3, <1>5 DEF PhaseOK, Sound
<1>7. o.acks \in Nat
  BY <1>1 DEF PhaseRecords
<1>8. ~r.raced => \A m \in Nodes : m \in r.pending <=> r.timer[m] # "off"
  BY <1>1, <1>3 DEF PhaseOK, Counts
<1>9. Open(r)
  <2>1. r.acks >= o.acks
    BY SMTT(30), <1>3, <1>7
  <2>2. ~r.raced => /\ ~o.raced
                    /\ n \in Left(o) /\ Left(r) = Left(o) \ {n}
                    /\ \A m \in Nodes : m \in r.pending <=> r.timer[m] # "off"
    BY <1>3, <1>5, <1>8
  <2>3. /\ r \in PhaseRecords /\ r.keepers = o.keepers
        /\ r.remaining = o.remaining /\ r.finished = o.finished
        /\ r.reports = o.reports
    BY <1>3
  <2> QED BY <1>1, <1>4, <1>6, <2>1, <2>2, <2>3, TakenOff
<1>10. r.lookup = phases[p].lookup /\ r.reports = phases[p].reports
  BY <1>3 DEF o
<1> QED BY <1>2, <1>3, <1>9, <1>10, SettleKeeps

(* ReceiveResponse keeps the invariant.                                      *)
LEMMA ReceiveResponseKeeps ==
  ASSUME PublishTypeOK, PublishInv,
         NEW p \in 1..Len(phases), NEW n \in Nodes, NEW ok \in BOOLEAN,
         ReceiveResponse(p, n, ok)
  PROVE  PublishTypeOK' /\ PublishInv'
<1> DEFINE o == phases[p]
           queued == o.timer[n] = "queued"
           T == [o.timer EXCEPT ![n] = IF queued THEN @ ELSE "off"]
           X == o.raced \/ queued
           A == IF ok THEN o.acks + 1 ELSE o.acks
           C == IF ok THEN o.confirmed \cup {n} ELSE o.confirmed
           r == [o EXCEPT !.pending = @ \ {n}, !.timer = T, !.raced = X,
                          !.acks = A, !.confirmed = C]
           ph == [phases EXCEPT ![p] = r]
<1>1. phases \in Seq(PhaseRecords) /\ o \in PhaseRecords /\ PhaseOK(o)
  BY DEF PublishTypeOK, PublishInv
<1>2. n \in o.pending /\ Settle(ph, p)
  <2> DEFINE answered ==
               [o EXCEPT !.pending = @ \ {n},
                         !.timer[n] = IF queued THEN @ ELSE "off",
                         !.raced = @ \/ queued,
                         !.acks = IF ok THEN @ + 1 ELSE @,
                         !.confirmed = IF ok THEN @ \cup {n} ELSE @]
  <2>1. n \in o.pending /\ Settle([phases EXCEPT ![p] = answered], p)
    BY DEF ReceiveResponse
  <2> HIDE DEF o
  <2>2. answered = r
    OBVIOUS
  <2> QED BY <2>1, <2>2
<1> HIDE DEF o
<1>3. /\ r \in PhaseRecords
      /\ r.lookup = o.lookup /\ r.keepers = o.keepers
      /\ r.remaining = o.remaining /\ r.loop = o.loop
      /\ r.reports = o.reports
      /\ r.finished = o.finished
      /\ r.raced <=> (o.raced \/ queued)
      /\ r.pending = o.pending \ {n}
      /\ r.timer = [o.timer EXCEPT ![n] = IF queued THEN @ ELSE "off"]
      /\ r.acks = IF ok THEN o.acks + 1 ELSE o.acks
      /\ r.confirmed = IF ok THEN o.confirmed \cup {n} ELSE o.confirmed
  <2>1. /\ T \in [Nodes -> {"off", "armed", "queued"}] /\ X \in BOOLEAN
        /\ A \in Nat /\ C \in SUBSET Nodes
    BY SMTT(30), <1>1 DEF PhaseRecords
  <2> HIDE DEF T, X, A, C
  <2>2. /\ r \in PhaseRecords
        /\ r.lookup = o.lookup /\ r.keepers = o.keepers
        /\ r.remaining = o.remaining /\ r.loop = o.loop
        /\ r.reports = o.reports
        /\ r.finished = o.finished
        /\ r.raced = X /\ r.pending = o.pending \ {n}
        /\ r.timer = T /\ r.acks = A /\ r.confirmed = C
    BY <2>1, <1>1 DEF PhaseRecords
  <2>3. X <=> (o.raced \/ queued)
    BY DEF X
  <2> HIDE DEF r, queued
  <2> QED BY <2>1, <2>2, <2>3 DEF T, A, C
<1> HIDE DEF T, X, A, C
<1> HIDE DEF r
<1>4. n \in o.keepers /\ n \notin o.loop /\ n \notin o.confirmed
  BY <1>1, <1>2 DEF PhaseOK, Sound, Left
<1>5. n \in Left(o) /\ Left(r) = Left(o) \ {n}
  BY <1>2, <1>3, <1>4 DEF Left
<1>6. /\ o.acks \in Nat /\ o.confirmed \in SUBSET Nodes
      /\ o.timer \in [Nodes -> {"off", "armed", "queued"}]
      /\ o.acks = 1 + Cardinality(o.confirmed)
  BY <1>1 DEF PhaseRecords, PhaseOK, Sound
<1>7. /\ \A m \in Nodes : m # n => r.timer[m] = o.timer[m]
      /\ ~queued => r.timer[n] = "off"
      /\ queued => r.timer[n] = o.timer[n]
  BY <1>3, <1>6
<1>8. r.acks = 1 + Cardinality(r.confirmed) /\ r.acks >= o.acks
  <2>1. CASE ok
    <3>1. /\ Cardinality(o.confirmed \cup {n}) = Cardinality(o.confirmed) + 1
          /\ Cardinality(o.confirmed) \in Nat
      BY SMTT(30), <1>4, <1>6, FewNodes, FS_AddElement
    <3>2. r.acks = o.acks + 1 /\ r.confirmed = o.confirmed \cup {n}
      BY <2>1, <1>3
    <3> QED BY <3>1, <3>2, <1>6
  <2>2. CASE ~ok
    BY SMTT(30), <2>2, <1>3, <1>6
  <2> QED BY <2>1, <2>2
<1>9. /\ r.confirmed \subseteq r.keepers
      /\ r.confirmed \cap Left(r) = {}
  <2>1. o.confirmed \subseteq o.keepers /\ o.confirmed \cap Left(o) = {}
    BY <1>1 DEF PhaseOK, Sound
  <2>2. r.confirmed \subseteq o.confirmed \cup {n}
    BY <1>3
  <2> QED BY <2>1, <2>2, <1>3, <1>4, <1>5
<1>10. Sound(r)
  <2>1. /\ o.loop \subseteq o.keepers /\ o.pending \subseteq o.keepers
        /\ o.loop \cap o.pending = {}
        /\ \A m \in Nodes : o.timer[m] # "off" => m \in o.keepers
    BY <1>1 DEF PhaseOK, Sound
  <2>2. \A m \in Nodes : r.timer[m] # "off" => m \in r.keepers
    BY <2>1, <1>3, <1>4, <1>7
  <2>3. /\ r.loop \subseteq r.keepers /\ r.pending \subseteq r.keepers
        /\ r.loop \cap r.pending = {}
    BY <2>1, <1>3
  <2> QED BY <2>2, <2>3, <1>8, <1>9 DEF Sound
<1>11. ~r.raced => \A m \in Nodes : m \in r.pending <=> r.timer[m] # "off"
  <2> SUFFICES ASSUME ~r.raced, NEW m \in Nodes
               PROVE  m \in r.pending <=> r.timer[m] # "off"
    OBVIOUS
  <2>1. ~o.raced /\ ~queued
    BY <1>3
  <2>2. m \in o.pending <=> o.timer[m] # "off"
    BY <2>1, <1>1 DEF PhaseOK, Counts
  <2> QED BY <2>1, <2>2, <1>3, <1>7
<1>12. ~r.raced => ~o.raced
  BY <1>3
<1>13. Open(r)
  <2> HIDE DEF queued
  <2> QED BY <1>1, <1>3, <1>4, <1>5, <1>8, <1>10, <1>11, <1>12, TakenOff
<1>14. r.lookup = phases[p].lookup /\ r.reports = phases[p].reports
  BY <1>3 DEF o
<1> QED BY <1>2, <1>3, <1>13, <1>14, SettleKeeps

(* TimerFires keeps the invariant.                                           *)
LEMMA TimerFiresKeeps ==
  ASSUME PublishTypeOK, PublishInv,
         NEW p \in 1..Len(phases), NEW n \in Nodes, TimerFires(p, n)
  PROVE  PublishTypeOK' /\ PublishInv'
<1> DEFINE o == phases[p]
           r == [o EXCEPT !.timer[n] = "off", !.pending = @ \ {n}]
           ph == [phases EXCEPT ![p] = r]
<1>1. o \in PhaseRecords /\ PhaseOK(o)
  BY DEF PublishTypeOK, PublishInv
<1>2. o.timer[n] = "queued" /\ Settle(ph, p)
  BY DEF TimerFires
<1> HIDE DEF o
<1>3. /\ r \in PhaseRecords
      /\ r.lookup = o.lookup /\ r.keepers = o.keepers /\ r.acks = o.acks
      /\ r.remaining = o.remaining /\ r.confirmed = o.confirmed
      /\ r.reports = o.reports
      /\ r.finished = o.finished /\ r.raced = o.raced
      /\ r.loop = o.loop /\ r.pending = o.pending \ {n}
      /\ r.timer = [o.timer EXCEPT ![n] = "off"]
  BY <1>1 DEF PhaseRecords
<1> HIDE DEF r
<1>4. n \in o.keepers /\ (~o.raced => n \in o.pending)
  BY <1>1, <1>2 DEF PhaseOK, Sound, Counts
<1>5. ~r.raced => ~o.raced /\ n \in Left(o) /\ Left(r) = Left(o) \ {n}
  BY <1>1, <1>3, <1>4 DEF Left, PhaseOK, Sound
<1>6. /\ o.acks \in Nat
      /\ o.timer \in [Nodes -> {"off", "armed", "queued"}]
  BY <1>1 DEF PhaseRecords
<1>7. /\ \A m \in Nodes : m # n => r.timer[m] = o.timer[m]
      /\ r.timer[n] = "off"
  BY <1>3, <1>6
<1>8. Sound(r)
  BY <1>1, <1>3, <1>7 DEF PhaseOK, Sound, Left
<1>9. ~r.raced => \A m \in Nodes : m \in r.pending <=> r.timer[m] # "off"
  BY <1>1, <1>3, <1>7 DEF PhaseOK, Counts
<1>10. Open(r)
  <2>1. r.acks >= o.acks
    BY SMTT(30), <1>3, <1>6
  <2>2. ~r.raced => /\ ~o.raced
                    /\ n \in Left(o) /\ Left(r) = Left(o) \ {n}
                    /\ \A m \in Nodes : m \in r.pending <=> r.timer[m] # "off"
    BY <1>5, <1>9
  <2>3. /\ r \in PhaseRecords /\ r.keepers = o.keepers
        /\ r.remaining = o.remaining /\ r.finished = o.finished
        /\ r.reports = o.reports
    BY <1>3
  <2> QED BY <1>1, <1>4, <1>8, <2>1, <2>2, <2>3, TakenOff
<1>11. r.lookup = phases[p].lookup /\ r.reports = phases[p].reports
  BY <1>3 DEF o
<1> QED BY <1>2, <1>3, <1>10, <1>11, SettleKeeps

(* The phase a lookup's callback makes.                                      *)
LEMMA NewPhase ==
  ASSUME NEW l \in Nat, NEW remote \in SUBSET Nodes,
         NEW r, r = Phase(l, remote)
  PROVE  /\ r \in PhaseRecords
         /\ r.lookup = l /\ r.reports = <<>>
         /\ remote # {} => PhaseOK(r)
         /\ remote = {} => PhaseOK(Told(r, TRUE))
<1>1. IsFiniteSet(remote) /\ Cardinality(remote) \in Nat
      /\ (Cardinality(remote) = 0 <=> remote = {})
  BY SMTT(30), FewNodes, PublishAssumption
<1>2. /\ r \in PhaseRecords /\ r.lookup = l
      /\ r.keepers = remote /\ r.loop = remote /\ r.pending = {}
      /\ r.timer = [n \in Nodes |-> "off"] /\ r.acks = 1
      /\ r.remaining = Cardinality(remote) /\ ~r.finished
      /\ r.confirmed = {} /\ r.reports = <<>> /\ ~r.raced
  <2>1. /\ r.lookup = l
        /\ r.keepers = remote /\ r.loop = remote /\ r.pending = {}
        /\ r.timer = [n \in Nodes |-> "off"] /\ r.acks = 1
        /\ r.remaining = Cardinality(remote) /\ ~r.finished
        /\ r.confirmed = {} /\ r.reports = <<>> /\ ~r.raced
    BY DEF Phase
  <2>2. /\ <<>> \in Seq([ok : BOOLEAN, acks : Nat])
        /\ [n \in Nodes |-> "off"] \in [Nodes -> {"off", "armed", "queued"}]
    OBVIOUS
  <2>3. r \in PhaseRecords
    BY <1>1, <2>2 DEF Phase, PhaseRecords
  <2> QED BY <2>1, <2>3
<1>3. /\ Left(r) = remote
      /\ \A n \in Nodes : r.timer[n] = "off"
      /\ Cardinality({}) = 0 /\ RequiredQuorum({}) = 1
  BY <1>2, QuorumType, FS_EmptySet DEF Left
<1>4. Sound(r) /\ Counts(r)
  BY SMTT(30), <1>2, <1>3 DEF Sound, Counts
<1>5. ASSUME remote # {} PROVE Reported(r)
  BY SMTT(30), <1>2, <1>3, <1>5 DEF Reported
<1>6. ASSUME remote = {} PROVE PhaseOK(Told(r, TRUE))
  <2> DEFINE e == Told(r, TRUE)
             rep == [ok |-> TRUE, acks |-> 1]
  <2>1. Append(r.reports, rep) = <<rep>> /\ rep.ok /\ rep.acks = 1
    BY SMTT(30), <1>2
  <2> HIDE DEF rep
  <2>2. e = [r EXCEPT !.reports = <<rep>>]
    BY <2>1, <1>2 DEF Told, rep
  <2> HIDE DEF e
  <2>3. /\ e.keepers = remote /\ e.loop = remote /\ e.pending = {}
        /\ e.timer = r.timer /\ e.acks = 1
        /\ e.remaining = Cardinality(remote) /\ ~e.finished
        /\ e.confirmed = {} /\ e.reports = <<rep>> /\ ~e.raced
    BY <2>2, <1>2 DEF PhaseRecords
  <2>4. Left(e) = {}
    BY <2>3, <1>6 DEF Left
  <2>5. Sound(e) /\ Counts(e)
    BY SMTT(30), <2>3, <2>4, <1>3, <1>6 DEF Sound, Counts
  <2>6. Len(e.reports) = 1 /\ e.reports # <<>> /\ e.reports[1] = rep
    BY <2>3, OneReport
  <2>7. Reported(e)
    BY SMTT(30), <2>1, <2>3, <2>4, <2>6, <1>3, <1>6 DEF Reported
  <2> QED BY <2>5, <2>7 DEF PhaseOK, e
<1> QED BY <1>2, <1>4, <1>5, <1>6 DEF PhaseOK

(* The lookups when one more call of lookup l is counted.                    *)
Counted(lk, l) == [lk EXCEPT ![l].calls = @ + 1]

(* A lookup that calls back: one more call of it, and a phase that did not   *)
(* report yet.                                                               *)
LEMMA LookupLinks ==
  ASSUME PublishTypeOK, PublishInv,
         NEW l \in 1..Len(lookups), NEW r \in PhaseRecords,
         r.lookup = l, r.reports = <<>>,
         NEW ph, ph = Append(phases, r),
         NEW lk, lk = Counted(lookups, l)
  PROVE  /\ ph \in Seq(PhaseRecords) /\ lk \in Seq(LookupRecords)
         /\ Len(ph) = Len(phases) + 1
         /\ ph[Len(ph)] = r
         /\ \A q \in 1..Len(phases) : ph[q] = phases[q]
         /\ Linked(ph, lk, outcome) /\ Single(ph, lk, outcome)
<1>0. /\ phases \in Seq(PhaseRecords) /\ lookups \in Seq(LookupRecords)
      /\ Len(phases) \in Nat /\ Len(lookups) \in Nat
  BY DEF PublishTypeOK
<1>1. /\ ph \in Seq(PhaseRecords)
      /\ Len(ph) = Len(phases) + 1
      /\ ph[Len(ph)] = r
      /\ \A q \in 1..Len(phases) : ph[q] = phases[q]
  BY <1>0
<1>2. /\ lk \in Seq(LookupRecords) /\ Len(lk) = Len(lookups)
      /\ \A m \in 1..Len(lookups) : /\ lk[m].key = lookups[m].key
                                    /\ lk[m].from = lookups[m].from
                                    /\ lookups[m].calls \in Nat
                                    /\ m # l => lk[m].calls = lookups[m].calls
      /\ lk[l].calls = lookups[l].calls + 1
  <2> DEFINE x == [lookups[l] EXCEPT !.calls = @ + 1]
  <2>1. lookups[l] \in LookupRecords
    BY <1>0
  <2>2. /\ x \in LookupRecords
        /\ x.key = lookups[l].key /\ x.from = lookups[l].from
        /\ x.calls = lookups[l].calls + 1
    BY SMTT(30), <2>1 DEF LookupRecords
  <2>3. lk = [lookups EXCEPT ![l] = x]
    BY DEF Counted
  <2> HIDE DEF x
  <2>4. /\ lk \in Seq(LookupRecords) /\ Len(lk) = Len(lookups)
        /\ lk[l] = x
        /\ \A m \in 1..Len(lookups) : m # l => lk[m] = lookups[m]
    BY SMTT(30), <2>2, <2>3, <1>0, Replaced
  <2>5. \A m \in 1..Len(lookups) : lookups[m].calls \in Nat
    <3>1. \A m \in 1..Len(lookups) : lookups[m] \in LookupRecords
      BY <1>0
    <3>2. \A y \in LookupRecords : y.calls \in Nat
      BY DEF LookupRecords
    <3> QED BY <3>1, <3>2
  <2> QED BY <2>2, <2>4, <2>5
<1>3. \A q \in 1..Len(ph) : \/ q \in 1..Len(phases) /\ ph[q] = phases[q]
                            \/ q = Len(phases) + 1 /\ ph[q] = r
  BY <1>0, <1>1
<1>4. \A q : Good(phases, q) => Good(ph, q) /\ ph[q].reports = phases[q].reports
  BY SMTT(30), <1>0, <1>1 DEF Good
<1>5. Linked(phases, lookups, outcome) /\ Single(phases, lookups, outcome)
  BY DEF PublishInv
<1>6. Linked(ph, lk, outcome)
  <2>1. \A q \in 1..Len(ph) : ph[q].lookup \in 1..Len(lk)
    BY <1>2, <1>3, <1>5 DEF Linked
  <2>2. \A m \in 1..Len(lk) : IF lk[m].key = "alias" THEN Good(ph, lk[m].from)
                                                     ELSE lk[m].from = 0
    <3> SUFFICES ASSUME NEW m \in 1..Len(lk)
                 PROVE  /\ lk[m].key = "alias" => Good(ph, lk[m].from)
                        /\ lk[m].key # "alias" => lk[m].from = 0
      OBVIOUS
    <3>1. /\ m \in 1..Len(lookups) /\ lk[m].key = lookups[m].key
          /\ lk[m].from = lookups[m].from
      BY <1>2
    <3>2. /\ lookups[m].key = "alias" => Good(phases, lookups[m].from)
          /\ lookups[m].key # "alias" => lookups[m].from = 0
      BY <3>1, <1>5 DEF Linked
    <3> QED BY <3>1, <3>2, <1>4
  <2>3. ASSUME NEW i \in 1..Len(outcome), outcome[i].ok
        PROVE  /\ Good(ph, outcome[i].by)
               /\ outcome[i].acks <= ph[outcome[i].by].reports[1].acks
               /\ LET f == lk[ph[outcome[i].by].lookup].from
                  IN  f # 0 => outcome[i].acks <= ph[f].reports[1].acks
    <3> DEFINE b == outcome[i].by
               f == lookups[phases[b].lookup].from
    <3>1. /\ Good(phases, b)
          /\ outcome[i].acks <= phases[b].reports[1].acks
          /\ f # 0 => outcome[i].acks <= phases[f].reports[1].acks
      BY <2>3, <1>5 DEF Linked
    <3>2. b \in 1..Len(phases) /\ phases[b].lookup \in 1..Len(lookups)
      BY <3>1, <1>5 DEF Good, Linked
    <3>3. f # 0 => Good(phases, f)
      BY <3>2, <1>5 DEF Linked
    <3>4. lk[ph[b].lookup].from = f
      BY <3>2, <1>1, <1>2
    <3> QED BY <3>1, <3>3, <3>4, <1>4
  <2> QED BY <2>1, <2>2, <2>3 DEF Linked
<1>7. Single(ph, lk, outcome)
  <2>1. \A q \in 1..Len(phases) : /\ phases[q].lookup \in 1..Len(lookups)
                                  /\ lookups[phases[q].lookup].calls > 0
    BY <1>5 DEF Linked, Single
  <2>2. \A q \in 1..Len(ph) : lk[ph[q].lookup].calls > 0
    <3> SUFFICES ASSUME NEW q \in 1..Len(ph) PROVE lk[ph[q].lookup].calls > 0
      OBVIOUS
    <3>1. CASE q \in 1..Len(phases) /\ ph[q] = phases[q]
      BY SMTT(30), <3>1, <2>1, <1>2
    <3>2. CASE ph[q] = r
      BY <3>2, <1>2
    <3> QED BY <3>1, <3>2, <1>3
  <2> SUFFICES ASSUME Once(lk)
               PROVE  /\ Len(lk) <= 2 /\ Len(outcome) <= 1
                      /\ \A m \in 1..Len(lk) : lk[m].key = "node" <=> m = 1
                      /\ \A q, s \in 1..Len(ph) : ph[q].lookup = ph[s].lookup => q = s
                      /\ outcome = <<>>
                      /\ Len(lk) = 2 =>
                           /\ lk[1].calls = 1
                           /\ \A q \in 1..Len(ph) :
                                ph[q].lookup = 1 => ph[q].reports # <<>>
    BY <2>2 DEF Single
  <2>3. lookups[l].calls = 0
    BY SMTT(30), <1>2 DEF Once
  <2>4. Once(lookups)
    BY SMTT(30), <2>3, <1>2 DEF Once
  <2>5. /\ Len(lookups) <= 2 /\ Len(outcome) <= 1
        /\ \A m \in 1..Len(lookups) : lookups[m].key = "node" <=> m = 1
        /\ \A q, s \in 1..Len(phases) : phases[q].lookup = phases[s].lookup => q = s
        /\ outcome # <<>> => \A m \in 1..Len(lookups) : lookups[m].calls = 1
        /\ Len(lookups) = 2 =>
             /\ lookups[1].calls = 1
             /\ \A q \in 1..Len(phases) :
                  phases[q].lookup = 1 => phases[q].reports # <<>>
    BY <2>4, <1>5 DEF Single
  <2>6. outcome = <<>>
    BY SMTT(30), <2>3, <2>5
  <2>7. \A q \in 1..Len(phases) : phases[q].lookup # l
    BY <2>1, <2>3
  <2>8. \A q, s \in 1..Len(ph) : ph[q].lookup = ph[s].lookup => q = s
    BY SMTT(30), <2>5, <2>7, <1>3
  <2>9. ASSUME Len(lk) = 2
        PROVE  /\ lk[1].calls = 1
               /\ \A q \in 1..Len(ph) : ph[q].lookup = 1 => ph[q].reports # <<>>
    <3>1. lookups[1].calls = 1 /\ l # 1
      <4>1. Len(lookups) = 2
        BY <2>9, <1>2
      <4>2. lookups[1].calls = 1
        BY <4>1, <2>5
      <4> QED BY <4>2, <2>3
    <3>2. lk[1].calls = 1
      BY SMTT(30), <3>1, <2>9, <1>2
    <3> QED BY SMTT(30), <3>1, <3>2, <2>5, <2>9, <1>2, <1>3
  <2>10. \A m \in 1..Len(lk) : lk[m].key = "node" <=> m = 1
    BY SMTT(30), <2>5, <1>2
  <2> QED BY <2>5, <2>6, <2>8, <2>9, <2>10, <1>2
<1> QED BY <1>1, <1>2, <1>6, <1>7

(* LookupEnds keeps the invariant.                                           *)
LEMMA LookupEndsKeeps ==
  ASSUME PublishTypeOK, PublishInv,
         NEW l \in 1..Len(lookups), NEW closest \in SUBSET Nodes,
         LookupEnds(l, closest)
  PROVE  PublishTypeOK' /\ PublishInv'
<1> DEFINE remote == RemoteKeepers(closest)
           r == Phase(l, remote)
           ph == Append(phases, r)
           lk == Counted(lookups, l)
<1>1. remote \in SUBSET Nodes /\ l \in Nat
  BY DEF RemoteKeepers, PublishTypeOK
<1>2. IF remote = {} THEN CallBack(ph, lk, Len(ph), TRUE)
      ELSE phases' = ph /\ lookups' = lk /\ UNCHANGED <<alias, outcome>>
  BY DEF LookupEnds, Counted
<1> HIDE DEF remote
<1>3. /\ r \in PhaseRecords
      /\ r.lookup = l /\ r.reports = <<>>
      /\ remote # {} => PhaseOK(r)
      /\ remote = {} => PhaseOK(Told(r, TRUE))
  BY <1>1, NewPhase
<1> HIDE DEF r
<1>4. /\ ph \in Seq(PhaseRecords) /\ lk \in Seq(LookupRecords)
      /\ Len(ph) = Len(phases) + 1
      /\ ph[Len(ph)] = r
      /\ \A q \in 1..Len(phases) : ph[q] = phases[q]
      /\ Linked(ph, lk, outcome) /\ Single(ph, lk, outcome)
  BY <1>3, LookupLinks
<1> HIDE DEF ph, lk
<1>5. /\ alias \in BOOLEAN /\ outcome \in Seq(Outcomes) /\ Len(phases) \in Nat
      /\ \A q \in 1..Len(phases) : PhaseOK(phases[q])
  BY DEF PublishTypeOK, PublishInv
<1>6. \A q \in 1..Len(ph) : q = Len(ph) \/ q \in 1..Len(phases)
  BY <1>4, <1>5
<1>7. CASE remote # {}
  <2>1. phases' = ph /\ lookups' = lk /\ UNCHANGED <<alias, outcome>>
    BY <1>2, <1>7
  <2>2. \A q \in 1..Len(ph) : PhaseOK(ph[q])
    BY <1>3, <1>4, <1>5, <1>6, <1>7
  <2> QED BY <2>1, <2>2, <1>4, <1>5 DEF PublishInv, PublishTypeOK
<1>8. CASE remote = {}
  <2>1. CallBack(ph, lk, Len(ph), TRUE)
    BY <1>2, <1>8
  <2>2. Len(ph) \in 1..Len(ph) /\ ph[Len(ph)].reports = <<>>
    BY <1>3, <1>4, <1>5
  <2>3. /\ PublishTypeOK'
        /\ Linked(phases', lookups', outcome')
        /\ Single(phases', lookups', outcome')
        /\ Len(phases') = Len(ph)
        /\ phases'[Len(ph)] = Told(r, TRUE)
        /\ \A q \in 1..Len(ph) : q # Len(ph) => phases'[q] = ph[q]
    BY <2>1, <2>2, <1>4, <1>5, CalledBack
  <2>4. \A q \in 1..Len(phases') : PhaseOK(phases'[q])
    BY <2>3, <1>3, <1>4, <1>5, <1>6, <1>8
  <2> QED BY <2>3, <2>4 DEF PublishInv
<1> QED BY <1>7, <1>8

-----------------------------------------------------------------------------

(* The invariant holds when the first round was started or refused.          *)
LEMMA PublishInitially == Init => PublishTypeOK /\ PublishInv
<1> SUFFICES ASSUME Init PROVE PublishTypeOK /\ PublishInv
  OBVIOUS
<1>1. /\ alias \in BOOLEAN /\ phases = <<>> /\ Len(phases) = 0
      /\ phases \in Seq(PhaseRecords)
  BY DEF Init
<1>2. CASE lookups = <<Round("node", 0)>> /\ outcome = <<>>
  <2>1. /\ Round("node", 0) \in LookupRecords
        /\ Round("node", 0).key = "node" /\ Round("node", 0).from = 0
        /\ Round("node", 0).calls = 0
    BY DEF Round, LookupRecords
  <2>2. /\ lookups \in Seq(LookupRecords) /\ Len(lookups) = 1
        /\ lookups[1] = Round("node", 0)
        /\ outcome \in Seq(Outcomes) /\ Len(outcome) = 0
    BY <2>1, <1>2
  <2>3. Linked(phases, lookups, outcome)
    BY <2>1, <2>2, <1>1 DEF Linked
  <2>4. Single(phases, lookups, outcome)
    BY <2>1, <2>2, <1>1, <1>2 DEF Single
  <2> QED BY <2>2, <2>3, <2>4, <1>1 DEF PublishTypeOK, PublishInv
<1>3. CASE lookups = <<>> /\ outcome = <<[ok |-> FALSE, acks |-> 0, by |-> 0]>>
  <2> DEFINE none == [ok |-> FALSE, acks |-> 0, by |-> 0]
  <2>1. none \in Outcomes /\ ~none.ok
    BY DEF Outcomes
  <2> HIDE DEF none
  <2>2. outcome = <<none>>
    BY <1>3 DEF none
  <2>3. /\ outcome \in Seq(Outcomes) /\ Len(outcome) = 1 /\ outcome[1] = none
        /\ lookups \in Seq(LookupRecords) /\ Len(lookups) = 0
    <3>1. outcome \in Seq(Outcomes)
      BY <2>1, <2>2
    <3>2. Len(outcome) = 1 /\ outcome[1] = none
      BY <2>2, OneReport
    <3>3. lookups \in Seq(LookupRecords) /\ Len(lookups) = 0
      BY <1>3
    <3> QED BY <3>1, <3>2, <3>3
  <2>4. Linked(phases, lookups, outcome)
    <3>1. \A i \in 1..Len(outcome) : ~outcome[i].ok
      BY <2>1, <2>3
    <3>2. 1..Len(phases) = {} /\ 1..Len(lookups) = {}
      BY <2>3, <1>1
    <3> QED BY <3>1, <3>2 DEF Linked
  <2>5. Single(phases, lookups, outcome)
    BY <2>3, <1>1 DEF Single
  <2> QED BY <2>3, <2>4, <2>5, <1>1 DEF PublishTypeOK, PublishInv
<1> QED BY <1>2, <1>3 DEF Init

(* Whatever the lookups, the peers and the timers do, a publication keeps    *)
(* the types of its state, the counters and sets of each phase agree, and    *)
(* its rounds and results come from phases that reported.                    *)
THEOREM PublishInvariant == Spec => [](PublishTypeOK /\ PublishInv)
<1>1. ASSUME PublishTypeOK, PublishInv, [Next]_vars
      PROVE  PublishTypeOK' /\ PublishInv'
  <2>1. ASSUME NEW l \in 1..Len(lookups), NEW closest \in Results[alias],
               LookupEnds(l, closest)
        PROVE  PublishTypeOK' /\ PublishInv'
    <3>1. closest \in SUBSET Nodes
      BY <1>1, ResultsAssumption DEF PublishTypeOK
    <3> QED BY <1>1, <2>1, <3>1, LookupEndsKeeps
  <2>2. ASSUME NEW p \in 1..Len(phases), NEW n \in Nodes,
               \/ Send(p, n)
               \/ ConnectFails(p, n)
               \/ \E ok \in BOOLEAN : ReceiveResponse(p, n, ok)
               \/ TimerExpires(p, n)
               \/ TimerFires(p, n)
        PROVE  PublishTypeOK' /\ PublishInv'
    <3>1. CASE Send(p, n)
      BY <1>1, <3>1, SendKeeps
    <3>2. CASE ConnectFails(p, n)
      BY <1>1, <3>2, ConnectFailsKeeps
    <3>3. ASSUME NEW ok \in BOOLEAN, ReceiveResponse(p, n, ok)
          PROVE  PublishTypeOK' /\ PublishInv'
      BY <1>1, <3>3, ReceiveResponseKeeps
    <3>4. CASE TimerExpires(p, n)
      BY <1>1, <3>4, TimerExpiresKeeps
    <3>5. CASE TimerFires(p, n)
      BY <1>1, <3>5, TimerFiresKeeps
    <3> QED BY <2>2, <3>1, <3>2, <3>3, <3>4, <3>5
  <2>3. CASE UNCHANGED vars
    BY <1>1, <2>3 DEF vars, PublishTypeOK, PublishInv
  <2> QED BY <1>1, <2>1, <2>2, <2>3 DEF Next
<1> QED BY <1>1, PublishInitially, PTL DEF Spec

(* What the invariant says of the run's properties.                          *)
LEMMA PublishImplies ==
  ASSUME PublishTypeOK, PublishInv
  PROVE  ReportedOnce /\ SuccessHasQuorum /\ QuorumIsReported
<1>0. /\ phases \in Seq(PhaseRecords) /\ lookups \in Seq(LookupRecords)
      /\ outcome \in Seq(Outcomes) /\ Len(outcome) \in Nat
      /\ \A p \in 1..Len(phases) : phases[p] \in PhaseRecords /\ PhaseOK(phases[p])
  BY DEF PublishTypeOK, PublishInv
<1>1. ReportedOnce
  <2>1. \A p \in 1..Len(phases) : Len(phases[p].reports) <= 1
    BY <1>0 DEF PhaseOK, Reported
  <2>2. ASSUME Len(outcome) > 1, \A l \in 1..Len(lookups) : ~(lookups[l].calls > 1)
        PROVE  FALSE
    <3>1. \A l \in 1..Len(lookups) : lookups[l] \in LookupRecords
      BY <1>0
    <3>2. \A l \in 1..Len(lookups) : lookups[l].calls \in Nat
      BY <3>1 DEF LookupRecords
    <3>3. Once(lookups)
      BY <3>2, <2>2 DEF Once
    <3>4. Len(outcome) <= 1
      BY <3>3 DEF PublishInv, Single
    <3> QED BY <3>4, <2>2, <1>0
  <2> QED BY <2>1, <2>2 DEF ReportedOnce
<1>2. ASSUME NEW p, Good(phases, p), NEW a \in Nat, a <= phases[p].reports[1].acks
      PROVE  /\ Cardinality(phases[p].confirmed) + 1 >= RequiredQuorum(phases[p].keepers)
             /\ Cardinality(phases[p].confirmed) + 1 >= a
  <2> DEFINE r == phases[p]
  <2>1. /\ p \in 1..Len(phases) /\ r \in PhaseRecords /\ PhaseOK(r)
        /\ r.reports # <<>> /\ r.reports[1].ok /\ a <= r.reports[1].acks
    BY <1>0, <1>2 DEF Good
  <2> HIDE DEF r
  <2>2. /\ r.reports[1].acks <= r.acks
        /\ r.reports[1].acks >= RequiredQuorum(r.keepers)
        /\ r.acks = 1 + Cardinality(r.confirmed)
    BY <2>1 DEF PhaseOK, Reported, Sound
  <2>3. /\ r.acks \in Nat /\ r.keepers \in SUBSET Nodes
        /\ r.confirmed \in SUBSET Nodes
        /\ r.reports \in Seq([ok : BOOLEAN, acks : Nat])
    BY <2>1 DEF PhaseRecords
  <2>4. r.reports[1] \in [ok : BOOLEAN, acks : Nat]
    BY <2>1, <2>3, FirstOf
  <2>5. /\ r.reports[1].acks \in Nat
        /\ RequiredQuorum(r.keepers) \in Nat
        /\ Cardinality(r.confirmed) \in Nat
    BY SMTT(30), <2>3, <2>4, QuorumType, FewNodes
  <2>6. /\ Cardinality(r.confirmed) + 1 >= RequiredQuorum(r.keepers)
        /\ Cardinality(r.confirmed) + 1 >= a
    BY <2>1, <2>2, <2>3, <2>5
  <2> QED BY <2>6 DEF r
<1>3. SuccessHasQuorum
  <2> SUFFICES ASSUME NEW i \in 1..Len(outcome), outcome[i].ok,
                      NEW p \in Behind(outcome[i].by)
               PROVE  /\ Cardinality(phases[p].confirmed) + 1
                           >= RequiredQuorum(phases[p].keepers)
                      /\ Cardinality(phases[p].confirmed) + 1 >= outcome[i].acks
    BY DEF SuccessHasQuorum
  <2> DEFINE b == outcome[i].by
             f == lookups[phases[b].lookup].from
  <2>1. /\ Good(phases, b)
        /\ outcome[i].acks <= phases[b].reports[1].acks
        /\ f # 0 => outcome[i].acks <= phases[f].reports[1].acks
    BY DEF PublishInv, Linked
  <2>2. phases[b].lookup \in 1..Len(lookups)
    BY <2>1 DEF Good, PublishInv, Linked
  <2>3. f # 0 => Good(phases, f)
    BY <2>2 DEF PublishInv, Linked
  <2>4. outcome[i] \in Outcomes
    BY <1>0
  <2>5. outcome[i].acks \in Nat
    BY <2>4 DEF Outcomes
  <2>6. p = b \/ (p = f /\ f # 0)
    BY DEF Behind
  <2> HIDE DEF b, f
  <2>7. Good(phases, p) /\ outcome[i].acks <= phases[p].reports[1].acks
    BY <2>1, <2>3, <2>6
  <2> QED BY <1>2, <2>5, <2>7
<1>4. QuorumIsReported
  <2> SUFFICES ASSUME NEW p \in 1..Len(phases), Settled(p), ~phases[p].raced,
                      Cardinality(phases[p].confirmed) + 1
                        >= RequiredQuorum(phases[p].keepers)
               PROVE  phases[p].reports # <<>> /\ phases[p].reports[1].ok
    BY DEF QuorumIsReported
  <2>1. PhaseOK(phases[p]) /\ Left(phases[p]) = {} /\ phases[p] \in PhaseRecords
    BY <1>0 DEF Settled, Left
  <2>2. Cardinality(phases[p].confirmed) \in Nat
    <3>1. phases[p].confirmed \in SUBSET Nodes
      BY <2>1 DEF PhaseRecords
    <3> QED BY SMTT(30), <3>1, FewNodes
  <2>3. phases[p].acks >= RequiredQuorum(phases[p].keepers)
    BY <2>1, <2>2 DEF PhaseOK, Sound
  <2> QED BY <2>1, <2>3 DEF PhaseOK, Reported
<1> QED BY <1>1, <1>3, <1>4

(* Every phase of a publication calls back at most once, although the count  *)
(* wraps when an answer and its timer are both handled, and the callback of  *)
(* publish_self_record runs twice only if a lookup called back twice.        *)
THEOREM ReportedOnceCorrect == Spec => []ReportedOnce
BY PublishInvariant, PublishImplies, PTL

(* A publication reported to succeed has, in each of its rounds, the copies  *)
(* that the quorum asks for and as many as it reports.                       *)
THEOREM SuccessCorrect == Spec => []SuccessHasQuorum
BY PublishInvariant, PublishImplies, PTL

(* A phase that got its quorum, and in which no answer met a queued timer,   *)
(* was reported to succeed once no handler of it is left.                    *)
THEOREM QuorumCorrect == Spec => []QuorumIsReported
BY PublishInvariant, PublishImplies, PTL

=============================================================================
