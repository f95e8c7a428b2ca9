--------------------------- MODULE RepublishProofs ---------------------------
(***************************************************************************)
(* Availability and freshness of the owner's record, for any keepers, any  *)
(* number of publications, restarts and searches, and any times that leave *)
(* room for two intervals in the TTL.                                      *)
(*                                                                         *)
(* The argument follows the records that a keeper might still hold: those  *)
(* of the current run that it stores, that are under way to it or that it  *)
(* has missed.  Each number that the owner has used is among them, or was  *)
(* overtaken by what the keeper holds (Accounted); two consecutive ones    *)
(* are at most a period apart (Chain), and the timer bounds the age of the *)
(* last (Last).                                                            *)
(***************************************************************************)
EXTENDS Republish, TLAPS

\* The backends, in the order in which a leaf is given to them.
USE ZenonT(2), SMTT(10), ZenonT(20), SMTT(40)

Period == Interval + MaxLate

TypeOK ==
  /\ now \in Nat /\ up \in BOOLEAN /\ run \in Nat \ {0} /\ record_seq \in Nat
  /\ due \in Nat /\ started \in Nat /\ before \in Nat
  /\ store \in [Stores -> Record]
  /\ net \subseteq [to : Keepers, rec : Record]
  /\ lost \in [Keepers -> SUBSET Record]
  /\ searching \in BOOLEAN
  /\ answers \subseteq [rec : Record, current : BOOLEAN]
  /\ read \in Record

\* The records of the current run that keeper k holds, may get or has missed.
Known(k) == lost[k] \cup UnderWay(k) \cup {r \in {store[k]} : r.run = run}

\* No deadline has passed.
InTime ==
  /\ up => now <= due + MaxLate
  /\ due <= now + Interval
  /\ \A m \in net : now <= m.rec.issued_at + MaxDelay

\* Records of other runs have the numbers of earlier runs.
Old ==
  /\ \A k \in Keepers :
       store[k].run <= run /\ (store[k].run # run => store[k].seq <= before)
  /\ \A m \in net :
       m.rec.run <= run /\ (m.rec.run # run => m.rec.seq <= before)

Numbers == \A k \in Keepers : \A r \in Known(k) : r.run = run /\ r.seq <= record_seq

Chain ==
  \A k \in Keepers : \A p, q \in Known(k) :
    q.seq = p.seq + 1 => q.issued_at <= p.issued_at + Period

Last ==
  \A k \in Keepers : \A r \in Known(k) :
    r.seq = record_seq => due <= r.issued_at + Interval

\* The n-th record of a run is issued within n periods.
Early ==
  /\ \A k \in Keepers : \A r \in Known(k) : r.issued_at <= started + r.seq * Period
  /\ due <= started + record_seq * Period + Interval

Accounted ==
  \A k \in Keepers : \A n \in 1..record_seq :
    \/ \E r \in lost[k] \cup UnderWay(k) : r.seq = n
    \/ n <= store[k].seq
    \/ /\ store[k] = NoRecord
       /\ \A m \in net : m.to = k => m.rec.run = run /\ m.rec.seq > n

KeeperInv == TypeOK /\ InTime /\ Old /\ Numbers /\ Chain /\ Last /\ Early /\ Accounted

\* All the records that are stored, under way or read last, and the one that
\* stands for none.
Issued ==
  {NoRecord, read} \cup {store[s] : s \in Stores}
    \cup {m.rec : m \in net} \cup {a.rec : a \in answers}

\* The order of numbers and runs is the order of time.
Ordered ==
  \A p, q \in Issued :
    /\ p.run < q.run => p.issued_at <= q.issued_at
    /\ p.run = q.run /\ p.seq <= q.seq => p.issued_at <= q.issued_at

\* A record has a run and a number.
Sound(r) == r = NoRecord \/ (r.run >= 1 /\ r.seq >= 1)

NoneAhead ==
  \A r \in Issued :
    /\ Sound(r)
    /\ r.run <= run /\ r.issued_at <= now
    /\ r.run = run => r.seq <= record_seq

\* A record of the first run that was read stays in the reader's store, or a
\* newer one does, until it expires.
ReadIsCached ==
  read.run = 1 /\ IsTimeValid(read) =>
    /\ ~searching
    /\ store[Reader] # NoRecord
    /\ store[Reader].seq >= read.seq /\ store[Reader].issued_at >= read.issued_at

ReaderInv == TypeOK /\ Ordered /\ NoneAhead /\ ReadIsCached

-----------------------------------------------------------------------------

\* What the assumption on the times gives.
LEMMA PeriodFacts ==
  /\ Period \in Nat \ {0} /\ Interval \in Nat \ {0} /\ MaxLate \in Nat
  /\ MaxDelay \in Nat /\ Ttl \in Nat
  /\ Interval + MaxLate = Period
  /\ 2 * Period + MaxDelay <= Ttl
BY TimesAssumption DEF Period

\* Multiples of the period grow with their factor.
LEMMA PeriodMultiples ==
  ASSUME NEW i \in Nat, NEW j \in Nat, i <= j
  PROVE  /\ i * Period \in Nat /\ j * Period \in Nat
         /\ i * Period <= j * Period
         /\ (i + 1) * Period = i * Period + Period
<1> DEFINE d == j - i
<1>1. d \in Nat /\ j = i + d /\ Period \in Nat
  BY PeriodFacts
<1>2. j * Period = i * Period + d * Period /\ d * Period \in Nat /\ i * Period \in Nat
  BY <1>1
<1>3. (i + 1) * Period = i * Period + Period
  BY <1>1
<1> QED
  BY <1>1, <1>2, <1>3

\* The requests under way to a keeper, one by one.
LEMMA UnderWayFacts ==
  ASSUME NEW k, NEW r
  PROVE  r \in UnderWay(k) <=> \E m \in net : m.to = k /\ m.rec = r /\ r.run = run
BY DEF UnderWay

\* The record that a publication issues.
NewRecord == [run |-> run, seq |-> record_seq + 1, issued_at |-> now]

\* Every step keeps the types.
LEMMA TypeStep ==
  ASSUME TypeOK, [Next]_vars
  PROVE  TypeOK'
<1>1. NoRecord \in Record /\ NewRecord \in Record
  BY SMTT(30) DEF NoRecord, Record, TypeOK, NewRecord
<1>2. \A s, r : s \in Stores /\ r \in Record => Put(s, r) \in [Stores -> Record]
  BY DEF TypeOK, Put
<1>3. Keepers \subseteq Stores /\ Owner \in Stores /\ Reader \in Stores
  BY DEF Stores
<1>4. \A m \in net : m.to \in Keepers /\ m.rec \in Record
  BY DEF TypeOK
<1>5. \A a \in answers : a.rec \in Record
  BY DEF TypeOK
<1>6. ASSUME NEW reached \in SUBSET Keepers, PublishSelfRecord(reached),
             due' = due \/ due' = now + Interval
      PROVE  TypeOK'
  <2>1. store' \in [Stores -> Record]
    BY <1>1, <1>2, <1>3, <1>6 DEF PublishSelfRecord, NewRecord
  <2>2. net' \subseteq [to : Keepers, rec : Record]
    BY SMTT(30), <1>1, <1>6 DEF PublishSelfRecord, NewRecord, TypeOK
  <2>3. lost' \in [Keepers -> SUBSET Record]
    BY <1>1, <1>6 DEF PublishSelfRecord, NewRecord, TypeOK
  <2> QED
    BY SMTT(30), <1>6, <2>1, <2>2, <2>3, PeriodFacts DEF PublishSelfRecord, TypeOK, reader
<1>7. CASE Crash
  BY <1>1, <1>3, <1>7 DEF Crash, TypeOK, reader
<1>8. CASE Start
  BY SMTT(30), <1>8, PeriodFacts DEF Start, TypeOK, reader
<1>9. ASSUME NEW m \in net, Store(m) PROVE TypeOK'
  BY <1>2, <1>3, <1>4, <1>9 DEF Store, TypeOK, reader, owner
<1>10. ASSUME NEW m \in net, Lose(m) PROVE TypeOK'
  BY <1>4, <1>10 DEF Lose, TypeOK, reader, owner
<1>11. ASSUME NEW k \in Keepers, KeeperRestarts(k) PROVE TypeOK'
  <2>1. UnderWay(k) \subseteq Record
    BY <1>4 DEF UnderWay
  <2> QED
    BY <1>1, <1>3, <1>11, <2>1 DEF KeeperRestarts, TypeOK, reader, owner
<1>12. CASE FindLocally
  BY <1>3, <1>12 DEF FindLocally, TypeOK, owner
<1>13. CASE Find
  BY <1>13 DEF Find, TypeOK, owner
<1>14. ASSUME NEW s \in Keepers \cup {Owner}, Answer(s) PROVE TypeOK'
  <2>1. answers' = answers \cup {[rec |-> store[s], current |-> TRUE]}
    BY <1>14 DEF Answer
  <2>2. store[s] \in Record
    BY <1>3 DEF TypeOK
  <2>5. [rec |-> store[s], current |-> TRUE] \in [rec : Record, current : BOOLEAN]
    BY <2>2, Zenon
  <2>3. answers' \subseteq [rec : Record, current : BOOLEAN]
    BY <2>1, <2>5, Zenon DEF TypeOK
  <2>4. UNCHANGED <<now, owner, store, net, lost, searching, read>>
    BY <1>14 DEF Answer
  <2> QED
    BY <2>3, <2>4 DEF TypeOK, owner
<1>15. ASSUME NEW a \in answers, Receive(a) PROVE TypeOK'
  BY <1>2, <1>3, <1>5, <1>15 DEF Receive, TypeOK, owner
<1>16. CASE FindNothing
  BY <1>16 DEF FindNothing, TypeOK, owner
<1>17. CASE Tick
  BY SMTT(30), <1>17 DEF Tick, TypeOK, owner, reader
<1>18. CASE UNCHANGED vars
  BY <1>18 DEF vars, TypeOK, owner, reader
<1> QED
  BY <1>6, <1>7, <1>8, <1>9, <1>10, <1>11, <1>12, <1>13, <1>14, <1>15, <1>16,
     <1>17, <1>18 DEF Next, Publish, Republish

\* What holds of the known records of each keeper holds of fewer of them.
LEMMA KnownShrinks ==
  ASSUME KeeperInv, run' = run, record_seq' = record_seq, due' = due,
         started' = started,
         \A k \in Keepers : Known(k)' \subseteq Known(k)
  PROVE  Numbers' /\ Chain' /\ Last' /\ Early'
<1>1. Numbers'
  BY DEF KeeperInv, Numbers
<1>2. Chain'
  BY DEF KeeperInv, Chain, Period
<1>3. Last'
  BY DEF KeeperInv, Last
<1>4. Early'
  BY DEF KeeperInv, Early, Period
<1> QED
  BY <1>1, <1>2, <1>3, <1>4

\* The types of the known records.
LEMMA KnownFacts ==
  ASSUME KeeperInv, NEW k \in Keepers
  PROVE  /\ k \in Stores /\ store[k] \in Record /\ lost[k] \subseteq Record
         /\ UnderWay(k) \subseteq Record /\ Known(k) \subseteq Record
         /\ \A r \in Known(k) : r.seq \in Nat /\ r.issued_at \in Nat /\ r.run \in Nat
<1>1. k \in Stores /\ store[k] \in Record /\ lost[k] \subseteq Record
  BY DEF KeeperInv, TypeOK, Stores
<1>2. UnderWay(k) \subseteq Record
  BY DEF KeeperInv, TypeOK, UnderWay
<1>3. Known(k) \subseteq Record
  BY <1>1, <1>2 DEF Known
<1> QED
  BY <1>1, <1>2, <1>3 DEF Record

\* A publication adds its record to the known ones of every keeper.
LEMMA PublishStep ==
  ASSUME KeeperInv, TypeOK', NEW reached \in SUBSET Keepers,
         PublishSelfRecord(reached),
         due' = due \/ (now >= due /\ due' = now + Interval)
  PROVE  KeeperInv'
<1> DEFINE r == NewRecord
<1>1. /\ up /\ record_seq' = record_seq + 1 /\ store' = Put(Owner, r)
      /\ net' = net \cup {[to |-> k, rec |-> r] : k \in reached}
      /\ lost' = [k \in Keepers |-> IF k \in reached THEN lost[k] ELSE lost[k] \cup {r}]
      /\ UNCHANGED <<now, up, run, started, before, reader>>
  BY DEF PublishSelfRecord, NewRecord
<1>2. r.run = run /\ r.seq = record_seq + 1 /\ r.issued_at = now
  BY DEF NewRecord
<1>3. \A k \in Keepers : store'[k] = store[k]
  BY SMTT(30), <1>1, NodesAssumption DEF Put, KeeperInv, TypeOK
<1>4. now \in Nat /\ due \in Nat /\ due' \in Nat /\ record_seq \in Nat /\ started \in Nat
  BY DEF KeeperInv, TypeOK
<1>5. ASSUME NEW k \in Keepers
      PROVE  /\ lost'[k] \cup UnderWay(k)' = lost[k] \cup UnderWay(k) \cup {r}
             /\ Known(k)' = Known(k) \cup {r}
  <2>3. \A x : x \in UnderWay(k)' <=> \E m \in net' : m.to = k /\ m.rec = x /\ x.run = run'
    BY DEF UnderWay
  <2>4. \A x : x \in UnderWay(k) <=> \E m \in net : m.to = k /\ m.rec = x /\ x.run = run
    BY DEF UnderWay
  <2>5. \A m : m \in net' <=> m \in net \/ \E j \in reached : m = [to |-> j, rec |-> r]
    BY <1>1
  <2>1. UnderWay(k)' = IF k \in reached THEN UnderWay(k) \cup {r} ELSE UnderWay(k)
    <3>1. \A x \in UnderWay(k) : x \in UnderWay(k)'
      BY <1>1, <2>3, <2>4, <2>5
    <3>2. k \in reached => r \in UnderWay(k)'
      <4>1. [to |-> k, rec |-> r].to = k /\ [to |-> k, rec |-> r].rec = r
        OBVIOUS
      <4>2. k \in reached => [to |-> k, rec |-> r] \in net'
        BY <2>5
      <4> QED
        BY <1>1, <1>2, <2>3, <4>1, <4>2
    <3>3. \A x \in UnderWay(k)' : x \in UnderWay(k) \/ (x = r /\ k \in reached)
      BY SMTT(30), <1>1, <2>3, <2>4, <2>5
    <3> HIDE DEF r
    <3> QED
      BY <3>1, <3>2, <3>3
  <2>2. lost'[k] = IF k \in reached THEN lost[k] ELSE lost[k] \cup {r}
    BY <1>1
  <2> QED
    BY <1>1, <1>3, <2>1, <2>2 DEF Known
<1>6. now <= due + MaxLate /\ due <= now + Interval
  BY <1>1 DEF KeeperInv, InTime
<1>7. InTime'
  <2>1. \A m \in net' : now' <= m.rec.issued_at + MaxDelay
    BY SMTT(30), <1>1, <1>2, <1>4, PeriodFacts DEF KeeperInv, InTime
  <2>2. now <= due' + MaxLate /\ due' <= now + Interval
    <3>1. CASE due' = due
      BY <1>6, <3>1
    <3>2. CASE due' = now + Interval
      BY <1>4, <3>2, PeriodFacts
    <3> QED
      BY <3>1, <3>2
  <2> QED
    BY <1>1, <2>1, <2>2 DEF InTime
<1>8. Old'
  BY SMTT(30), <1>1, <1>2, <1>3 DEF KeeperInv, Old, TypeOK
<1>9. Numbers'
  BY SMTT(30), <1>1, <1>2, <1>4, <1>5, KnownFacts DEF KeeperInv, Numbers
<1>10. Chain'
  <2> SUFFICES ASSUME NEW k \in Keepers, NEW p \in Known(k)', NEW q \in Known(k)',
                      q.seq = p.seq + 1
               PROVE  q.issued_at <= p.issued_at + Period
    BY DEF Chain, Period
  <2>1. \A x \in Known(k) : x.seq \in Nat /\ x.issued_at \in Nat /\ x.seq <= record_seq
    BY KnownFacts DEF KeeperInv, Numbers
  <2>2. CASE p \in Known(k) /\ q \in Known(k)
    BY <2>2 DEF KeeperInv, Chain
  <2>3. CASE q = r /\ p \in Known(k)
    <3>1. p.seq = record_seq
      BY <1>2, <1>4, <2>1, <2>3
    <3>2. due <= p.issued_at + Interval
      BY <2>3, <3>1 DEF KeeperInv, Last
    <3> QED
      BY <1>2, <1>4, <1>6, <2>1, <2>3, <3>2, PeriodFacts
  <2>4. p # r
    BY <1>2, <1>4, <1>5, <2>1
  <2> QED
    BY <1>5, <2>2, <2>3, <2>4
<1>11. Last'
  <2>1. due' <= now + Interval
    BY <1>4, <1>6, PeriodFacts
  <2> QED
    BY SMTT(30), <1>1, <1>2, <1>4, <1>5, <2>1, KnownFacts DEF KeeperInv, Last, Numbers
<1>12. Early'
  <2>1. (record_seq + 1) * Period = record_seq * Period + Period /\ record_seq * Period \in Nat
    BY SMTT(30), <1>4, PeriodMultiples
  <2>2. due <= started + record_seq * Period + Interval
    BY DEF KeeperInv, Early
  <2>3. r.issued_at <= started + r.seq * Period
    BY <1>2, <1>4, <1>6, <2>1, <2>2, PeriodFacts
  <2>4. due' <= started + (record_seq + 1) * Period + Interval
    BY <1>4, <1>6, <2>1, <2>2, PeriodFacts
  <2> QED
    BY SMTT(30), <1>1, <1>5, <2>3, <2>4 DEF KeeperInv, Early, Period
<1>13. Accounted'
  <2> SUFFICES ASSUME NEW k \in Keepers, NEW n \in 1..record_seq'
               PROVE  \/ \E x \in lost'[k] \cup UnderWay(k)' : x.seq = n
                      \/ n <= store'[k].seq
                      \/ /\ store'[k] = NoRecord
                         /\ \A m \in net' : m.to = k => m.rec.run = run' /\ m.rec.seq > n
    BY DEF Accounted
  <2>1. CASE n = record_seq + 1
    BY <1>2, <1>5, <2>1
  <2>2. CASE n \in 1..record_seq
    BY SMTT(30), <1>1, <1>2, <1>3, <1>4, <1>5, <2>2 DEF KeeperInv, Accounted
  <2> QED
    BY SMTT(30), <1>1, <1>4, <2>1, <2>2
<1> QED
  BY <1>7, <1>8, <1>9, <1>10, <1>11, <1>12, <1>13 DEF KeeperInv

\* A restart leaves no record of the current run.
LEMMA StartStep ==
  ASSUME KeeperInv, TypeOK', Start
  PROVE  KeeperInv'
<1>1. /\ run' = run + 1 /\ record_seq' = 0 /\ started' = now /\ due' = now + Interval
      /\ before' = IF record_seq > before THEN record_seq ELSE before
      /\ lost' = [k \in Keepers |-> {}]
      /\ now' = now /\ store' = store /\ net' = net
  BY DEF Start
<1>2. /\ now \in Nat /\ run \in Nat /\ record_seq \in Nat /\ before \in Nat
      /\ \A m \in net : m.to \in Keepers /\ m.rec.run \in Nat /\ m.rec.seq \in Nat
      /\ \A k \in Keepers : store[k].run \in Nat /\ store[k].seq \in Nat
  BY DEF KeeperInv, TypeOK, Stores, Record
<1>3. \A k \in Keepers : Known(k)' = {}
  BY <1>1, <1>2 DEF Known, UnderWay, KeeperInv, Old
<1>4. InTime'
  BY <1>1, <1>2, PeriodFacts DEF KeeperInv, InTime
<1>5. Old'
  <2>1. ASSUME NEW k \in Keepers PROVE store[k].seq <= before'
    <3>1. CASE store[k].run = run
      <4>1. store[k] \in Known(k)
        BY <3>1 DEF Known
      <4> QED
        BY <1>1, <1>2, <4>1 DEF KeeperInv, Numbers
    <3> QED
      BY <1>1, <1>2, <3>1 DEF KeeperInv, Old
  <2>2. ASSUME NEW m \in net PROVE m.rec.seq <= before'
    <3>1. CASE m.rec.run = run
      <4>1. m.rec \in Known(m.to)
        BY <3>1 DEF Known, UnderWay
      <4> QED
        BY <1>1, <1>2, <4>1 DEF KeeperInv, Numbers
    <3> QED
      BY <1>1, <1>2, <3>1 DEF KeeperInv, Old
  <2> QED
    BY <1>1, <1>2, <2>1, <2>2 DEF KeeperInv, Old
<1>6. Numbers' /\ Chain' /\ Last'
  BY <1>3 DEF Numbers, Chain, Last
<1>7. Early'
  <2>1. 0 * Period = 0
    BY PeriodFacts
  <2> QED
    BY <1>1, <1>2, <1>3, <2>1, PeriodFacts DEF Early, Period
<1>8. Accounted'
  BY SMTT(30), <1>1 DEF Accounted
<1> QED
  BY <1>4, <1>5, <1>6, <1>7, <1>8 DEF KeeperInv

\* A request under way that arrives is the keeper's record or is overtaken.
LEMMA StoreStep ==
  ASSUME KeeperInv, TypeOK', NEW m \in net, Store(m)
  PROVE  KeeperInv'
<1>1. /\ net' = net \ {m} /\ store' = Put(m.to, m.rec) /\ lost' = lost
      /\ UNCHANGED <<now, up, run, record_seq, due, started, before>>
  BY DEF Store, owner
<1>2. /\ m.to \in Keepers /\ m.to \in Stores /\ m.rec \in Record
      /\ m.rec.seq \in Nat /\ m.rec.issued_at \in Nat /\ now \in Nat
      /\ \A k \in Keepers : store[k] \in Record /\ store[k].seq \in Nat
  BY DEF KeeperInv, TypeOK, Stores, Record
<1>3. IsTimeValid(m.rec)
  BY <1>2, PeriodFacts DEF KeeperInv, InTime, IsTimeValid
<1>4. /\ \A k \in Keepers : k # m.to => store'[k] = store[k]
      /\ store'[m.to] = IF m.rec.seq > store[m.to].seq THEN m.rec ELSE store[m.to]
  BY SMTT(30), <1>1, <1>2, <1>3 DEF Put, Takes, KeeperInv, TypeOK
<1>5. ASSUME NEW k \in Keepers
      PROVE  /\ UnderWay(k)' \subseteq UnderWay(k)
             /\ \A x \in UnderWay(k) : x \in UnderWay(k)' \/ (k = m.to /\ x = m.rec)
             /\ m.rec.run = run => m.rec \in UnderWay(m.to)
  BY <1>1, <1>2 DEF UnderWay
<1>6. \A k \in Keepers : Known(k)' \subseteq Known(k)
  BY <1>1, <1>2, <1>4, <1>5 DEF Known
<1>7. Numbers' /\ Chain' /\ Last' /\ Early'
  BY <1>1, <1>6, KnownShrinks
<1>8. InTime'
  BY <1>1 DEF KeeperInv, InTime
<1>9. Old'
  BY <1>1, <1>2, <1>4 DEF KeeperInv, Old
<1>10. Accounted'
  <2> SUFFICES ASSUME NEW k \in Keepers, NEW n \in 1..record_seq
               PROVE  \/ \E x \in lost'[k] \cup UnderWay(k)' : x.seq = n
                      \/ n <= store'[k].seq
                      \/ /\ store'[k] = NoRecord
                         /\ \A y \in net' : y.to = k => y.rec.run = run' /\ y.rec.seq > n
    BY <1>1 DEF Accounted
  <2>1. store'[k].seq \in Nat /\ store'[k].seq >= store[k].seq
    BY <1>2, <1>4
  <2>2. k = m.to => store'[k].seq >= m.rec.seq
    BY <1>2, <1>4
  <2>3. CASE \E x \in lost[k] \cup UnderWay(k) : x.seq = n
    BY <1>1, <1>5, <2>2, <2>3
  <2>4. CASE n <= store[k].seq
    BY <1>2, <2>1, <2>4
  <2>5. CASE /\ store[k] = NoRecord
             /\ \A y \in net : y.to = k => y.rec.run = run /\ y.rec.seq > n
    <3>1. CASE k = m.to
      BY <1>2, <2>1, <2>2, <2>5, <3>1
    <3>2. CASE k # m.to
      BY <1>1, <1>4, <2>5, <3>2
    <3> QED
      BY <3>1, <3>2
  <2> QED
    BY <2>3, <2>4, <2>5 DEF KeeperInv, Accounted
<1> QED
  BY <1>7, <1>8, <1>9, <1>10 DEF KeeperInv

\* A request that is lost counts as missed.
LEMMA LoseStep ==
  ASSUME KeeperInv, TypeOK', NEW m \in net, Lose(m)
  PROVE  KeeperInv'
<1>1. /\ net' = net \ {m} /\ store' = store
      /\ lost' = IF m.rec.run = run THEN [lost EXCEPT ![m.to] = @ \cup {m.rec}] ELSE lost
      /\ UNCHANGED <<now, up, run, record_seq, due, started, before>>
  BY DEF Lose, owner
<1>2. m.to \in Keepers
  BY DEF KeeperInv, TypeOK
<1>3. ASSUME NEW k \in Keepers
      PROVE  lost'[k] \cup UnderWay(k)' = lost[k] \cup UnderWay(k)
  <2>1. /\ UnderWay(k)' \subseteq UnderWay(k)
        /\ \A x \in UnderWay(k) :
             x \in UnderWay(k)' \/ (k = m.to /\ x = m.rec /\ m.rec.run = run)
        /\ m.rec.run = run => m.rec \in UnderWay(m.to)
    BY <1>1, <1>2 DEF UnderWay
  <2>2. lost'[k] = IF m.rec.run = run /\ k = m.to THEN lost[k] \cup {m.rec} ELSE lost[k]
    BY <1>1, <1>2 DEF KeeperInv, TypeOK
  <2> QED
    BY <2>1, <2>2
<1>4. \A k \in Keepers : Known(k)' \subseteq Known(k)
  BY <1>1, <1>3 DEF Known
<1>5. Numbers' /\ Chain' /\ Last' /\ Early'
  BY <1>1, <1>4, KnownShrinks
<1>6. InTime' /\ Old'
  BY <1>1 DEF KeeperInv, InTime, Old
<1>7. Accounted'
  BY SMTT(30), <1>1, <1>3 DEF KeeperInv, Accounted
<1> QED
  BY <1>5, <1>6, <1>7 DEF KeeperInv

\* A keeper that restarts has missed what was under way to it.
LEMMA KeeperRestartsStep ==
  ASSUME KeeperInv, TypeOK', NEW j \in Keepers, KeeperRestarts(j)
  PROVE  KeeperInv'
<1>1. /\ net' = {m \in net : m.to # j} /\ store' = [store EXCEPT ![j] = NoRecord]
      /\ lost' = [lost EXCEPT ![j] = @ \cup UnderWay(j)]
      /\ UNCHANGED <<now, up, run, record_seq, due, started, before>>
  BY DEF KeeperRestarts, owner
<1>2. /\ \A k \in Keepers : store'[k] = IF k = j THEN NoRecord ELSE store[k]
      /\ \A k \in Keepers : lost'[k] = IF k = j THEN lost[k] \cup UnderWay(k) ELSE lost[k]
  BY <1>1 DEF KeeperInv, TypeOK, Stores
<1>3. \A k \in Keepers : UnderWay(k)' = IF k = j THEN {} ELSE UnderWay(k)
  BY <1>1 DEF UnderWay
<1>4. NoRecord.run # run /\ NoRecord.run <= run /\ NoRecord.seq <= before
  BY SMTT(30) DEF NoRecord, KeeperInv, TypeOK
<1>5. \A k \in Keepers : Known(k)' \subseteq Known(k)
  BY <1>1, <1>2, <1>3, <1>4 DEF Known
<1>6. Numbers' /\ Chain' /\ Last' /\ Early'
  BY <1>1, <1>5, KnownShrinks
<1>7. InTime'
  BY <1>1 DEF KeeperInv, InTime
<1>8. Old'
  BY <1>1, <1>2, <1>4 DEF KeeperInv, Old
<1>9. Accounted'
  BY SMTT(30), <1>1, <1>2, <1>3 DEF KeeperInv, Accounted
<1> QED
  BY <1>6, <1>7, <1>8, <1>9 DEF KeeperInv

\* Steps that leave the keepers and what they may get alone.
LEMMA QuietStep ==
  ASSUME KeeperInv, TypeOK', InTime',
         UNCHANGED <<run, record_seq, due, started, before, net, lost>>,
         \A k \in Keepers : store'[k] = store[k]
  PROVE  KeeperInv'
<1>1. \A k \in Keepers : UnderWay(k)' = UnderWay(k) /\ Known(k)' = Known(k)
  BY DEF UnderWay, Known
<1>2. Numbers' /\ Chain' /\ Last' /\ Early'
  BY <1>1, KnownShrinks
<1>3. Old'
  BY DEF KeeperInv, Old
<1>4. Accounted'
  BY SMTT(30), <1>1 DEF KeeperInv, Accounted
<1> QED
  BY <1>2, <1>3, <1>4 DEF KeeperInv

\* The keepers' invariant is inductive.
LEMMA KeeperStep ==
  ASSUME KeeperInv, [Next]_vars
  PROVE  KeeperInv'
<1> USE DEF owner, reader
<1>1. TypeOK'
  BY TypeStep DEF KeeperInv
<1>2. ASSUME NEW reached \in SUBSET Keepers, Publish(reached) \/ Republish(reached)
      PROVE  KeeperInv'
  BY <1>1, <1>2, PublishStep DEF Publish, Republish
<1>3. ASSUME UNCHANGED <<now, due, net>>, up' => up
      PROVE  InTime'
  BY <1>3 DEF KeeperInv, InTime
<1>4. \A s, r : s \notin Keepers => \A k \in Keepers : Put(s, r)[k] = store[k]
  BY DEF Put, KeeperInv, TypeOK, Stores
<1>5. CASE Crash
  <2>1. \A k \in Keepers : store'[k] = store[k]
    BY <1>5, NodesAssumption DEF Crash, KeeperInv, TypeOK, Stores
  <2> QED
    BY <1>1, <1>3, <1>5, <2>1, QuietStep DEF Crash
<1>6. CASE Start
  BY <1>1, <1>6, StartStep
<1>7. ASSUME NEW m \in net, Store(m) \/ Lose(m) PROVE KeeperInv'
  BY <1>1, <1>7, StoreStep, LoseStep
<1>8. ASSUME NEW k \in Keepers, KeeperRestarts(k) PROVE KeeperInv'
  BY <1>1, <1>8, KeeperRestartsStep
<1>9. CASE FindLocally \/ Find \/ (\E s \in Keepers \cup {Owner} : Answer(s)) \/ FindNothing
  BY <1>1, <1>3, <1>9, QuietStep DEF FindLocally, Find, Answer, FindNothing
<1>10. ASSUME NEW a \in answers, Receive(a) PROVE KeeperInv'
  BY <1>1, <1>3, <1>4, <1>10, QuietStep, NodesAssumption DEF Receive
<1>11. CASE Tick
  <2>1. InTime'
    BY SMTT(30), <1>11, PeriodFacts DEF Tick, KeeperInv, TypeOK, InTime, Record
  <2> QED
    BY <1>1, <1>11, <2>1, QuietStep DEF Tick
<1>12. CASE UNCHANGED vars
  BY <1>1, <1>3, <1>12, QuietStep DEF vars
<1> QED
  BY <1>2, <1>5, <1>6, <1>7, <1>8, <1>9, <1>10, <1>11, <1>12 DEF Next

\* The initial state has the types.
LEMMA TypeInit ==
  ASSUME Init
  PROVE  TypeOK
<1>1. NoRecord \in Record
  BY DEF NoRecord, Record
<1>2. up \in BOOLEAN /\ searching \in BOOLEAN
  BY DEF Init
<1>3. store \in [Stores -> Record] /\ lost \in [Keepers -> SUBSET Record]
  BY <1>1 DEF Init
<1>4. net \subseteq [to : Keepers, rec : Record] /\ read \in Record
  BY <1>1 DEF Init
<1>5. answers \subseteq [rec : Record, current : BOOLEAN]
  BY DEF Init
<1>6. /\ now \in Nat /\ run \in Nat \ {0} /\ record_seq \in Nat
      /\ due \in Nat /\ started \in Nat /\ before \in Nat
  BY PeriodFacts DEF Init
<1> QED
  BY <1>2, <1>3, <1>4, <1>5, <1>6 DEF TypeOK

\* And the keepers' invariant: nothing is published yet.
LEMMA KeeperInit ==
  ASSUME Init
  PROVE  KeeperInv
<1>1. TypeOK
  BY TypeInit
<1>2. \A k \in Keepers : store[k] = NoRecord /\ Known(k) = {}
  BY DEF Init, Known, UnderWay, Stores, NoRecord
<1>3. InTime
  BY PeriodFacts DEF Init, InTime
<1>4. Old
  BY SMTT(30), <1>2 DEF Init, Old, NoRecord
<1>5. Numbers /\ Chain /\ Last
  BY <1>2 DEF Numbers, Chain, Last
<1>6. Early
  <2>1. 0 * Period = 0
    BY PeriodFacts
  <2> QED
    BY <1>2, <2>1, PeriodFacts DEF Init, Early
<1>7. Accounted
  BY DEF Init, Accounted
<1> QED
  BY <1>1, <1>3, <1>4, <1>5, <1>6, <1>7 DEF KeeperInv

\* A request under way is young, and the next number is in time.
LEMMA NextInTime ==
  ASSUME KeeperInv, up, NEW k \in Keepers, NEW p \in Known(k)
  PROVE  \/ now <= p.issued_at + Period
         \/ \E q \in lost[k] \cup UnderWay(k) :
              q.seq = p.seq + 1 /\ q.issued_at <= p.issued_at + Period
         \/ p.seq + 1 <= store[k].seq \/ store[k] = NoRecord
<1>1. /\ p.seq \in Nat /\ p.issued_at \in Nat /\ p.seq <= record_seq
      /\ now \in Nat /\ due \in Nat /\ record_seq \in Nat
  BY KnownFacts DEF KeeperInv, Numbers, TypeOK
<1>2. CASE p.seq = record_seq
  <2>1. due <= p.issued_at + Interval /\ now <= due + MaxLate
    BY <1>2 DEF KeeperInv, Last, InTime
  <2> QED
    BY <1>1, <2>1, PeriodFacts
<1>3. CASE p.seq < record_seq
  <2>1. p.seq + 1 \in 1..record_seq
    BY <1>1, <1>3
  <2>2. \A q \in lost[k] \cup UnderWay(k) : q \in Known(k)
    BY DEF Known
  <2> QED
    BY <2>1, <2>2 DEF KeeperInv, Accounted, Chain
<1> QED
  BY <1>1, <1>2, <1>3

\* A keeper with a record of this run and at most one miss serves it.
LEMMA KeptFromInv ==
  ASSUME KeeperInv
  PROVE  KeptThroughOneLoss
<1> SUFFICES ASSUME NEW k \in Keepers, up, store[k].run = run,
                    \A p, q \in lost[k] :
                      p.seq > store[k].seq /\ q.seq > store[k].seq => p = q
             PROVE  Has(k)
  BY DEF KeptThroughOneLoss
<1> DEFINE s == store[k]
<1>1. /\ s \in Known(k) /\ s \in Record /\ s # NoRecord /\ now \in Nat
      /\ s.seq \in Nat /\ s.issued_at \in Nat
  <2>1. s \in Known(k)
    BY DEF Known
  <2>2. run # 0 /\ now \in Nat
    BY DEF KeeperInv, TypeOK
  <2>3. s # NoRecord
    BY <2>2 DEF NoRecord
  <2> QED
    BY <2>1, <2>2, <2>3, KnownFacts
<1>2. \A r \in lost[k] \cup UnderWay(k) :
        r \in Known(k) /\ r.seq \in Nat /\ r.issued_at \in Nat
  BY KnownFacts DEF Known
<1>3. \A r \in UnderWay(k) : now <= r.issued_at + MaxDelay
  BY DEF UnderWay, KeeperInv, InTime
<1>4. CASE now <= s.issued_at + Period
  BY <1>1, <1>4, PeriodFacts DEF Has, IsTimeValid
<1>5. CASE \E p \in lost[k] \cup UnderWay(k) :
             p.seq = s.seq + 1 /\ p.issued_at <= s.issued_at + Period
  <2>1. PICK p \in lost[k] \cup UnderWay(k) :
          p.seq = s.seq + 1 /\ p.issued_at <= s.issued_at + Period
    BY <1>5
  <2>2. CASE now <= p.issued_at + Period \/ p \in UnderWay(k)
    BY <1>1, <1>2, <1>3, <2>1, <2>2, PeriodFacts DEF Has, IsTimeValid
  <2>3. CASE \E q \in lost[k] \cup UnderWay(k) :
               q.seq = p.seq + 1 /\ q.issued_at <= p.issued_at + Period
    <3>1. PICK q \in lost[k] \cup UnderWay(k) :
            q.seq = p.seq + 1 /\ q.issued_at <= p.issued_at + Period
      BY <2>3
    <3>2. CASE q \in UnderWay(k)
      BY <1>1, <1>2, <1>3, <2>1, <3>1, <3>2, PeriodFacts DEF Has, IsTimeValid
    <3>3. ~(p \in lost[k] /\ q \in lost[k])
      BY <1>1, <1>2, <2>1, <3>1
    <3> QED
      BY <2>1, <2>2, <3>1, <3>2, <3>3
  <2>4. p \in Known(k) /\ p.seq \in Nat /\ ~(p.seq + 1 <= s.seq)
    BY <1>1, <1>2, <2>1
  <2>5. \/ now <= p.issued_at + Period
        \/ \E q \in lost[k] \cup UnderWay(k) :
             q.seq = p.seq + 1 /\ q.issued_at <= p.issued_at + Period
    BY <1>1, <2>4, NextInTime
  <2> QED
    BY <2>2, <2>3, <2>5
<1> QED
  BY <1>1, <1>4, <1>5, NextInTime

\* After enough publications a keeper that misses nothing has a record of
\* this run.
LEMMA OutageFromInv ==
  ASSUME KeeperInv
  PROVE  OutageBounded
<1> SUFFICES ASSUME NEW k \in Keepers, up, store[k] # NoRecord, lost[k] = {},
                    now > started + (before + 1) * Period + MaxDelay
             PROVE  Has(k)
  BY DEF OutageBounded, Period
<1> DEFINE n == before + 1
<1>1. /\ now \in Nat /\ started \in Nat /\ before \in Nat /\ due \in Nat
      /\ record_seq \in Nat /\ store[k].seq \in Nat /\ n \in Nat
  BY SMTT(30), KnownFacts DEF KeeperInv, TypeOK, Record
<1>2. n * Period \in Nat /\ record_seq * Period \in Nat
  BY SMTT(30), <1>1, PeriodMultiples
<1>3. n <= record_seq
  <2>1. due <= started + record_seq * Period + Interval /\ now <= due + MaxLate
    BY DEF KeeperInv, Early, InTime
  <2>2. (record_seq + 1) * Period = record_seq * Period + Period
    BY SMTT(30), <1>1, PeriodMultiples
  <2>3. ASSUME record_seq + 1 <= n PROVE FALSE
    <3>1. (record_seq + 1) * Period <= n * Period
      BY SMTT(30), <1>1, <2>3, PeriodMultiples
    <3> QED
      BY <1>1, <1>2, <2>1, <2>2, <3>1, PeriodFacts
  <2> QED
    BY <1>1, <2>3
<1>4. ASSUME NEW r \in UnderWay(k), r.seq = n PROVE FALSE
  <2>1. r \in Known(k) /\ r.issued_at \in Nat
    BY KnownFacts DEF Known
  <2>2. r.issued_at <= started + n * Period
    BY <1>4, <2>1 DEF KeeperInv, Early
  <2>3. now <= r.issued_at + MaxDelay
    BY DEF UnderWay, KeeperInv, InTime
  <2> QED
    BY <1>1, <1>2, <2>1, <2>2, <2>3, PeriodFacts
<1>5. n <= store[k].seq
  BY <1>1, <1>3, <1>4 DEF KeeperInv, Accounted
<1>6. store[k].run = run
  BY <1>1, <1>5 DEF KeeperInv, Old
<1> QED
  BY <1>6, KeptFromInv DEF KeptThroughOneLoss

\* A keeper that holds a record of the owner's current run and has missed at
\* most one later publication serves a valid record: the republish interval of
\* at most half the TTL tolerates one loss.
THEOREM KeptCorrect == Spec => []KeptThroughOneLoss
<1>1. Init => KeeperInv
  BY KeeperInit
<1>2. KeeperInv /\ [Next]_vars => KeeperInv'
  BY KeeperStep
<1>3. KeeperInv => KeptThroughOneLoss
  BY KeptFromInv
<1> QED
  BY <1>1, <1>2, <1>3, PTL DEF Spec

\* After a restart of the owner, which uses its numbers again, a keeper that
\* misses nothing serves its record once more publications were due than the
\* owner had made before.
THEOREM OutageCorrect == Spec => []OutageBounded
<1>1. Init => KeeperInv
  BY KeeperInit
<1>2. KeeperInv /\ [Next]_vars => KeeperInv'
  BY KeeperStep
<1>3. KeeperInv => OutageBounded
  BY OutageFromInv
<1> QED
  BY <1>1, <1>2, <1>3, PTL DEF Spec

-----------------------------------------------------------------------------

\* Whatever a node stores, sends or has read is a record or nothing.
LEMMA IssuedAreRecords ==
  ASSUME TypeOK
  PROVE  Issued \subseteq Record
<1>1. NoRecord \in Record
  BY DEF NoRecord, Record
<1>2. /\ read \in Record
      /\ \A s \in Stores : store[s] \in Record
      /\ \A m \in net : m.rec \in Record
      /\ \A a \in answers : a.rec \in Record
  BY DEF TypeOK
<1> QED
  BY <1>1, <1>2 DEF Issued

\* What holds of all records holds of fewer of them.
LEMMA IssuedShrinks ==
  ASSUME ReaderInv, TypeOK', Issued' \subseteq Issued,
         run' >= run, now' >= now, run' = run => record_seq' >= record_seq
  PROVE  Ordered' /\ NoneAhead'
<1>1. Ordered'
  BY DEF ReaderInv, Ordered
<1>2. Issued \subseteq Record
  BY IssuedAreRecords DEF ReaderInv
<1>3. NoneAhead'
  BY SMTT(30), <1>2 DEF ReaderInv, NoneAhead, Sound, TypeOK, Record
<1> QED
  BY <1>1, <1>3

\* A publication issues the newest record.
LEMMA IssuedGrows ==
  ASSUME ReaderInv, TypeOK', NEW reached \in SUBSET Keepers, PublishSelfRecord(reached)
  PROVE  Ordered' /\ NoneAhead'
<1>1. /\ record_seq' = record_seq + 1 /\ store' = Put(Owner, NewRecord)
      /\ net' = net \cup {[to |-> k, rec |-> NewRecord] : k \in reached}
      /\ UNCHANGED <<now, run, answers, read>>
  BY DEF PublishSelfRecord, NewRecord, reader
<1>2. NewRecord.run = run /\ NewRecord.seq = record_seq + 1 /\ NewRecord.issued_at = now
  BY DEF NewRecord
<1>3. Issued' \subseteq Issued \cup {NewRecord}
  <2>1. \A s \in Stores : store'[s] \in {store[s], NewRecord}
    BY <1>1 DEF Put, ReaderInv, TypeOK
  <2>2. ASSUME NEW m \in net' PROVE m \in net \/ m.rec = NewRecord
    <3>1. m \in net \/ \E k \in reached : m = [to |-> k, rec |-> NewRecord]
      BY <1>1
    <3> QED
      BY <3>1
  <2> QED
    BY <1>1, <2>1, <2>2 DEF Issued
<1>4. \A r \in Issued : r.run \in Nat /\ r.seq \in Nat /\ r.issued_at \in Nat
  <2>1. Issued \subseteq Record
    BY IssuedAreRecords DEF ReaderInv
  <2> QED
    BY <2>1 DEF Record
<1>5. run \in Nat \ {0} /\ record_seq \in Nat /\ now \in Nat
  BY DEF ReaderInv, TypeOK
<1>6. Ordered'
  <2> SUFFICES ASSUME NEW p \in Issued', NEW q \in Issued',
                      p.run < q.run \/ (p.run = q.run /\ p.seq <= q.seq)
               PROVE  p.issued_at <= q.issued_at
    BY DEF Ordered
  <2>1. CASE p \in Issued /\ q \in Issued
    BY <2>1 DEF ReaderInv, Ordered
  <2>2. CASE q = NewRecord
    BY SMTT(30), <1>2, <1>3, <1>4, <1>5, <2>2 DEF ReaderInv, NoneAhead
  <2>3. CASE p = NewRecord /\ q \in Issued
    BY <1>2, <1>4, <1>5, <2>3 DEF ReaderInv, NoneAhead
  <2> QED
    BY <1>3, <2>1, <2>2, <2>3
<1>7. NoneAhead'
  <2>1. ASSUME NEW r \in Issued PROVE Sound(r) /\ r.run <= run' /\ r.issued_at <= now'
                                       /\ (r.run = run' => r.seq <= record_seq')
    BY <1>1, <1>4, <1>5 DEF ReaderInv, NoneAhead
  <2>2. Sound(NewRecord) /\ NewRecord.run <= run' /\ NewRecord.issued_at <= now'
                         /\ NewRecord.seq <= record_seq'
    BY <1>1, <1>2, <1>5 DEF Sound
  <2>3. \A r \in Issued' : r \in Issued \/ r = NewRecord
    BY <1>3
  <2>4. \A r : Sound(r)' <=> Sound(r)
    BY DEF Sound
  <2> QED
    BY <2>1, <2>2, <2>3, <2>4 DEF NoneAhead
<1> QED
  BY <1>6, <1>7

\* A step that stores, sends, answers with and reads only records that were
\* there before.
NothingIssued ==
  /\ \A s \in Stores : store'[s] \in Issued
  /\ \A m \in net' : m \in net
  /\ \A a \in answers' : a.rec \in Issued
  /\ read' \in Issued
  /\ run' >= run /\ now' >= now /\ (run' = run => record_seq' >= record_seq)

\* Such a step, of any handler but the publication, keeps the order.
LEMMA IssuedFrom ==
  ASSUME ReaderInv, TypeOK', NothingIssued
  PROVE  Ordered' /\ NoneAhead'
<1>1. NoRecord \in Issued /\ \A m \in net : m.rec \in Issued
  BY DEF Issued
<1>2. Issued' \subseteq Issued
  BY <1>1 DEF NothingIssued, Issued
<1> QED
  BY <1>2, IssuedShrinks DEF NothingIssued

\* Where the records of each step come from.
LEMMA IssuedStep ==
  ASSUME ReaderInv, [Next]_vars
  PROVE  TypeOK' /\ Ordered' /\ NoneAhead'
<1>1. TypeOK'
  BY TypeStep DEF ReaderInv
<1>2. ASSUME NEW reached \in SUBSET Keepers, Publish(reached) \/ Republish(reached)
      PROVE  Ordered' /\ NoneAhead'
  BY <1>1, <1>2, IssuedGrows DEF Publish, Republish
<1>3. now \in Nat /\ run \in Nat /\ record_seq \in Nat
  BY DEF ReaderInv, TypeOK
<1>4. /\ NoRecord \in Issued /\ read \in Issued
      /\ \A s \in Stores : store[s] \in Issued
      /\ \A m \in net : m.rec \in Issued
      /\ \A a \in answers : a.rec \in Issued
  BY DEF Issued
<1>5. \A s \in Stores, r \in Issued : \A t \in Stores : Put(s, r)[t] \in Issued
  BY <1>4 DEF Put, ReaderInv, TypeOK
<1>6. Keepers \subseteq Stores /\ Owner \in Stores /\ Reader \in Stores
  BY DEF Stores
<1>7. \A s \in Stores, t \in Stores : [store EXCEPT ![s] = NoRecord][t] \in Issued
  BY <1>4 DEF ReaderInv, TypeOK
<1>8. CASE Crash
  <2>1. /\ store' = [store EXCEPT ![Owner] = NoRecord]
        /\ UNCHANGED <<now, run, record_seq, net, answers, read>>
    BY <1>8 DEF Crash, reader
  <2>2. NothingIssued
    BY <1>3, <1>4, <1>6, <1>7, <2>1 DEF NothingIssued
  <2> QED
    BY <1>1, <2>2, IssuedFrom
<1>9. CASE Start
  <2>1. run' = run + 1 /\ UNCHANGED <<now, store, net, answers, read>>
    BY <1>9 DEF Start, reader
  <2>2. run' >= run /\ run' # run /\ now' >= now
    BY <1>3, <2>1
  <2>3. NothingIssued
    BY <1>4, <2>1, <2>2 DEF NothingIssued
  <2> QED
    BY <1>1, <2>3, IssuedFrom
<1>10. ASSUME NEW m \in net, Store(m) PROVE Ordered' /\ NoneAhead'
  <2>1. m.to \in Stores /\ m.rec \in Issued
    BY <1>4, <1>6 DEF ReaderInv, TypeOK
  <2>2. /\ store' = Put(m.to, m.rec) /\ net' = net \ {m}
        /\ UNCHANGED <<now, run, record_seq, answers, read>>
    BY <1>10 DEF Store, owner, reader
  <2>3. NothingIssued
    BY SMTT(30), <1>3, <1>4, <1>5, <2>1, <2>2 DEF NothingIssued
  <2> QED
    BY <1>1, <2>3, IssuedFrom
<1>11. ASSUME NEW m \in net, Lose(m) PROVE Ordered' /\ NoneAhead'
  <2>1. net' = net \ {m} /\ UNCHANGED <<now, run, record_seq, store, answers, read>>
    BY <1>11 DEF Lose, owner, reader
  <2>2. NothingIssued
    BY <1>3, <1>4, <2>1 DEF NothingIssued
  <2> QED
    BY <1>1, <2>2, IssuedFrom
<1>12. ASSUME NEW k \in Keepers, KeeperRestarts(k) PROVE Ordered' /\ NoneAhead'
  <2>1. /\ store' = [store EXCEPT ![k] = NoRecord]
        /\ net' = {m \in net : m.to # k}
        /\ UNCHANGED <<now, run, record_seq, answers, read>>
    BY <1>12 DEF KeeperRestarts, owner, reader
  <2>2. NothingIssued
    BY <1>3, <1>4, <1>6, <1>7, <2>1 DEF NothingIssued
  <2> QED
    BY <1>1, <2>2, IssuedFrom
<1>13. CASE FindLocally
  <2>1. read' = store[Reader] /\ UNCHANGED <<now, run, record_seq, store, net, answers>>
    BY <1>13 DEF FindLocally, owner
  <2>2. NothingIssued
    BY <1>3, <1>4, <1>6, <2>1 DEF NothingIssued
  <2> QED
    BY <1>1, <2>2, IssuedFrom
<1>14. CASE Find
  <2>1. \A a \in answers : [a EXCEPT !.current = FALSE].rec = a.rec
    BY DEF ReaderInv, TypeOK
  <2>2. /\ answers' = {[a EXCEPT !.current = FALSE] : a \in answers}
        /\ UNCHANGED <<now, run, record_seq, store, net, read>>
    BY <1>14 DEF Find, owner
  <2>3. \A a \in answers' : a.rec \in Issued
    BY <1>4, <2>1, <2>2
  <2>4. NothingIssued
    BY <1>3, <1>4, <2>2, <2>3 DEF NothingIssued
  <2> QED
    BY <1>1, <2>4, IssuedFrom
<1>15. ASSUME NEW s \in Keepers \cup {Owner}, Answer(s) PROVE Ordered' /\ NoneAhead'
  <2>1. /\ answers' = answers \cup {[rec |-> store[s], current |-> TRUE]}
        /\ UNCHANGED <<now, run, record_seq, store, net, read>>
    BY <1>15 DEF Answer, owner
  <2>2. ASSUME NEW a \in answers' PROVE a.rec \in Issued
    <3>1. CASE a \in answers
      BY <1>4, <3>1
    <3>2. CASE a = [rec |-> store[s], current |-> TRUE]
      <4>1. a.rec = store[s] /\ s \in Stores
        BY <1>6, <3>2
      <4> QED
        BY <1>4, <4>1
    <3> QED
      BY <2>1, <3>1, <3>2
  <2>3. NothingIssued
    BY <1>3, <1>4, <2>1, <2>2 DEF NothingIssued
  <2> QED
    BY <1>1, <2>3, IssuedFrom
<1>16. ASSUME NEW a \in answers, Receive(a) PROVE Ordered' /\ NoneAhead'
  <2>1. /\ store' = Put(Reader, a.rec) /\ answers' = answers \ {a}
        /\ read' \in {read, a.rec}
        /\ UNCHANGED <<now, run, record_seq, net>>
    BY <1>16 DEF Receive, owner
  <2>2. a.rec \in Issued /\ \A t \in Stores : store'[t] \in Issued
    BY <1>4, <1>5, <1>6, <2>1
  <2>3. \A b \in answers' : b.rec \in Issued
    BY <1>4, <2>1
  <2>4. read' \in Issued
    BY <1>4, <2>1, <2>2
  <2>5. now' >= now /\ run' >= run /\ record_seq' >= record_seq
    BY <1>3, <2>1
  <2>6. NothingIssued
    BY <2>1, <2>2, <2>3, <2>4, <2>5 DEF NothingIssued
  <2> QED
    BY <1>1, <2>6, IssuedFrom
<1>17. CASE FindNothing
  <2>1. /\ answers' = {a \in answers : ~a.current}
        /\ UNCHANGED <<now, run, record_seq, store, net, read>>
    BY <1>17 DEF FindNothing, owner
  <2>2. \A a \in answers' : a.rec \in Issued
    BY <1>4, <2>1
  <2>3. now' >= now /\ run' >= run /\ record_seq' >= record_seq
    BY <1>3, <2>1
  <2>4. NothingIssued
    BY <1>4, <2>1, <2>2, <2>3 DEF NothingIssued
  <2> QED
    BY <1>1, <2>4, IssuedFrom
<1>18. CASE Tick
  <2>1. now' = now + 1 /\ UNCHANGED <<run, record_seq, store, net, answers, read>>
    BY <1>18 DEF Tick, owner, reader
  <2>2. NothingIssued
    BY <1>3, <1>4, <2>1 DEF NothingIssued
  <2> QED
    BY <1>1, <2>2, IssuedFrom
<1>19. CASE UNCHANGED vars
  <2>1. UNCHANGED <<now, run, record_seq, store, net, answers, read>>
    BY <1>19 DEF vars, owner, reader
  <2>2. NothingIssued
    BY <1>3, <1>4, <2>1 DEF NothingIssued
  <2> QED
    BY <1>1, <2>2, IssuedFrom
<1> QED
  BY <1>1, <1>2, <1>8, <1>9, <1>10, <1>11, <1>12, <1>13, <1>14, <1>15, <1>16,
     <1>17, <1>18, <1>19 DEF Next

\* A step that leaves the reader's last read and its cached record alone and
\* starts no search.
ReaderStays ==
  /\ read' = read /\ store'[Reader] = store[Reader]
  /\ searching' => searching
  /\ now' \in Nat /\ now' >= now

\* A step that leaves the reader alone leaves its last read cached.
LEMMA ReaderQuiet ==
  ASSUME ReaderInv, ReaderStays
  PROVE  read' = read /\ ReadIsCached'
<1>1. read \in Record /\ now \in Nat
  BY DEF ReaderInv, TypeOK
<1>2. IsTimeValid(read)' => IsTimeValid(read)
  BY <1>1, PeriodFacts DEF ReaderStays, IsTimeValid, Record
<1> QED
  BY <1>2 DEF ReaderStays, ReaderInv, ReadIsCached

\* The cached record keeps the reads of the first run in order.
LEMMA ReadStep ==
  ASSUME ReaderInv, [Next]_vars
  PROVE  ReadIsCached' /\ (read'.issued_at < read.issued_at => read.run > 1)
<1> USE DEF owner, reader
<1>1. /\ now \in Nat /\ read \in Record /\ store[Reader] \in Record
      /\ \A a \in answers : a.rec \in Record
      /\ \A m \in net : m.to \in Keepers
      /\ Reader \in Stores
  BY DEF ReaderInv, TypeOK, Stores
<1>2. \A r \in Record : r.run \in Nat /\ r.seq \in Nat /\ r.issued_at \in Nat
  BY DEF Record
<1>3. /\ read \in Issued /\ store[Reader] \in Issued
      /\ \A a \in answers : a.rec \in Issued
  BY <1>1 DEF Issued
<1>4. ASSUME NEW r \in Issued PROVE Sound(r)
  BY DEF ReaderInv, NoneAhead
<1>5. ASSUME NEW r \in Record, IsTimeValid(r), searching \/ r = store[Reader]
      PROVE  r.issued_at < read.issued_at => read.run > 1
  <2>1. r.issued_at \in Nat /\ read.issued_at \in Nat /\ now \in Nat /\ Ttl \in Nat
    BY <1>1, <1>2, PeriodFacts
  <2>2. CASE read = NoRecord
    <3>1. read.issued_at = 0
      BY <2>2 DEF NoRecord
    <3> QED
      BY <2>1, <3>1
  <2>3. CASE read.run = 1
    <3>1. r.issued_at < read.issued_at => IsTimeValid(read)
      BY <1>5, <2>1 DEF IsTimeValid
    <3>2. IsTimeValid(read) => ~searching /\ store[Reader].issued_at >= read.issued_at
      BY <2>3 DEF ReaderInv, ReadIsCached
    <3>3. IsTimeValid(read) => r.issued_at >= read.issued_at
      BY <1>5, <3>2
    <3> QED
      BY <2>1, <3>1, <3>3
  <2>4. read = NoRecord \/ read.run >= 1
    BY <1>3, <1>4 DEF Sound
  <2>5. read.run \in Nat
    BY <1>1, <1>2
  <2> QED
    BY <2>2, <2>3, <2>4, <2>5
<1>6. \A s, r : s # Reader => Put(s, r)[Reader] = store[Reader]
  BY <1>1 DEF Put, ReaderInv, TypeOK
<1>7. ASSUME read' = read, ReadIsCached'
      PROVE  ReadIsCached' /\ (read'.issued_at < read.issued_at => read.run > 1)
  BY <1>1, <1>2, <1>7
<1>8. ASSUME NEW reached \in SUBSET Keepers, Publish(reached) \/ Republish(reached)
      PROVE  read' = read /\ ReadIsCached'
  <2>1. /\ \E r : store' = Put(Owner, r)
        /\ UNCHANGED <<now, searching, read>>
    BY <1>8 DEF Publish, Republish, PublishSelfRecord
  <2>2. store'[Reader] = store[Reader]
    BY SMTT(30), <1>6, <2>1, NodesAssumption
  <2>3. ReaderStays
    BY <1>1, <2>1, <2>2 DEF ReaderStays
  <2> QED
    BY <2>3, ReaderQuiet
<1>9. CASE Crash
  <2>1. store' = [store EXCEPT ![Owner] = NoRecord] /\ UNCHANGED <<now, searching, read>>
    BY <1>9 DEF Crash
  <2>2. store'[Reader] = store[Reader]
    BY <1>1, <2>1, NodesAssumption DEF ReaderInv, TypeOK
  <2>3. ReaderStays
    BY <1>1, <2>1, <2>2 DEF ReaderStays
  <2> QED
    BY <1>7, <2>3, ReaderQuiet
<1>10. CASE Start
  <2>1. UNCHANGED <<now, store, searching, read>>
    BY <1>10 DEF Start
  <2>2. ReaderStays
    BY <1>1, <2>1 DEF ReaderStays
  <2> QED
    BY <1>7, <2>2, ReaderQuiet
<1>11. ASSUME NEW m \in net, Store(m) \/ Lose(m) PROVE read' = read /\ ReadIsCached'
  <2>1. /\ store' = Put(m.to, m.rec) \/ store' = store
        /\ UNCHANGED <<now, searching, read>>
    BY <1>11 DEF Store, Lose
  <2>2. store'[Reader] = store[Reader]
    BY SMTT(30), <1>1, <1>6, <2>1, NodesAssumption
  <2>3. ReaderStays
    BY <1>1, <2>1, <2>2 DEF ReaderStays
  <2> QED
    BY <2>3, ReaderQuiet
<1>12. ASSUME NEW k \in Keepers, KeeperRestarts(k) PROVE read' = read /\ ReadIsCached'
  <2>1. store' = [store EXCEPT ![k] = NoRecord] /\ UNCHANGED <<now, searching, read>>
    BY <1>12 DEF KeeperRestarts
  <2>2. store'[Reader] = store[Reader]
    BY <1>1, <2>1, NodesAssumption DEF ReaderInv, TypeOK
  <2>3. ReaderStays
    BY <1>1, <2>1, <2>2 DEF ReaderStays
  <2> QED
    BY <2>3, ReaderQuiet
<1>13. CASE FindLocally
  <2>1. read' = store[Reader] /\ ~searching /\ Has(Reader) /\ UNCHANGED <<store, searching, now>>
    BY <1>13 DEF FindLocally
  <2>2. store[Reader] # NoRecord /\ IsTimeValid(store[Reader])
    BY <2>1 DEF Has
  <2>3. store[Reader].seq \in Nat /\ store[Reader].issued_at \in Nat
    BY <1>1, <1>2
  <2>4. /\ store'[Reader] # NoRecord /\ store'[Reader].seq >= read'.seq
        /\ store'[Reader].issued_at >= read'.issued_at
    BY <2>1, <2>2, <2>3
  <2>5. ~searching'
    BY <2>1
  <2>6. ReadIsCached'
    BY <2>4, <2>5 DEF ReadIsCached
  <2> QED
    BY <1>1, <1>5, <2>1, <2>2, <2>6
<1>14. CASE Find
  <2>1. ~Has(Reader) /\ read' = read /\ now' = now
    BY <1>14 DEF Find
  <2>2. ~(read.run = 1 /\ IsTimeValid(read))
    BY <1>1, <1>2, <2>1, PeriodFacts DEF ReaderInv, ReadIsCached, Has, IsTimeValid
  <2>3. ReadIsCached'
    BY <2>1, <2>2 DEF ReadIsCached, IsTimeValid
  <2> QED
    BY <1>7, <2>1, <2>3
<1>15. ASSUME NEW s \in Keepers \cup {Owner}, Answer(s) PROVE read' = read /\ ReadIsCached'
  <2>1. UNCHANGED <<now, store, searching, read>>
    BY <1>15 DEF Answer
  <2>2. ReaderStays
    BY <1>1, <2>1 DEF ReaderStays
  <2> QED
    BY <2>2, ReaderQuiet
<1>16. ASSUME NEW a \in answers, Receive(a)
       PROVE  ReadIsCached' /\ (read'.issued_at < read.issued_at => read.run > 1)
  <2> DEFINE r == a.rec
             s == store[Reader]
  <2>1. /\ r \in Record /\ r \in Issued /\ s \in Issued /\ read \in Issued
        /\ Sound(r) /\ Sound(s) /\ Sound(read)
    BY <1>1, <1>3, <1>4
  <2>2. store'[Reader] = IF IsTimeValid(r) /\ r.seq > s.seq THEN r ELSE s
    BY <1>1, <1>16 DEF Receive, Put, Takes, ReaderInv, TypeOK
  <2>3. now' = now
    BY <1>16 DEF Receive
  <2>4. CASE IsTimeValid(r) /\ a.current /\ searching
    <3>1. read' = r /\ ~searching'
      BY <1>16, <2>4 DEF Receive
    <3>2. r.run = 1 /\ r.seq <= s.seq => s # NoRecord /\ r.issued_at <= s.issued_at
      <4> HIDE DEF r, s
      <4>1. s # NoRecord => s.run >= 1
        BY <2>1 DEF Sound
      <4>2. s = NoRecord => s.seq = 0
        BY DEF NoRecord
      <4>3. r.run = 1 => r.seq >= 1
        BY <2>1 DEF Sound, NoRecord
      <4>4. /\ r.run < s.run => r.issued_at <= s.issued_at
            /\ r.run = s.run /\ r.seq <= s.seq => r.issued_at <= s.issued_at
        BY <2>1 DEF ReaderInv, Ordered
      <4>5. r.run \in Nat /\ s.run \in Nat /\ r.seq \in Nat /\ s.seq \in Nat
        BY <1>1, <1>2, <2>1 DEF s
      <4> QED
        BY <4>1, <4>2, <4>3, <4>4, <4>5
    <3>3. r.run = 1 => r # NoRecord
      BY DEF NoRecord
    <3>4. s.seq \in Nat /\ s.issued_at \in Nat /\ r.seq \in Nat /\ r.issued_at \in Nat
      BY <1>1, <1>2
    <3>5. r.run = 1 => /\ store'[Reader] # NoRecord
                       /\ store'[Reader].seq >= r.seq
                       /\ store'[Reader].issued_at >= r.issued_at
      <4> HIDE DEF r, s
      <4>1. CASE r.seq > s.seq
        <5>1. store'[Reader] = r
          BY <2>2, <2>4, <4>1
        <5> QED
          BY <3>3, <3>4, <5>1
      <4>2. CASE r.seq <= s.seq
        <5>1. store'[Reader] = s
          BY <2>2, <3>4, <4>2
        <5> QED
          BY <3>2, <3>4, <4>2, <5>1
      <4> QED
        BY <3>4, <4>1, <4>2
    <3>6. ReadIsCached'
      BY <3>1, <3>5 DEF ReadIsCached
    <3> QED
      BY <1>5, <2>1, <2>4, <3>1, <3>6
  <2>5. CASE ~(IsTimeValid(r) /\ a.current /\ searching)
    <3>1. read' = read /\ searching' = searching
      BY <1>16, <2>5 DEF Receive
    <3>2. IsTimeValid(read)' <=> IsTimeValid(read)
      BY <2>3, <3>1 DEF IsTimeValid
    <3>3. /\ s.seq \in Nat /\ s.issued_at \in Nat /\ r.seq \in Nat
          /\ read.seq \in Nat /\ read.issued_at \in Nat /\ r.issued_at \in Nat
      BY <1>1, <1>2
    <3>4. read.run = 1 /\ r.seq > s.seq /\ s.seq >= read.seq
            => r # NoRecord /\ r.issued_at >= read.issued_at
      <4> HIDE DEF r, s
      <4>1. r # NoRecord => r.run >= 1
        BY <2>1 DEF Sound
      <4>2. r = NoRecord => r.seq = 0
        BY DEF NoRecord
      <4>3. /\ read.run < r.run => read.issued_at <= r.issued_at
            /\ read.run = r.run /\ read.seq <= r.seq => read.issued_at <= r.issued_at
        BY <2>1 DEF ReaderInv, Ordered
      <4>4. r.run \in Nat /\ read.run \in Nat
        BY <1>1, <1>2, <2>1
      <4> QED
        BY <3>3, <4>1, <4>2, <4>3, <4>4
    <3>5. read.run = 1 /\ IsTimeValid(read) =>
            ~searching /\ s # NoRecord /\ s.seq >= read.seq /\ s.issued_at >= read.issued_at
      BY DEF ReaderInv, ReadIsCached
    <3>6. read.run = 1 /\ IsTimeValid(read) =>
            /\ ~searching /\ store'[Reader] # NoRecord
            /\ store'[Reader].seq >= read.seq
            /\ store'[Reader].issued_at >= read.issued_at
      <4> HIDE DEF r, s
      <4> SUFFICES ASSUME read.run = 1, IsTimeValid(read)
                   PROVE  /\ ~searching /\ store'[Reader] # NoRecord
                          /\ store'[Reader].seq >= read.seq
                          /\ store'[Reader].issued_at >= read.issued_at
        OBVIOUS
      <4>1. ~searching /\ s # NoRecord /\ s.seq >= read.seq /\ s.issued_at >= read.issued_at
        BY <3>5
      <4>2. CASE store'[Reader] = s
        BY <4>1, <4>2
      <4>3. CASE store'[Reader] = r /\ r.seq > s.seq
        <5>1. r # NoRecord /\ r.issued_at >= read.issued_at
          BY <3>4, <4>1, <4>3
        <5>2. r.seq >= read.seq
          BY <3>3, <4>1, <4>3
        <5> QED
          BY <4>1, <4>3, <5>1, <5>2
      <4> QED
        BY <2>2, <4>2, <4>3
    <3>7. ReadIsCached'
      BY <3>1, <3>2, <3>6 DEF ReadIsCached
    <3> QED
      BY <1>7, <3>1, <3>7
  <2> QED
    BY <2>4, <2>5
<1>17. CASE FindNothing
  <2>1. searching' = FALSE /\ UNCHANGED <<now, store, read>>
    BY <1>17 DEF FindNothing
  <2>2. ReaderStays
    BY <1>1, <2>1 DEF ReaderStays
  <2> QED
    BY <1>7, <2>2, ReaderQuiet
<1>18. CASE Tick
  <2>1. now' = now + 1 /\ UNCHANGED <<store, searching, read>>
    BY <1>18 DEF Tick
  <2>2. ReaderStays
    BY <1>1, <2>1 DEF ReaderStays
  <2> QED
    BY <1>7, <2>2, ReaderQuiet
<1>19. CASE UNCHANGED vars
  <2>1. UNCHANGED <<now, store, searching, read>>
    BY <1>19 DEF vars
  <2>2. ReaderStays
    BY <1>1, <2>1 DEF ReaderStays
  <2> QED
    BY <1>7, <2>2, ReaderQuiet
<1> QED
  BY <1>7, <1>8, <1>9, <1>10, <1>11, <1>12, <1>13, <1>14, <1>15, <1>16, <1>17,
     <1>18, <1>19 DEF Next

\* The reader's callback is given an older record than before only when the
\* owner has restarted since its first run.
THEOREM ReadsCorrect == Spec => ReadsGoForward
<1>1. Init => ReaderInv
  <2> SUFFICES ASSUME Init PROVE ReaderInv
    OBVIOUS
  <2>1. TypeOK
    BY TypeInit
  <2>2. Issued = {NoRecord}
    BY DEF Init, Issued
  <2> QED
    BY <2>1, <2>2
    DEF Init, ReaderInv, Ordered, NoneAhead, Sound, ReadIsCached, NoRecord
<1>2. ReaderInv /\ [Next]_vars => ReaderInv'
  BY IssuedStep, ReadStep DEF ReaderInv
<1>3. ReaderInv /\ [Next]_vars => [read'.issued_at < read.issued_at => read.run > 1]_vars
  BY ReadStep
<1> QED
  BY <1>1, <1>2, <1>3, PTL DEF Spec, ReadsGoForward

=============================================================================
