----------------------------- MODULE TableProofs -----------------------------
(***************************************************************************)
(* A bucket of the routing table and the table that a node keeps, for any  *)
(* nodes, buckets, limits and number of outstanding PINGs.                 *)
(*                                                                         *)
(* The argument has three layers: the operations of KBucket keep a bucket  *)
(* well formed; the same for a table; and the outcomes of add_contact, of  *)
(* which every handler of LruProbe is made.                                *)
(***************************************************************************)
EXTENDS LruProbe, TLAPS

\* The backends, in the order in which a leaf is given to them.
USE ZenonT(2), SMTT(10), ZenonT(20), SMTT(40)

\* What the concatenation of two sequences holds.
LEMMA Concatenation ==
  ASSUME NEW S, NEW a \in Seq(S), NEW z \in Seq(S)
  PROVE  /\ a \o z \in Seq(S)
         /\ Len(a \o z) = Len(a) + Len(z)
         /\ \A j \in 1..(Len(a) + Len(z)) :
              (a \o z)[j] = IF j <= Len(a) THEN a[j] ELSE z[j - Len(a)]
OBVIOUS

\* What erase(it) leaves of a vector or a deque.
LEMMA EraseProperties ==
  ASSUME NEW S, NEW s \in Seq(S), NEW i \in 1..Len(s)
  PROVE  /\ Erase(s, i) \in Seq(S)
         /\ Len(Erase(s, i)) = Len(s) - 1
         /\ \A j \in 1..(Len(s) - 1) :
              Erase(s, i)[j] = IF j < i THEN s[j] ELSE s[j + 1]
<1> DEFINE a == SubSeq(s, 1, i - 1)
           z == SubSeq(s, i + 1, Len(s))
<1>0. Len(s) \in Nat
  OBVIOUS
<1>1. /\ a \in Seq(S)
      /\ Len(a) = i - 1
      /\ \A j \in 1..(i - 1) : a[j] = s[j]
  BY <1>0
<1>2. /\ z \in Seq(S)
      /\ Len(z) = Len(s) - i
      /\ \A j \in 1..(Len(s) - i) : z[j] = s[i + j]
  BY <1>0
<1>3. Erase(s, i) = a \o z
  BY DEF Erase
<1> HIDE DEF a, z
<1>4. /\ a \o z \in Seq(S)
      /\ Len(a \o z) = Len(a) + Len(z)
      /\ \A j \in 1..(Len(a) + Len(z)) :
           (a \o z)[j] = IF j <= Len(a) THEN a[j] ELSE z[j - Len(a)]
  BY <1>1, <1>2, Concatenation
<1>5. ASSUME NEW j \in 1..(Len(s) - 1)
      PROVE  (a \o z)[j] = IF j < i THEN s[j] ELSE s[j + 1]
  BY SMTT(30), <1>0, <1>1, <1>2, <1>4
<1>6. Len(a \o z) = Len(s) - 1
  BY SMTT(30), <1>0, <1>1, <1>2, <1>4
<1> QED
  BY <1>3, <1>4, <1>5, <1>6

\* find_if finds an entry with the id when there is one.
LEMMA IndexOfProperties ==
  ASSUME NEW S, NEW s \in Seq(S), NoDuplicates(s), NEW id \in Ids(s)
  PROVE  IndexOf(s, id) \in 1..Len(s) /\ s[IndexOf(s, id)].id = id
<1>1. PICK i \in 1..Len(s) : s[i].id = id
  BY DEF Ids
<1>2. ASSUME NEW j \in 1..(i - 1)
      PROVE  s[j].id # id
  <2>1. j \in 1..Len(s) /\ j # i
    OBVIOUS
  <2> QED
    BY <1>1, <2>1 DEF NoDuplicates
<1> QED
  BY <1>1, <1>2 DEF IndexOf

\* Erasing the entry at i takes its id, and no other, out of the vector.
LEMMA EraseIds ==
  ASSUME NEW S, NEW s \in Seq(S), NoDuplicates(s), NEW i \in 1..Len(s)
  PROVE  /\ NoDuplicates(Erase(s, i))
         /\ Ids(Erase(s, i)) = Ids(s) \ {s[i].id}
<1> DEFINE r == Erase(s, i)
<1>0. Len(s) \in Nat
  OBVIOUS
<1>1. /\ Len(r) = Len(s) - 1
      /\ \A j \in 1..(Len(s) - 1) : r[j] = IF j < i THEN s[j] ELSE s[j + 1]
  BY EraseProperties
<1> HIDE DEF r
<1>2. NoDuplicates(r)
  <2> SUFFICES ASSUME NEW a \in 1..Len(r), NEW b \in 1..Len(r),
                      r[a].id = r[b].id
               PROVE  a = b
    BY DEF NoDuplicates
  <2> DEFINE src(x) == IF x < i THEN x ELSE x + 1
  <2>1. src(a) \in 1..Len(s) /\ src(b) \in 1..Len(s)
    BY <1>0, <1>1
  <2>2. r[a] = s[src(a)] /\ r[b] = s[src(b)]
    BY <1>1
  <2>3. src(a) = src(b)
    BY <2>1, <2>2 DEF NoDuplicates
  <2> QED
    BY <2>3
<1>3. Ids(r) \subseteq Ids(s) \ {s[i].id}
  BY SMTT(30), <1>0, <1>1 DEF NoDuplicates, Ids
<1>4. ASSUME NEW x \in Ids(s), x # s[i].id
      PROVE  x \in Ids(r)
  <2>1. PICK j \in 1..Len(s) : s[j].id = x
    BY DEF Ids
  <2>2. j # i
    BY <1>4, <2>1
  <2>3. CASE j < i
    <3>1. j \in 1..Len(r) /\ r[j] = s[j]
      BY <1>0, <1>1, <2>3
    <3> QED
      BY <2>1, <3>1 DEF Ids
  <2>4. CASE j > i
    <3>1. (j - 1) \in 1..Len(r) /\ r[j - 1] = s[j]
      BY <1>0, <1>1, <2>4
    <3> QED
      BY <2>1, <3>1 DEF Ids
  <2> QED
    BY <2>2, <2>3, <2>4
<1> QED
  BY <1>2, <1>3, <1>4 DEF r

\* push_back of a contact whose id is not in the vector.
LEMMA AppendIds ==
  ASSUME NEW S, NEW s \in Seq(S), NoDuplicates(s), NEW c \in S,
         c.id \notin Ids(s)
  PROVE  /\ NoDuplicates(Append(s, c))
         /\ Ids(Append(s, c)) = Ids(s) \cup {c.id}
<1> DEFINE r == Append(s, c)
<1>1. /\ Len(s) \in Nat
      /\ Len(r) = Len(s) + 1
      /\ \A i \in 1..Len(s) : r[i] = s[i]
      /\ r[Len(s) + 1] = c
  OBVIOUS
<1> HIDE DEF r
<1>2. \A i \in 1..Len(s) : s[i].id # c.id
  BY DEF Ids
<1>3. NoDuplicates(r)
  BY SMTT(30), <1>1, <1>2 DEF NoDuplicates
<1>4. Ids(r) \subseteq Ids(s) \cup {c.id}
  BY SMTT(30), <1>1 DEF Ids
<1>5. Ids(s) \subseteq Ids(r)
  BY SMTT(30), <1>1 DEF Ids
<1>6. c.id \in Ids(r)
  <2>1. Len(s) + 1 \in 1..Len(r)
    BY <1>1
  <2> QED
    BY <1>1, <2>1 DEF Ids
<1> QED
  BY <1>3, <1>4, <1>5, <1>6 DEF r

\* pop_front of a deque that is not empty.
LEMMA TailIds ==
  ASSUME NEW S, NEW s \in Seq(S), NoDuplicates(s), s # <<>>
  PROVE  /\ NoDuplicates(Tail(s))
         /\ Ids(Tail(s)) = Ids(s) \ {Head(s).id}
         /\ Head(s).id \in Ids(s)
<1> DEFINE r == Tail(s)
<1>1. /\ Len(s) \in Nat \ {0}
      /\ Len(r) = Len(s) - 1
      /\ \A i \in 1..Len(r) : r[i] = s[i + 1]
      /\ Head(s) = s[1]
  OBVIOUS
<1> HIDE DEF r
<1>2. NoDuplicates(r)
  BY SMTT(30), <1>1 DEF NoDuplicates
<1>3. Ids(r) \subseteq Ids(s) \ {Head(s).id}
  BY SMTT(30), <1>1 DEF NoDuplicates, Ids
<1>4. ASSUME NEW x \in Ids(s), x # Head(s).id
      PROVE  x \in Ids(r)
  <2>1. PICK j \in 1..Len(s) : s[j].id = x
    BY DEF Ids
  <2>2. (j - 1) \in 1..Len(r) /\ r[j - 1] = s[j]
    BY SMTT(30), <1>1, <1>4, <2>1
  <2> QED
    BY <2>1, <2>2 DEF Ids
<1>5. Head(s).id \in Ids(s)
  BY SMTT(30), <1>1 DEF Ids
<1> QED
  BY <1>2, <1>3, <1>4, <1>5 DEF r

\* Overwriting an entry by one with the same id.
LEMMA UpdateInPlaceIds ==
  ASSUME NEW S, NEW s \in Seq(S), NoDuplicates(s), NEW c \in S,
         c.id \in Ids(s)
  PROVE  /\ UpdateInPlace(s, c) \in Seq(S)
         /\ Len(UpdateInPlace(s, c)) = Len(s)
         /\ NoDuplicates(UpdateInPlace(s, c))
         /\ Ids(UpdateInPlace(s, c)) = Ids(s)
<1> DEFINE k == IndexOf(s, c.id)
           r == UpdateInPlace(s, c)
<1>1. k \in 1..Len(s) /\ s[k].id = c.id
  BY IndexOfProperties
<1>2. /\ r \in Seq(S)
      /\ Len(r) = Len(s)
      /\ \A j \in 1..Len(s) : r[j] = IF j = k THEN c ELSE s[j]
  BY <1>1 DEF UpdateInPlace
<1> HIDE DEF k, r
<1>3. \A j \in 1..Len(s) : r[j].id = s[j].id
  BY <1>1, <1>2
<1>4. NoDuplicates(r)
  BY <1>2, <1>3 DEF NoDuplicates
<1>5. Ids(r) = Ids(s)
  BY <1>2, <1>3 DEF Ids
<1> QED
  BY <1>2, <1>4, <1>5 DEF r

-----------------------------------------------------------------------------

\* An empty bucket is well formed.
LEMMA EmptyBucketWellFormed ==
  ASSUME NEW S
  PROVE  EmptyBucket \in Bucket(S) /\ WellFormed(EmptyBucket)
  BY CapacityAssumption, MaxReplacementsAssumption
  DEF EmptyBucket, Bucket, WellFormed, NoDuplicates, Ids

\* Moving a contact to the back permutes the vector and changes that entry.
LEMMA MoveToBackProperties ==
  ASSUME NEW S, NEW s \in Seq(S), NoDuplicates(s), NEW c \in S,
         c.id \in Ids(s)
  PROVE  /\ MoveToBack(s, c) \in Seq(S)
         /\ Len(MoveToBack(s, c)) = Len(s)
         /\ NoDuplicates(MoveToBack(s, c))
         /\ Ids(MoveToBack(s, c)) = Ids(s)
<1> DEFINE k == IndexOf(s, c.id)
           r == Erase(s, k)
<1>1. k \in 1..Len(s) /\ s[k].id = c.id
  BY IndexOfProperties
<1>2. r \in Seq(S) /\ Len(r) = Len(s) - 1
  BY <1>1, EraseProperties
<1>3. NoDuplicates(r) /\ Ids(r) = Ids(s) \ {c.id}
  BY <1>1, EraseIds
<1>4. MoveToBack(s, c) = Append(r, c)
  BY DEF MoveToBack
<1> HIDE DEF k, r
<1>5. /\ Append(r, c) \in Seq(S)
      /\ Len(Append(r, c)) = Len(r) + 1
  BY <1>2
<1>6. /\ NoDuplicates(Append(r, c))
      /\ Ids(Append(r, c)) = Ids(r) \cup {c.id}
  BY SMTT(30), <1>2, <1>3, AppendIds
<1>7. Len(Append(r, c)) = Len(s)
  BY <1>2, <1>5
<1> QED
  BY <1>3, <1>4, <1>5, <1>6, <1>7

\* The candidate deque stays within its limit when a new id is pushed.
LEMMA PushCandidateProperties ==
  ASSUME NEW S, NEW s \in Seq(S), NoDuplicates(s), NEW c \in S,
         c.id \notin Ids(s), Len(s) <= MaxReplacements
  PROVE  /\ PushCandidate(s, c) \in Seq(S)
         /\ Len(PushCandidate(s, c)) <= MaxReplacements
         /\ NoDuplicates(PushCandidate(s, c))
         /\ Ids(PushCandidate(s, c)) \subseteq Ids(s) \cup {c.id}
<1> DEFINE t == IF Len(s) >= MaxReplacements THEN Tail(s) ELSE s
<1>0. Len(s) \in Nat /\ MaxReplacements \in Nat \ {0}
  BY MaxReplacementsAssumption
<1>1. /\ t \in Seq(S)
      /\ Len(t) < MaxReplacements
      /\ NoDuplicates(t)
      /\ Ids(t) \subseteq Ids(s)
  <2>1. CASE Len(s) >= MaxReplacements
    <3>1. s # <<>>
      BY <1>0, <2>1
    <3>2. Tail(s) \in Seq(S) /\ Len(Tail(s)) = Len(s) - 1
      BY <3>1
    <3>3. NoDuplicates(Tail(s)) /\ Ids(Tail(s)) \subseteq Ids(s)
      BY <3>1, TailIds
    <3> QED
      BY <1>0, <2>1, <3>2, <3>3
  <2>2. CASE Len(s) < MaxReplacements
    BY <1>0, <2>2
  <2> QED
    BY <1>0, <2>1, <2>2
<1>2. PushCandidate(s, c) = Append(t, c)
  BY DEF PushCandidate
<1> HIDE DEF t
<1>3. c.id \notin Ids(t)
  BY <1>1
<1>4. Append(t, c) \in Seq(S) /\ Len(Append(t, c)) = Len(t) + 1
  BY <1>1
<1>5. NoDuplicates(Append(t, c)) /\ Ids(Append(t, c)) = Ids(t) \cup {c.id}
  BY SMTT(30), <1>1, <1>3, AppendIds
<1>6. Len(t) \in Nat
  BY <1>1
<1>7. Len(Append(t, c)) <= MaxReplacements
  BY <1>0, <1>1, <1>4, <1>6
<1> QED
  BY <1>1, <1>2, <1>4, <1>5, <1>7

(***************************************************************************)
(* KBucket::add_or_update keeps the bucket well formed: a peer never ends  *)
(* up both among the contacts and among the candidates, neither list       *)
(* outgrows its limit, the only id that can appear is that of the peer,    *)
(* and no contact is displaced.                                            *)
(***************************************************************************)
THEOREM AddOrUpdateWellFormed ==
  ASSUME NEW S, NEW b \in Bucket(S), WellFormed(b), NEW c \in S
  PROVE  /\ AddOrUpdate(b, c) \in Bucket(S)
         /\ WellFormed(AddOrUpdate(b, c))
         /\ BucketIds(AddOrUpdate(b, c)) \subseteq BucketIds(b) \cup {c.id}
         /\ Ids(b.contacts) \subseteq Ids(AddOrUpdate(b, c).contacts)
<1> DEFINE con == b.contacts
           rep == b.replacements
<1>0. /\ b = [contacts |-> con, replacements |-> rep]
      /\ con \in Seq(S) /\ Len(con) \in Nat
      /\ rep \in Seq(S) /\ Len(rep) \in Nat
      /\ Capacity \in Nat
  BY SMTT(30), CapacityAssumption DEF Bucket
<1>1. /\ NoDuplicates(con) /\ NoDuplicates(rep)
      /\ Ids(con) \cap Ids(rep) = {}
      /\ Len(con) <= Capacity /\ Len(rep) <= MaxReplacements
      /\ rep # <<>> => Len(con) = Capacity
  BY DEF WellFormed
<1>2. CASE c.id \in Ids(con)
  <2> DEFINE new == MoveToBack(con, c)
  <2>1. AddOrUpdate(b, c) = [contacts |-> new, replacements |-> rep]
    BY <1>0, <1>2 DEF AddOrUpdate, IsContact
  <2>2. /\ new \in Seq(S) /\ Len(new) = Len(con)
        /\ NoDuplicates(new) /\ Ids(new) = Ids(con)
    BY <1>0, <1>1, <1>2, MoveToBackProperties
  <2> HIDE DEF new, con, rep
  <2> QED
    BY <1>0, <1>1, <2>1, <2>2 DEF Bucket, WellFormed, BucketIds, con, rep
<1>3. CASE c.id \notin Ids(con) /\ ~IsFull(b)
  <2> DEFINE new == Append(con, c)
  <2>1. AddOrUpdate(b, c) = [contacts |-> new, replacements |-> rep]
    BY <1>0, <1>3 DEF AddOrUpdate, IsContact
  <2>2. rep = <<>> /\ Len(con) < Capacity
    BY <1>0, <1>1, <1>3 DEF IsFull
  <2>3. /\ new \in Seq(S) /\ Len(new) = Len(con) + 1
        /\ NoDuplicates(new) /\ Ids(new) = Ids(con) \cup {c.id}
    BY SMTT(30), <1>0, <1>1, <1>3, AppendIds
  <2>4. Ids(rep) = {}
    BY <2>2 DEF Ids
  <2>5. Len(new) <= Capacity
    BY <1>0, <2>2, <2>3
  <2> HIDE DEF new, con, rep
  <2> QED
    BY SMTT(30), <1>0, <1>1, <2>1, <2>2, <2>3, <2>4, <2>5
    DEF Bucket, WellFormed, BucketIds, con, rep
<1>4. CASE c.id \notin Ids(con) /\ IsFull(b) /\ c.id \in Ids(rep)
  <2> DEFINE new == UpdateInPlace(rep, c)
  <2>1. AddOrUpdate(b, c) = [contacts |-> con, replacements |-> new]
    BY <1>0, <1>4 DEF AddOrUpdate, IsContact
  <2>2. Len(con) = Capacity
    BY <1>0, <1>1, <1>4 DEF IsFull
  <2>3. /\ new \in Seq(S) /\ Len(new) = Len(rep)
        /\ NoDuplicates(new) /\ Ids(new) = Ids(rep)
    BY <1>0, <1>1, <1>4, UpdateInPlaceIds
  <2> HIDE DEF new, con, rep
  <2> QED
    BY SMTT(30), <1>0, <1>1, <2>1, <2>2, <2>3 DEF Bucket, WellFormed, BucketIds, con, rep
<1>5. CASE c.id \notin Ids(con) /\ IsFull(b) /\ c.id \notin Ids(rep)
  <2> DEFINE new == PushCandidate(rep, c)
  <2>1. AddOrUpdate(b, c) = [contacts |-> con, replacements |-> new]
    BY <1>0, <1>5 DEF AddOrUpdate, IsContact
  <2>2. Len(con) = Capacity
    BY <1>0, <1>1, <1>5 DEF IsFull
  <2>3. /\ new \in Seq(S) /\ Len(new) <= MaxReplacements
        /\ NoDuplicates(new) /\ Ids(new) \subseteq Ids(rep) \cup {c.id}
    BY <1>0, <1>1, <1>5, PushCandidateProperties
  <2>4. Ids(con) \cap Ids(new) = {}
    BY <1>1, <1>5, <2>3
  <2> HIDE DEF new, con, rep
  <2> QED
    BY SMTT(30), <1>0, <1>1, <2>1, <2>2, <2>3, <2>4
    DEF Bucket, WellFormed, BucketIds, con, rep
<1> QED
  BY <1>2, <1>3, <1>4, <1>5

(***************************************************************************)
(* KBucket::remove keeps the bucket well formed: the candidate it promotes *)
(* leaves the cache, a place stays free only when no candidate waits, and  *)
(* no other contact is displaced.                                          *)
(***************************************************************************)
THEOREM RemovedWellFormed ==
  ASSUME NEW S, NEW b \in Bucket(S), WellFormed(b), NEW id
  PROVE  /\ Removed(b, id) \in Bucket(S)
         /\ WellFormed(Removed(b, id))
         /\ BucketIds(Removed(b, id)) = BucketIds(b) \ {id}
         /\ Ids(b.contacts) \ {id} \subseteq Ids(Removed(b, id).contacts)
<1> DEFINE con == b.contacts
           rep == b.replacements
<1>0. /\ b = [contacts |-> con, replacements |-> rep]
      /\ con \in Seq(S) /\ Len(con) \in Nat
      /\ rep \in Seq(S) /\ Len(rep) \in Nat
      /\ Capacity \in Nat
  BY SMTT(30), CapacityAssumption DEF Bucket
<1>1. /\ NoDuplicates(con) /\ NoDuplicates(rep)
      /\ Ids(con) \cap Ids(rep) = {}
      /\ Len(con) <= Capacity /\ Len(rep) <= MaxReplacements
      /\ rep # <<>> => Len(con) = Capacity
  BY DEF WellFormed
<1>2. CASE id \in Ids(con)
  <2> DEFINE k == IndexOf(con, id)
             rest == Erase(con, k)
  <2>1. k \in 1..Len(con) /\ con[k].id = id
    BY <1>0, <1>1, <1>2, IndexOfProperties
  <2>2. /\ rest \in Seq(S) /\ Len(rest) = Len(con) - 1
        /\ NoDuplicates(rest) /\ Ids(rest) = Ids(con) \ {id}
    BY SMTT(30), <1>0, <1>1, <2>1, EraseProperties, EraseIds
  <2>3. CASE rep = <<>>
    <3>1. Removed(b, id) = [contacts |-> rest, replacements |-> rep]
      BY <1>0, <1>2, <2>3 DEF Removed, IsContact
    <3>2. Len(rest) <= Capacity
      BY SMTT(30), <1>0, <1>1, <2>2
    <3>3. Ids(rep) = {}
      BY <2>3 DEF Ids
    <3> HIDE DEF rest, k, con, rep
    <3> QED
      BY SMTT(30), <1>0, <1>1, <2>2, <2>3, <3>1, <3>2, <3>3
      DEF Bucket, WellFormed, BucketIds, con, rep
  <2>4. CASE rep # <<>>
    <3> DEFINE new == Append(rest, Head(rep))
    <3>1. Removed(b, id) = [contacts |-> new, replacements |-> Tail(rep)]
      BY <1>0, <1>2, <2>4 DEF Removed, IsContact
    <3>2. /\ Head(rep) \in S /\ Tail(rep) \in Seq(S)
          /\ Len(Tail(rep)) = Len(rep) - 1
          /\ NoDuplicates(Tail(rep))
          /\ Ids(Tail(rep)) = Ids(rep) \ {Head(rep).id}
          /\ Head(rep).id \in Ids(rep)
      BY SMTT(30), <1>0, <1>1, <2>4, TailIds
    <3>3. Head(rep).id \notin Ids(rest)
      BY <1>1, <2>2, <3>2
    <3>4. /\ new \in Seq(S) /\ Len(new) = Len(rest) + 1
          /\ NoDuplicates(new) /\ Ids(new) = Ids(rest) \cup {Head(rep).id}
      BY SMTT(30), <2>2, <3>2, <3>3, AppendIds
    <3>5. Len(new) = Capacity /\ Len(Tail(rep)) <= MaxReplacements
      BY SMTT(30), <1>0, <1>1, <2>2, <2>4, <3>2, <3>4, MaxReplacementsAssumption
    <3>6. Ids(new) \cap Ids(Tail(rep)) = {}
      BY <1>1, <2>2, <3>2, <3>4
    <3>7. id \notin Ids(rep)
      BY <1>1, <1>2
    <3> HIDE DEF new, rest, k, con, rep
    <3>8. Ids(new) \cup Ids(Tail(rep)) = (Ids(con) \cup Ids(rep)) \ {id}
      BY <2>2, <3>2, <3>4, <3>7
    <3> QED
      BY SMTT(30), <1>0, <3>1, <3>2, <3>4, <3>5, <3>6, <3>8
      DEF Bucket, WellFormed, BucketIds, con, rep
  <2> QED
    BY <2>3, <2>4
<1>3. CASE id \notin Ids(con) /\ id \in Ids(rep)
  <2> DEFINE k == IndexOf(rep, id)
             new == Erase(rep, k)
  <2>1. k \in 1..Len(rep) /\ rep[k].id = id
    BY <1>0, <1>1, <1>3, IndexOfProperties
  <2>2. /\ new \in Seq(S) /\ Len(new) = Len(rep) - 1
        /\ NoDuplicates(new) /\ Ids(new) = Ids(rep) \ {id}
    BY SMTT(30), <1>0, <1>1, <2>1, EraseProperties, EraseIds
  <2>3. Removed(b, id) = [contacts |-> con, replacements |-> new]
    BY <1>0, <1>3 DEF Removed, IsContact
  <2>4. Len(con) = Capacity /\ Len(new) <= MaxReplacements
    BY SMTT(30), <1>0, <1>1, <2>1, <2>2, MaxReplacementsAssumption
  <2> HIDE DEF new, k, con, rep
  <2> QED
    BY SMTT(30), <1>0, <1>1, <1>3, <2>2, <2>3, <2>4
    DEF Bucket, WellFormed, BucketIds, con, rep
<1>4. CASE id \notin Ids(con) /\ id \notin Ids(rep)
  BY <1>4 DEF Removed, IsContact, BucketIds
<1> QED
  BY <1>2, <1>3, <1>4

(***************************************************************************)
(* KBucket::touch keeps the bucket well formed and the ids it holds.       *)
(***************************************************************************)
THEOREM TouchedWellFormed ==
  ASSUME NEW S, NEW b \in Bucket(S), WellFormed(b), NEW id, NEW now,
         \A c \in S : SeenAt(c, now) \in S /\ SeenAt(c, now).id = c.id
  PROVE  /\ Touched(b, id, now) \in Bucket(S)
         /\ WellFormed(Touched(b, id, now))
         /\ BucketIds(Touched(b, id, now)) = BucketIds(b)
         /\ Ids(Touched(b, id, now).contacts) = Ids(b.contacts)
<1> DEFINE con == b.contacts
           rep == b.replacements
           old == con[IndexOf(con, id)]
           c   == SeenAt(old, now)
           new == MoveToBack(con, c)
<1>0. /\ b = [contacts |-> con, replacements |-> rep]
      /\ con \in Seq(S)
      /\ NoDuplicates(con)
  BY DEF Bucket, WellFormed
<1>1. CASE id \in Ids(con)
  <2>1. IndexOf(con, id) \in 1..Len(con) /\ old.id = id
    BY <1>0, <1>1, IndexOfProperties
  <2>2. old \in S
    BY <1>0, <2>1
  <2>3. c \in S /\ c.id = id
    BY <2>1, <2>2
  <2>4. /\ new \in Seq(S) /\ Len(new) = Len(con)
        /\ NoDuplicates(new) /\ Ids(new) = Ids(con)
    <3> HIDE DEF c
    <3> QED
      BY <1>0, <1>1, <2>3, MoveToBackProperties
  <2>5. Touched(b, id, now) = [contacts |-> new, replacements |-> rep]
    BY <1>0, <1>1 DEF Touched, IsContact, FindContact
  <2> HIDE DEF new, c, old, con, rep
  <2> QED
    BY SMTT(30), <1>0, <2>4, <2>5 DEF Bucket, WellFormed, BucketIds, con, rep
<1>2. CASE id \notin Ids(con)
  BY <1>2 DEF Touched, IsContact, BucketIds
<1> QED
  BY <1>1, <1>2

-----------------------------------------------------------------------------
(***************************************************************************)
(* Invariants of LruProbe.                                                 *)
(***************************************************************************)

\* The backends, in the order in which a leaf is given to them.
Tables == [Buckets -> Bucket(Contact)]

\* TableOK and PingsOK as predicates on a value.
TableInv(tbl) ==
  \A i \in Buckets :
    /\ WellFormed(tbl[i])
    /\ \A id \in BucketIds(tbl[i]) : id \in Nodes /\ BucketOf[id] = i

PingInv(p) ==
  /\ p.pending => p.timer # "off" /\ p.calls = 0
  /\ p.calls <= 1
  /\ (p.pending /\ p.peer \in Stable) => p.timer # "queued"

\* The contacts of tbl other than n are contacts of new.  With Self, which is
\* no contact, for n: all of them.
Keeps(tbl, new, n) ==
  \A k \in Nodes \ {n} : TableHas(tbl, k) => TableHas(new, k)

-----------------------------------------------------------------------------

\* A contact of the model, and what touch makes of it, are contacts.
LEMMA ContactFacts ==
  /\ \A n \in Nodes \cup {Self} : ContactOf(n) \in Contact /\ ContactOf(n).id = n
  /\ \A c \in Contact : SeenAt(c, 0) \in Contact /\ SeenAt(c, 0).id = c.id
BY DEF Contact, ContactOf, SeenAt

\* The table of a new node is well formed.
LEMMA EmptyTableInv == EmptyTable \in Tables /\ TableInv(EmptyTable)
<1>1. /\ EmptyBucket \in Bucket(Contact) /\ WellFormed(EmptyBucket)
  BY EmptyBucketWellFormed
<1>2. BucketIds(EmptyBucket) = {}
  BY DEF BucketIds, EmptyBucket, Ids
<1> QED
  BY <1>1, <1>2 DEF EmptyTable, Tables, TableInv

(***************************************************************************)
(* Replacing the bucket of n by one that is well formed and holds only ids *)
(* of the old one and n keeps the invariant of the table.                  *)
(***************************************************************************)
LEMMA ReplaceBucket ==
  ASSUME NEW tbl \in Tables, TableInv(tbl), NEW n \in Nodes,
         NEW b \in Bucket(Contact), WellFormed(b),
         BucketIds(b) \subseteq BucketIds(tbl[BucketOf[n]]) \cup {n},
         NEW new, new = [tbl EXCEPT ![BucketOf[n]] = b]
  PROVE  new \in Tables /\ TableInv(new)
<1>1. BucketOf[n] \in Buckets
  BY BucketOfAssumption
<1>2. new \in Tables
  BY <1>1 DEF Tables
<1>3. ASSUME NEW i \in Buckets
      PROVE  /\ WellFormed(new[i])
             /\ \A id \in BucketIds(new[i]) : id \in Nodes /\ BucketOf[id] = i
  <2>1. CASE i = BucketOf[n]
    <3>1. new[i] = b
      BY <1>1, <2>1 DEF Tables
    <3> QED
      BY <2>1, <3>1 DEF TableInv
  <2>2. CASE i # BucketOf[n]
    <3>1. new[i] = tbl[i]
      BY <1>1, <2>2 DEF Tables
    <3> QED
      BY <3>1 DEF TableInv
  <2> QED
    BY <2>1, <2>2
<1> QED
  BY <1>2, <1>3 DEF TableInv

(***************************************************************************)
(* What is a contact depends on the bucket of the node alone.              *)
(***************************************************************************)
LEMMA ReplaceBucketKeeps ==
  ASSUME NEW tbl \in Tables, NEW n \in Nodes, NEW b \in Bucket(Contact),
         NEW x, Ids(tbl[BucketOf[n]].contacts) \ {x} \subseteq Ids(b.contacts),
         NEW new, new = [tbl EXCEPT ![BucketOf[n]] = b]
  PROVE  Keeps(tbl, new, x)
<1> SUFFICES ASSUME NEW k \in Nodes \ {x}, TableHas(tbl, k)
             PROVE  TableHas(new, k)
  BY DEF Keeps
<1>1. BucketOf[n] \in Buckets /\ BucketOf[k] \in Buckets
  BY BucketOfAssumption
<1>2. k # Self /\ k \in Ids(tbl[BucketOf[k]].contacts)
  BY DEF TableHas, IsContact
<1>3. CASE BucketOf[k] = BucketOf[n]
  <2>1. new[BucketOf[k]] = b
    BY <1>1, <1>3 DEF Tables
  <2> QED
    BY <1>2, <1>3, <2>1 DEF TableHas, IsContact
<1>4. CASE BucketOf[k] # BucketOf[n]
  <2>1. new[BucketOf[k]] = tbl[BucketOf[k]]
    BY <1>1, <1>4 DEF Tables
  <2> QED
    BY <1>2, <2>1 DEF TableHas, IsContact
<1> QED
  BY <1>3, <1>4

\* RoutingTable::add_or_update keeps the invariant and every contact.
LEMMA TableAddInv ==
  ASSUME NEW tbl \in Tables, TableInv(tbl), NEW n \in Nodes \cup {Self}
  PROVE  LET new == TableAddOrUpdate(tbl, ContactOf(n))
         IN  /\ new \in Tables /\ TableInv(new)
             /\ Keeps(tbl, new, Self)
<1> DEFINE c == ContactOf(n)
<1>0. c \in Contact /\ c.id = n
  BY ContactFacts
<1> HIDE DEF c
<1>1. CASE n = Self
  BY <1>0, <1>1 DEF TableAddOrUpdate, Keeps, c
<1>2. CASE n \in Nodes
  <2> DEFINE old == tbl[BucketOf[n]]
             b   == AddOrUpdate(old, c)
             new == [tbl EXCEPT ![BucketOf[n]] = b]
  <2>1. n # Self /\ BucketOf[n] \in Buckets
    BY <1>2, SelfAssumption, BucketOfAssumption
  <2>2. old \in Bucket(Contact) /\ WellFormed(old)
    BY <2>1 DEF Tables, TableInv
  <2> HIDE DEF old
  <2>3. /\ b \in Bucket(Contact) /\ WellFormed(b)
        /\ BucketIds(b) \subseteq BucketIds(old) \cup {n}
        /\ Ids(old.contacts) \subseteq Ids(b.contacts)
    BY <1>0, <2>2, AddOrUpdateWellFormed
  <2> HIDE DEF b
  <2>4. new \in Tables /\ TableInv(new)
    BY <1>2, <2>3, ReplaceBucket DEF old
  <2>5. Keeps(tbl, new, Self)
    BY <1>2, <2>3, ReplaceBucketKeeps DEF old
  <2>6. TableAddOrUpdate(tbl, c) = new
    BY <1>0, <2>1 DEF TableAddOrUpdate, b, old
  <2> QED
    BY <2>4, <2>5, <2>6 DEF c
<1> QED
  BY <1>1, <1>2

\* RoutingTable::remove keeps the invariant and every other contact.
LEMMA TableRemovedInv ==
  ASSUME NEW tbl \in Tables, TableInv(tbl), NEW n \in Nodes \cup {Self}
  PROVE  LET new == TableRemoved(tbl, n)
         IN  /\ new \in Tables /\ TableInv(new)
             /\ Keeps(tbl, new, n)
<1>1. CASE n = Self
  BY <1>1 DEF TableRemoved, Keeps
<1>2. CASE n \in Nodes
  <2> DEFINE old == tbl[BucketOf[n]]
             b   == Removed(old, n)
             new == [tbl EXCEPT ![BucketOf[n]] = b]
  <2>1. n # Self /\ BucketOf[n] \in Buckets
    BY <1>2, SelfAssumption, BucketOfAssumption
  <2>2. old \in Bucket(Contact) /\ WellFormed(old)
    BY <2>1 DEF Tables, TableInv
  <2> HIDE DEF old
  <2>3. /\ b \in Bucket(Contact) /\ WellFormed(b)
        /\ BucketIds(b) = BucketIds(old) \ {n}
        /\ Ids(old.contacts) \ {n} \subseteq Ids(b.contacts)
    BY <2>2, RemovedWellFormed
  <2> HIDE DEF b
  <2>4. new \in Tables /\ TableInv(new)
    BY <1>2, <2>3, ReplaceBucket DEF old
  <2>5. Keeps(tbl, new, n)
    BY <1>2, <2>3, ReplaceBucketKeeps DEF old
  <2>6. TableRemoved(tbl, n) = new
    BY <2>1 DEF TableRemoved, b, old
  <2> QED
    BY <2>4, <2>5, <2>6
<1> QED
  BY <1>1, <1>2

\* RoutingTable::touch keeps the invariant and every contact.
LEMMA TableTouchedInv ==
  ASSUME NEW tbl \in Tables, TableInv(tbl), NEW n \in Nodes \cup {Self}
  PROVE  LET new == TableTouched(tbl, n, 0)
         IN  /\ new \in Tables /\ TableInv(new)
             /\ Keeps(tbl, new, Self)
<1>1. CASE n = Self
  BY <1>1 DEF TableTouched, Keeps
<1>2. CASE n \in Nodes
  <2> DEFINE old == tbl[BucketOf[n]]
             b   == Touched(old, n, 0)
             new == [tbl EXCEPT ![BucketOf[n]] = b]
  <2>1. n # Self /\ BucketOf[n] \in Buckets
    BY <1>2, SelfAssumption, BucketOfAssumption
  <2>2. old \in Bucket(Contact) /\ WellFormed(old)
    BY <2>1 DEF Tables, TableInv
  <2> HIDE DEF old
  <2>3. /\ b \in Bucket(Contact) /\ WellFormed(b)
        /\ BucketIds(b) = BucketIds(old)
        /\ Ids(b.contacts) = Ids(old.contacts)
    BY SMTT(30), <2>2, ContactFacts, TouchedWellFormed
  <2> HIDE DEF b
  <2>4. new \in Tables /\ TableInv(new)
    BY <1>2, <2>3, ReplaceBucket DEF old
  <2>5. Keeps(tbl, new, Self)
    BY <1>2, <2>3, ReplaceBucketKeeps DEF old
  <2>6. TableTouched(tbl, n, 0) = new
    BY <2>1 DEF TableTouched, b, old
  <2> QED
    BY <2>4, <2>5, <2>6
<1> QED
  BY <1>1, <1>2

-----------------------------------------------------------------------------

PingsInv(pgs) == \A r \in Rids : PingInv(pgs[r])

States == [table : Tables, linked : SUBSET Nodes, pings : [Rids -> Ping]]

StateInv(st) == st \in States /\ TableInv(st.table) /\ PingsInv(st.pings)

\* No stable contact is lost.
KeepsStable(tbl, new) ==
  \A n \in Stable : TableHas(tbl, n) => TableHas(new, n)

\* The PINGs that are pending or have a timer are not touched.
KeepsBusy(pgs, new) ==
  \A r \in Rids : ~IsFree(pgs[r]) => new[r] = pgs[r]

\* Node::send_ping starts a PING that has its timer, under a free id.
LEMMA SentInv ==
  ASSUME NEW pgs \in [Rids -> Ping], PingsInv(pgs), NEW r \in FreeRids(pgs),
         NEW n \in Nodes, NEW isProbe \in BOOLEAN
  PROVE  LET new == Sent(pgs, r, n, isProbe)
         IN  /\ new \in [Rids -> Ping] /\ PingsInv(new)
             /\ KeepsBusy(pgs, new)
<1> DEFINE p   == [peer |-> n, probe |-> isProbe, pending |-> TRUE,
                   timer |-> "armed", calls |-> 0]
           new == [pgs EXCEPT ![r] = p]
<1>1. p \in Ping /\ PingInv(p)
  BY SMTT(30) DEF Ping, PingInv
<1>2. r \in Rids /\ IsFree(pgs[r])
  BY DEF FreeRids
<1>3. Sent(pgs, r, n, isProbe) = new
  BY DEF Sent
<1> HIDE DEF p
<1>4. /\ new \in [Rids -> Ping]
      /\ new[r] = p
      /\ \A q \in Rids \ {r} : new[q] = pgs[q]
  BY <1>1, <1>2
<1> HIDE DEF new
<1> QED
  BY <1>1, <1>2, <1>3, <1>4 DEF PingsInv, KeepsBusy

\* The callback of a PING that was not called yet ends the PING.
LEMMA CalledInv ==
  ASSUME NEW pgs \in [Rids -> Ping], PingsInv(pgs), NEW r \in Rids,
         pgs[r].calls = 0
  PROVE  Called(pgs, r) \in [Rids -> Ping] /\ PingsInv(Called(pgs, r))
<1> DEFINE o   == pgs[r]
           p   == [peer |-> o.peer, probe |-> o.probe, pending |-> FALSE,
                   timer |-> Cancelled(o.timer), calls |-> o.calls + 1]
           new == [pgs EXCEPT ![r] = p]
<1>1. Called(pgs, r) = new
  BY DEF Called
<1>2. pgs[r] \in Ping
  OBVIOUS
<1>3. p \in Ping /\ PingInv(p)
  <2>1. Cancelled(o.timer) \in {"off", "armed", "queued"}
    BY <1>2 DEF Ping, Cancelled
  <2> QED
    BY SMTT(30), <1>2, <2>1 DEF Ping, PingInv
<1> HIDE DEF p
<1>4. /\ new \in [Rids -> Ping]
      /\ new[r] = p
      /\ \A q \in Rids \ {r} : new[q] = pgs[q]
  BY <1>3
<1> HIDE DEF new
<1> QED
  BY <1>1, <1>3, <1>4 DEF PingsInv

(***************************************************************************)
(* Node::probe_lru_contact, whatever comes of the connection: the          *)
(* invariants hold, and only an unreachable contact is lost.               *)
(***************************************************************************)
LEMMA ProbeLruContactInv ==
  ASSUME NEW st, StateInv(st), NEW n \in Nodes,
         NEW out \in ProbeLruContact(st, n)
  PROVE  /\ StateInv(out)
         /\ KeepsStable(st.table, out.table)
         /\ KeepsBusy(st.pings, out.pings)
<1>0. /\ st.table \in Tables /\ st.linked \in SUBSET Nodes
      /\ st.pings \in [Rids -> Ping]
      /\ TableInv(st.table) /\ PingsInv(st.pings)
  BY DEF StateInv, States
<1>1. CASE \E r \in FreeRids(st.pings) :
             out = State(st.table, st.linked \cup {n}, Sent(st.pings, r, n, TRUE))
  <2>1. PICK r \in FreeRids(st.pings) :
          out = State(st.table, st.linked \cup {n}, Sent(st.pings, r, n, TRUE))
    BY <1>1
  <2> DEFINE new == Sent(st.pings, r, n, TRUE)
  <2>2. new \in [Rids -> Ping] /\ PingsInv(new) /\ KeepsBusy(st.pings, new)
    BY <1>0, SentInv
  <2> HIDE DEF new
  <2>3. /\ out = [table |-> st.table, linked |-> st.linked \cup {n}, pings |-> new]
    BY <2>1 DEF State, new
  <2> QED
    BY <1>0, <2>2, <2>3 DEF StateInv, States, KeepsStable
<1>2. CASE /\ n \notin st.linked \cup Stable
           /\ out = State(TableRemoved(st.table, n), st.linked, st.pings)
  <2> DEFINE new == TableRemoved(st.table, n)
  <2>1. new \in Tables /\ TableInv(new) /\ Keeps(st.table, new, n)
    BY <1>0, TableRemovedInv
  <2> HIDE DEF new
  <2>2. out = [table |-> new, linked |-> st.linked, pings |-> st.pings]
    BY <1>2 DEF State, new
  <2> QED
    BY SMTT(30), <1>0, <1>2, <2>1, <2>2, StableAssumption
    DEF StateInv, States, Keeps, KeepsStable, KeepsBusy
<1> QED
  BY <1>1, <1>2 DEF ProbeLruContact

\* The contact that get_least_recently_seen returns is one of the bucket's.
LEMMA FirstInIds ==
  ASSUME NEW s \in Seq(Contact), Len(s) >= 1
  PROVE  s[1].id \in Ids(s) /\ s[1] \in Contact
<1>1. Len(s) \in Nat /\ 1 \in 1..Len(s)
  OBVIOUS
<1> QED
  BY <1>1 DEF Ids

(***************************************************************************)
(* Node::add_contact keeps the invariants and every stable contact.        *)
(***************************************************************************)
LEMMA AddContactInv ==
  ASSUME NEW st, StateInv(st), NEW n \in Nodes \cup {Self},
         NEW out \in AddContact(st, n)
  PROVE  /\ StateInv(out)
         /\ KeepsStable(st.table, out.table)
         /\ KeepsBusy(st.pings, out.pings)
<1> DEFINE tbl == TableAddOrUpdate(st.table, ContactOf(n))
           new == [st EXCEPT !.table = tbl]
<1>0. /\ st.table \in Tables /\ TableInv(st.table)
      /\ st \in States
  BY DEF StateInv, States
<1>1. tbl \in Tables /\ TableInv(tbl) /\ Keeps(st.table, tbl, Self)
  BY <1>0, TableAddInv
<1> HIDE DEF tbl
<1>2. /\ new \in States /\ new.table = tbl /\ new.pings = st.pings
      /\ new.linked = st.linked
  BY <1>0, <1>1 DEF States
<1> HIDE DEF new
<1>3. StateInv(new)
  BY <1>1, <1>2 DEF StateInv
<1>4. KeepsStable(st.table, tbl)
  BY <1>1, StableAssumption, SelfAssumption DEF Keeps, KeepsStable
<1>5. CASE n = Self \/ TableIsAdded(st.table, n)
  <2>1. out = new
    BY <1>5 DEF AddContact, new, tbl
  <2> QED
    BY <1>2, <1>3, <1>4, <2>1 DEF KeepsBusy
<1>6. CASE ~(n = Self \/ TableIsAdded(st.table, n))
  <2> DEFINE old == st.table[BucketOf[n]].contacts
             con == tbl[BucketOf[n]].contacts
             lru == Head(con)
  <2>1. n \in Nodes /\ BucketOf[n] \in Buckets
    BY <1>6, BucketOfAssumption
  <2>2. out \in ProbeLruContact(new, lru.id)
    BY <1>2, <1>6 DEF AddContact, TableLeastRecentlySeen, LeastRecentlySeen,
                      new, tbl
  <2>3. con \in Seq(Contact) /\ old \in Seq(Contact)
    BY <1>0, <1>1, <2>1 DEF Tables, Bucket
  <2>4. con # <<>>
    <3>1. Len(old) >= 1 /\ Len(old) \in Nat
      BY SMTT(30), <1>6, <2>3, CapacityAssumption DEF TableIsAdded, IsAdded, IsFull
    <3>2. old[1].id \in Ids(old) /\ old[1] \in Contact
      <4> HIDE DEF old
      <4> QED
        BY <2>3, <3>1, FirstInIds
    <3>3. old[1].id \in Nodes
      BY <1>0, <2>1, <3>2 DEF TableInv, BucketIds
    <3>4. BucketOf[old[1].id] = BucketOf[n]
      BY <1>0, <2>1, <3>2 DEF TableInv, BucketIds
    <3>5. TableHas(st.table, old[1].id)
      BY <3>2, <3>3, <3>4, SelfAssumption DEF TableHas, IsContact
    <3>6. TableHas(tbl, old[1].id)
      BY <1>1, <3>3, <3>5, SelfAssumption DEF Keeps
    <3>7. old[1].id \in Ids(con)
      BY <3>4, <3>6 DEF TableHas, IsContact
    <3> HIDE DEF con
    <3>8. con = <<>> => Ids(con) = {}
      BY DEF Ids
    <3> QED
      BY <3>7, <3>8
  <2>5. lru.id \in Ids(con)
    <3> HIDE DEF con
    <3>1. Len(con) >= 1 /\ lru = con[1]
      BY <2>3, <2>4
    <3>2. con[1].id \in Ids(con)
      BY <2>3, <3>1, FirstInIds
    <3> QED
      BY <3>1, <3>2
  <2>6. lru.id \in Nodes
    BY <1>1, <2>1, <2>5 DEF TableInv, BucketIds
  <2> HIDE DEF lru, con, old
  <2>7. /\ StateInv(out)
        /\ KeepsStable(new.table, out.table)
        /\ KeepsBusy(new.pings, out.pings)
    BY <1>3, <2>2, <2>6, ProbeLruContactInv
  <2> QED
    BY <1>2, <1>4, <2>7 DEF KeepsStable
<1> QED
  BY <1>5, <1>6

(***************************************************************************)
(* The callback of a probe keeps the invariant of the table; it loses a    *)
(* stable contact only if it reports the failure of a stable peer.         *)
(***************************************************************************)
LEMMA ProbeResultInv ==
  ASSUME NEW tbl \in Tables, TableInv(tbl), NEW p \in Ping,
         NEW success \in BOOLEAN
  PROVE  LET new == ProbeResult(tbl, p, success)
         IN  /\ new \in Tables /\ TableInv(new)
             /\ success \/ p.peer \notin Stable => KeepsStable(tbl, new)
<1>1. p.peer \in Nodes \cup {Self}
  BY DEF Ping
<1>2. CASE ~p.probe
  BY <1>2 DEF ProbeResult, KeepsStable
<1>3. CASE p.probe /\ success
  <2> DEFINE new == TableTouched(tbl, p.peer, 0)
  <2>1. new \in Tables /\ TableInv(new) /\ Keeps(tbl, new, Self)
    BY <1>1, TableTouchedInv
  <2> HIDE DEF new
  <2>2. KeepsStable(tbl, new)
    BY <2>1, StableAssumption, SelfAssumption DEF Keeps, KeepsStable
  <2>3. ProbeResult(tbl, p, success) = new
    BY <1>3 DEF ProbeResult, new
  <2> QED
    BY <2>1, <2>2, <2>3
<1>4. CASE p.probe /\ ~success
  <2> DEFINE new == TableRemoved(tbl, p.peer)
  <2>1. new \in Tables /\ TableInv(new) /\ Keeps(tbl, new, p.peer)
    BY <1>1, TableRemovedInv
  <2> HIDE DEF new
  <2>2. p.peer \notin Stable => KeepsStable(tbl, new)
    BY <2>1, StableAssumption DEF Keeps, KeepsStable
  <2>3. ProbeResult(tbl, p, success) = new
    BY <1>4 DEF ProbeResult, new
  <2> QED
    BY <1>4, <2>1, <2>2, <2>3
<1> QED
  BY <1>2, <1>3, <1>4

-----------------------------------------------------------------------------

\* The inductive invariant.
IInv == TypeOK /\ TableOK /\ PingsOK

\* The invariant in terms of the predicates above.
LEMMA IInvParts ==
  ASSUME IInv
  PROVE  /\ routing_table \in Tables /\ linked \in SUBSET Nodes
         /\ pings \in [Rids -> Ping] /\ TableInv(routing_table) /\ PingsInv(pings)
         /\ todo \in Seq(Nodes \cup {Self})
BY DEF IInv, TypeOK, TableOK, PingsOK, Tables, TableInv, PingsInv, PingInv

\* The same for the next state, in the form that the steps below establish.
LEMMA IInvPrimed ==
  ASSUME routing_table' \in Tables, linked' \in SUBSET Nodes,
         pings' \in [Rids -> Ping], TableInv(routing_table'), PingsInv(pings'),
         todo' \in Seq(Nodes \cup {Self})
  PROVE  IInv'
BY DEF IInv, TypeOK, TableOK, PingsOK, Tables, TableInv, PingsInv, PingInv

\* A handler that ends in an outcome of add_contact keeps the invariant.
LEMMA BecomesInv ==
  ASSUME NEW st, StateInv(st), Becomes(st), todo' \in Seq(Nodes \cup {Self})
  PROVE  IInv'
<1>1. /\ st.table \in Tables /\ st.linked \in SUBSET Nodes
      /\ st.pings \in [Rids -> Ping]
      /\ TableInv(st.table) /\ PingsInv(st.pings)
  BY DEF StateInv, States
<1> QED
  BY <1>1, IInvPrimed DEF Becomes

\* A state made of parts that satisfy their invariants satisfies StateInv.
LEMMA StateOfParts ==
  ASSUME NEW tbl \in Tables, TableInv(tbl), NEW lnk \in SUBSET Nodes,
         NEW pgs \in [Rids -> Ping], PingsInv(pgs)
  PROVE  /\ StateInv(State(tbl, lnk, pgs))
         /\ State(tbl, lnk, pgs).table = tbl
         /\ State(tbl, lnk, pgs).linked = lnk
         /\ State(tbl, lnk, pgs).pings = pgs
BY DEF StateInv, States, State

\* What every step establishes.
StepOK == IInv' /\ KeepsStable(routing_table, routing_table')

(***************************************************************************)
(* A handler that runs add_contact in a state with the same table.         *)
(***************************************************************************)
LEMMA AddContactStep ==
  ASSUME IInv, NEW n \in Nodes \cup {Self}, NEW lnk \in SUBSET Nodes,
         NEW pgs \in [Rids -> Ping], PingsInv(pgs),
         \E st \in AddContact(State(routing_table, lnk, pgs), n) : Becomes(st),
         todo' \in Seq(Nodes \cup {Self})
  PROVE  StepOK
<1> DEFINE cur == State(routing_table, lnk, pgs)
<1>1. StateInv(cur) /\ cur.table = routing_table
  BY SMTT(30), IInvParts, StateOfParts
<1>2. PICK st \in AddContact(cur, n) : Becomes(st)
  OBVIOUS
<1> HIDE DEF cur
<1>3. StateInv(st) /\ KeepsStable(cur.table, st.table)
  BY <1>1, <1>2, AddContactInv
<1>4. IInv'
  BY <1>2, <1>3, BecomesInv
<1>5. KeepsStable(routing_table, routing_table')
  BY <1>1, <1>2, <1>3 DEF Becomes
<1> QED
  BY <1>4, <1>5 DEF StepOK

\* A PING adds its sender, and is answered.
LEMMA ReceivePingStep ==
  ASSUME IInv, NEW n \in Nodes \cup {Self}, ReceivePing(n)
  PROVE  StepOK
<1> DEFINE lnk == (linked \cup {n}) \ {Self}
<1>1. /\ lnk \in SUBSET Nodes
      /\ pings \in [Rids -> Ping] /\ PingsInv(pings)
      /\ todo' \in Seq(Nodes \cup {Self})
  BY IInvParts DEF ReceivePing
<1>2. \E st \in AddContact(State(routing_table, lnk, pings), n) : Becomes(st)
  BY DEF ReceivePing
<1> HIDE DEF lnk
<1> QED
  BY <1>1, <1>2, AddContactStep

\* A DHT request adds its sender before it is served.
LEMMA ReceiveRequestStep ==
  ASSUME IInv, NEW n \in Nodes \cup {Self}, ReceiveRequest(n)
  PROVE  StepOK
<1>1. /\ linked \in SUBSET Nodes
      /\ pings \in [Rids -> Ping] /\ PingsInv(pings)
      /\ todo' \in Seq(Nodes \cup {Self})
  BY IInvParts DEF ReceiveRequest
<1> QED
  BY <1>1, AddContactStep DEF ReceiveRequest

\* The handler of a response adds the next of the contacts in it.
LEMMA AddNextStep ==
  ASSUME IInv, AddNext
  PROVE  StepOK
<1>1. /\ linked \in SUBSET Nodes
      /\ pings \in [Rids -> Ping] /\ PingsInv(pings)
      /\ todo \in Seq(Nodes \cup {Self}) /\ todo # <<>>
  BY IInvParts DEF AddNext
<1>2. Head(todo) \in Nodes \cup {Self} /\ todo' \in Seq(Nodes \cup {Self})
  BY <1>1 DEF AddNext
<1> QED
  BY <1>1, <1>2, AddContactStep DEF AddNext

\* A FIND_NODE response lists the contacts that its handler will add.
LEMMA ReceiveFindNodeResponseStep ==
  ASSUME IInv, NEW peers \in Seq(Nodes \cup {Self}), NEW isPending \in BOOLEAN,
         ReceiveFindNodeResponse(peers, isPending)
  PROVE  StepOK
<1>1. peers \o peers \in Seq(Nodes \cup {Self})
  OBVIOUS
<1>2. todo' \in Seq(Nodes \cup {Self})
  BY <1>1 DEF ReceiveFindNodeResponse
<1>3. routing_table' = routing_table /\ linked' = linked /\ pings' = pings
  BY DEF ReceiveFindNodeResponse
<1> QED
  BY <1>2, <1>3, IInvParts, IInvPrimed DEF StepOK, KeepsStable

(***************************************************************************)
(* The PONG: the PING it answers keeps its timer while add_contact runs,   *)
(* so a probe that add_contact starts gets another id, and the callback    *)
(* runs for a PING that was not called yet.                                *)
(***************************************************************************)
LEMMA ReceivePongStep ==
  ASSUME IInv, NEW r \in Rids, ReceivePong(r)
  PROVE  StepOK
<1> DEFINE p   == pings[r]
           q   == [p EXCEPT !.pending = FALSE]
           pg1 == [pings EXCEPT ![r] = q]
           cur == State(routing_table, linked, pg1)
<1>0. /\ routing_table \in Tables /\ TableInv(routing_table) /\ linked \in SUBSET Nodes
      /\ pings \in [Rids -> Ping] /\ PingsInv(pings)
      /\ todo' \in Seq(Nodes \cup {Self})
      /\ p.pending
  BY IInvParts DEF ReceivePong
<1>1. p \in Ping /\ PingInv(p) /\ p.timer # "off" /\ p.calls = 0
  BY <1>0 DEF PingsInv, PingInv
<1>2. /\ q \in Ping /\ PingInv(q)
      /\ q.pending = FALSE /\ q.timer = p.timer /\ q.calls = 0
  <2> HIDE DEF p
  <2> QED
    BY <1>1 DEF Ping, PingInv
<1>3. p.peer \in Nodes \cup {Self}
  BY <1>1 DEF Ping
<1>4. pg1 \in [Rids -> Ping] /\ pg1[r] = q /\ PingsInv(pg1)
  <2> HIDE DEF q
  <2> QED
    BY <1>0, <1>2 DEF PingsInv
<1>5. pg1 = [pings EXCEPT ![r].pending = FALSE]
  OBVIOUS
<1>6. PICK st \in AddContact(cur, p.peer) :
        Becomes(State(ProbeResult(st.table, p, TRUE), st.linked,
                      Called(st.pings, r)))
  BY <1>5 DEF ReceivePong
<1> HIDE DEF q, pg1
<1>7. StateInv(cur) /\ cur.table = routing_table /\ cur.pings = pg1
  BY SMTT(30), <1>0, <1>4, StateOfParts
<1> HIDE DEF cur
<1>8. /\ StateInv(st) /\ KeepsStable(routing_table, st.table)
      /\ KeepsBusy(pg1, st.pings)
  BY <1>3, <1>6, <1>7, AddContactInv
<1>9. st.pings[r].calls = 0
  <2>1. ~IsFree(pg1[r])
    BY <1>1, <1>2, <1>4 DEF IsFree
  <2>2. st.pings[r] = pg1[r]
    BY <1>8, <2>1 DEF KeepsBusy
  <2> QED
    BY <1>2, <1>4, <2>2
<1> DEFINE tbl == ProbeResult(st.table, p, TRUE)
           pgs == Called(st.pings, r)
<1>10. /\ st.table \in Tables /\ TableInv(st.table)
       /\ st.linked \in SUBSET Nodes
       /\ st.pings \in [Rids -> Ping] /\ PingsInv(st.pings)
  BY <1>8 DEF StateInv, States
<1>11. pgs \in [Rids -> Ping] /\ PingsInv(pgs)
  BY <1>9, <1>10, CalledInv
<1> HIDE DEF p
<1>12. tbl \in Tables /\ TableInv(tbl) /\ KeepsStable(st.table, tbl)
  BY <1>1, <1>10, ProbeResultInv
<1> HIDE DEF tbl, pgs
<1>13. /\ StateInv(State(tbl, st.linked, pgs))
       /\ State(tbl, st.linked, pgs).table = tbl
  BY SMTT(30), <1>10, <1>11, <1>12, StateOfParts
<1>14. Becomes(State(tbl, st.linked, pgs))
  BY <1>6 DEF tbl, pgs
<1>15. IInv'
  BY <1>0, <1>13, <1>14, BecomesInv
<1>16. KeepsStable(routing_table, routing_table')
  BY <1>8, <1>12, <1>13, <1>14 DEF KeepsStable, Becomes
<1> QED
  BY <1>15, <1>16 DEF StepOK

\* A PONG that is malformed or of another peer resolves the PING as failed.
LEMMA ReceiveBadPongStep ==
  ASSUME IInv, NEW r \in Rids, NEW closes \in BOOLEAN, ReceiveBadPong(r, closes)
  PROVE  StepOK
<1> DEFINE p   == pings[r]
           tbl == ProbeResult(routing_table, p, FALSE)
           pgs == Called(pings, r)
<1>0. /\ routing_table \in Tables /\ TableInv(routing_table) /\ linked \in SUBSET Nodes
      /\ pings \in [Rids -> Ping] /\ PingsInv(pings)
      /\ todo \in Seq(Nodes \cup {Self})
  BY IInvParts
<1>1. /\ p.pending /\ p.peer \notin Stable
      /\ routing_table' = tbl /\ linked' \in SUBSET Nodes /\ pings' = pgs
      /\ todo' = todo
  BY <1>0 DEF ReceiveBadPong
<1>2. p \in Ping /\ p.calls = 0
  BY <1>0, <1>1 DEF PingsInv, PingInv
<1>3. pgs \in [Rids -> Ping] /\ PingsInv(pgs)
  BY <1>0, <1>2, CalledInv
<1> HIDE DEF p, pgs
<1>4. tbl \in Tables /\ TableInv(tbl) /\ KeepsStable(routing_table, tbl)
  BY <1>0, <1>1, <1>2, ProbeResultInv
<1> HIDE DEF tbl
<1>5. IInv'
  BY <1>0, <1>1, <1>3, <1>4, IInvPrimed
<1> QED
  BY <1>1, <1>4, <1>5 DEF StepOK

\* The timer of a PING expires; that of a pending PING to a stable peer does not.
LEMMA TimerExpiresStep ==
  ASSUME IInv, NEW r \in Rids, TimerExpires(r)
  PROVE  StepOK
<1> DEFINE p == pings[r]
           q == [p EXCEPT !.timer = "queued"]
<1>0. /\ routing_table \in Tables /\ TableInv(routing_table) /\ linked \in SUBSET Nodes
      /\ pings \in [Rids -> Ping] /\ PingsInv(pings)
      /\ todo \in Seq(Nodes \cup {Self})
  BY IInvParts
<1>1. /\ ~(p.pending /\ p.peer \in Stable)
      /\ routing_table' = routing_table /\ linked' = linked /\ todo' = todo
  BY DEF TimerExpires
<1>2. pings' = [pings EXCEPT ![r] = q]
  BY DEF TimerExpires
<1>3. p \in Ping /\ PingInv(p)
  BY <1>0 DEF PingsInv
<1> HIDE DEF p
<1>4. q \in Ping /\ PingInv(q)
  BY <1>1, <1>3 DEF Ping, PingInv
<1> HIDE DEF q
<1>5. pings' \in [Rids -> Ping] /\ PingsInv(pings')
  BY <1>0, <1>2, <1>4 DEF PingsInv
<1>6. IInv'
  BY <1>0, <1>1, <1>5, IInvPrimed
<1> QED
  BY <1>1, <1>6 DEF StepOK, KeepsStable

\* The handler of a PING timer finds the PING pending, or does nothing.
LEMMA TimerFiresStep ==
  ASSUME IInv, NEW r \in Rids, TimerFires(r)
  PROVE  StepOK
<1> DEFINE p    == pings[r]
           q    == [p EXCEPT !.timer = "off"]
           done == [pings EXCEPT ![r] = q]
           pgs  == Called(done, r)
           tbl  == ProbeResult(routing_table, p, FALSE)
<1>0. /\ routing_table \in Tables /\ TableInv(routing_table) /\ linked \in SUBSET Nodes
      /\ pings \in [Rids -> Ping] /\ PingsInv(pings)
      /\ todo \in Seq(Nodes \cup {Self})
  BY IInvParts
<1>1. /\ p.timer = "queued" /\ linked' = linked /\ todo' = todo
      /\ done = [pings EXCEPT ![r].timer = "off"]
  BY DEF TimerFires
<1>2. p \in Ping /\ PingInv(p)
  BY <1>0 DEF PingsInv
<1>3. CASE p.pending
  <2>1. p.peer \notin Stable /\ p.calls = 0
    BY <1>1, <1>2, <1>3 DEF PingInv
  <2>2. routing_table' = tbl /\ pings' = pgs
    BY <1>1, <1>3 DEF TimerFires
  <2> DEFINE s == [peer |-> q.peer, probe |-> q.probe, pending |-> FALSE,
                   timer |-> Cancelled(q.timer), calls |-> q.calls + 1]
  <2>3. /\ q \in Ping /\ q.timer = "off" /\ q.calls = 0
    <3> HIDE DEF p
    <3> QED
      BY <1>2, <2>1 DEF Ping
  <2> HIDE DEF p, q
  <2>4. s \in Ping /\ PingInv(s)
    BY SMTT(30), <2>3 DEF Ping, PingInv, Cancelled
  <2>5. done[r] = q
    BY <1>0
  <2>6. pgs = [done EXCEPT ![r] = s]
    BY <2>5 DEF Called
  <2> HIDE DEF s
  <2>7. pgs = [pings EXCEPT ![r] = s]
    BY <1>0, <2>6
  <2> HIDE DEF pgs
  <2>8. pgs \in [Rids -> Ping] /\ PingsInv(pgs)
    BY <1>0, <2>4, <2>7 DEF PingsInv
  <2>9. tbl \in Tables /\ TableInv(tbl) /\ KeepsStable(routing_table, tbl)
    BY <1>0, <1>2, <2>1, ProbeResultInv
  <2> HIDE DEF tbl
  <2>10. IInv'
    BY <1>0, <1>1, <2>2, <2>8, <2>9, IInvPrimed
  <2> QED
    BY <2>2, <2>9, <2>10 DEF StepOK
<1>4. CASE ~p.pending
  <2>1. routing_table' = routing_table /\ pings' = done
    BY <1>1, <1>4 DEF TimerFires
  <2>2. q \in Ping /\ PingInv(q)
    <3> HIDE DEF p
    <3> QED
      BY <1>2, <1>4 DEF Ping, PingInv
  <2> HIDE DEF q
  <2>3. pings' \in [Rids -> Ping] /\ PingsInv(pings')
    BY <1>0, <2>1, <2>2 DEF PingsInv
  <2>4. IInv'
    BY <1>0, <1>1, <2>1, <2>3, IInvPrimed
  <2> QED
    BY <2>1, <2>4 DEF StepOK, KeepsStable
<1> QED
  BY <1>3, <1>4

\* A lost connection leaves the table and the PINGs alone.
LEMMA DisconnectStep ==
  ASSUME IInv, NEW n \in Nodes, Disconnect(n)
  PROVE  StepOK
<1>1. /\ routing_table' = routing_table /\ linked' = linked \ {n} /\ pings' = pings
      /\ todo' = todo
  BY DEF Disconnect
<1>2. IInv'
  BY <1>1, IInvParts, IInvPrimed
<1> QED
  BY <1>1, <1>2 DEF StepOK, KeepsStable

\* The node sends a PING of its own.
LEMMA SendPingStep ==
  ASSUME IInv, NEW n \in Nodes, NEW r \in Rids, SendPing(n, r)
  PROVE  StepOK
<1>1. /\ routing_table' = routing_table /\ linked' = linked \cup {n}
      /\ pings' = Sent(pings, r, n, FALSE) /\ todo' = todo
      /\ r \in FreeRids(pings)
  BY DEF SendPing
<1>2. pings' \in [Rids -> Ping] /\ PingsInv(pings')
  BY <1>1, IInvParts, SentInv
<1>3. IInv'
  BY <1>1, <1>2, IInvParts, IInvPrimed
<1> QED
  BY <1>1, <1>3 DEF StepOK, KeepsStable

\* The contacts of a response, of any number, are a sequence of peers.
LEMMA PeersAreSeq ==
  ASSUME NEW S, NEW m \in 0..MaxNew
  PROVE  [1..m -> S] \subseteq Seq(S)
<1>1. m \in Nat
  BY MaxNewAssumption
<1> QED  BY <1>1

\* Every step of the specification keeps the invariant and the stable peers.
LEMMA NextStep ==
  ASSUME IInv, [ProbeNext]_probeVars
  PROVE  StepOK
<1>1. ASSUME NEW n \in Nodes \cup {Self}, ReceivePing(n)
      PROVE  StepOK
  BY <1>1, ReceivePingStep
<1>2. ASSUME NEW n \in Nodes \cup {Self}, ReceiveRequest(n)
      PROVE  StepOK
  BY <1>2, ReceiveRequestStep
<1>3. ASSUME NEW m \in 0..MaxNew, NEW peers \in [1..m -> Nodes \cup {Self}],
             NEW isPending \in BOOLEAN, ReceiveFindNodeResponse(peers, isPending)
      PROVE  StepOK
  BY <1>3, PeersAreSeq, ReceiveFindNodeResponseStep
<1>4. CASE AddNext
  BY <1>4, AddNextStep
<1>5. ASSUME NEW r \in Rids, ReceivePong(r)
      PROVE  StepOK
  BY <1>5, ReceivePongStep
<1>6. ASSUME NEW r \in Rids, NEW closes \in BOOLEAN, ReceiveBadPong(r, closes)
      PROVE  StepOK
  BY <1>6, ReceiveBadPongStep
<1>7. ASSUME NEW r \in Rids, TimerExpires(r)
      PROVE  StepOK
  BY <1>7, TimerExpiresStep
<1>8. ASSUME NEW r \in Rids, TimerFires(r)
      PROVE  StepOK
  BY <1>8, TimerFiresStep
<1>9. ASSUME NEW n \in Nodes, Disconnect(n)
      PROVE  StepOK
  BY <1>9, DisconnectStep
<1>10. ASSUME NEW n \in Nodes, NEW r \in Rids, SendPing(n, r)
       PROVE  StepOK
  BY <1>10, SendPingStep
<1>11. CASE UNCHANGED probeVars
  <2>1. /\ routing_table' = routing_table /\ linked' = linked /\ pings' = pings
        /\ todo' = todo
    BY <1>11 DEF probeVars
  <2>2. IInv'
    BY <2>1, IInvParts, IInvPrimed
  <2> QED
    BY <2>1, <2>2 DEF StepOK, KeepsStable
<1> QED
  BY <1>1, <1>2, <1>3, <1>4, <1>5, <1>6, <1>7, <1>8, <1>9, <1>10, <1>11
  DEF ProbeNext

\* The invariant holds of a node that has just started.
LEMMA InitInv == ProbeInit => IInv
<1> SUFFICES ASSUME ProbeInit
             PROVE  IInv
  OBVIOUS
<1>1. routing_table \in Tables /\ TableInv(routing_table)
  BY EmptyTableInv DEF ProbeInit
<1>2. NoPing \in Ping /\ PingInv(NoPing)
  BY DEF NoPing, Ping, PingInv
<1>3. /\ pings = [r \in Rids |-> NoPing] /\ linked = {} /\ todo = <<>>
  BY DEF ProbeInit
<1>4. pings \in [Rids -> Ping] /\ PingsInv(pings)
  BY <1>2, <1>3 DEF PingsInv
<1>5. todo \in Seq(Nodes \cup {Self})
  BY <1>3
<1> QED
  BY <1>1, <1>3, <1>4, <1>5
  DEF IInv, TypeOK, TableOK, PingsOK, Tables, TableInv, PingsInv, PingInv

-----------------------------------------------------------------------------

\* IInv is an inductive invariant of the node.
THEOREM Invariance == ProbeSpec => []IInv
<1>1. IInv /\ [ProbeNext]_probeVars => IInv'
  BY NextStep DEF StepOK
<1> QED
  BY <1>1, InitInv, PTL DEF ProbeSpec

\* The types of the variables, for any nodes and any limits.
THEOREM TypeCorrect == ProbeSpec => []TypeOK
<1>1. IInv => TypeOK
  BY DEF IInv
<1> QED
  BY <1>1, Invariance, PTL

\* However additions, probe answers, timeouts and evictions interleave, every
\* bucket stays well formed and holds only peers that fall into it.
THEOREM TableCorrect == ProbeSpec => []TableOK
<1>1. IInv => TableOK
  BY DEF IInv
<1> QED
  BY <1>1, Invariance, PTL

\* The PONG and the timer of a PING never both run its callback.
THEOREM CallbackOnce == ProbeSpec => []CallbackAtMostOnce
<1>1. IInv => CallbackAtMostOnce
  BY DEF IInv, PingsOK, CallbackAtMostOnce
<1> QED
  BY <1>1, Invariance, PTL

\* No step takes a contact that is reachable and answers out of the table.
THEOREM StableStay == ProbeSpec => StableContactsStay
<1>1. IInv /\ [ProbeNext]_probeVars
        => [\A n \in Stable : TableHas(routing_table, n) => TableHas(routing_table', n)]_probeVars
  BY NextStep DEF StepOK, KeepsStable
<1> QED
  BY <1>1, Invariance, PTL DEF ProbeSpec, StableContactsStay

=============================================================================
