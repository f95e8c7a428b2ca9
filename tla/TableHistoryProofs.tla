------------------------- MODULE TableHistoryProofs -------------------------
(***************************************************************************)
(* Proofs about the geometry of node ids and about the histories of a      *)
(* routing table, for ids of any length, buckets and caches of any size    *)
(* and any number of calls.                                                *)
(***************************************************************************)
EXTENDS TableHistory, TableProofs, FiniteSetTheorems, WellFoundedInduction

\* The backends, in the order in which a leaf is given to them.
USE ZenonT(2), SMTT(10), ZenonT(20), SMTT(40)

(***************************************************************************)
(* What the routing of Kademlia takes from NodeID::bucket_index and the    *)
(* XOR metric.                                                             *)
(***************************************************************************)

\* An id has bits.
LEMMA BitsPositive == Bits \in Nat \ {0}
BY SMTT(30), SizeAssumption DEF Bits

\* Two ids that differ have a most significant bit in which they do, the one
\* where the loops of bucket_index end.
LEMMA FirstDifference ==
  ASSUME NEW a \in NodeID, NEW b \in NodeID, a # b
  PROVE  \E i \in 1..Bits : FirstDiffers(a, b, i)
<1> DEFINE D == {i \in 1..Bits : a[i] # b[i]}
           R == OpToRel(<, Nat)
<1>1. D \subseteq Nat
  BY BitsPositive
<1>2. D # {}
  <2>1. SUFFICES ASSUME \A i \in 1..Bits : a[i] = b[i] PROVE FALSE
    OBVIOUS
  <2>2. a = [i \in 1..Bits |-> a[i]] /\ b = [i \in 1..Bits |-> b[i]]
    BY DEF NodeID
  <2> QED
    BY <2>1, <2>2
<1>3. IsWellFoundedOn(R, Nat)
  BY NatLessThanWellFounded
<1>4. \A x, y \in Nat : x < y => <<x, y>> \in R
  BY DEF OpToRel
<1> HIDE DEF R
<1>5. PICK i \in D : \A j \in D : ~(<<j, i>> \in R)
  BY <1>1, <1>2, <1>3, WFMin
<1>6. ASSUME NEW j \in 1..(i-1)
      PROVE  j \notin D
  <2>1. i \in Nat /\ j \in Nat /\ j < i
    BY <1>1
  <2>2. <<j, i>> \in R
    BY <1>4, <2>1
  <2> QED
    BY <1>5, <2>2
<1>7. \A j \in 1..(i-1) : j \in 1..Bits
  BY SMTT(30), <1>1, BitsPositive
<1> QED
  BY <1>5, <1>6, <1>7 DEF FirstDiffers

\* A bit of an id is a bit of one of its bytes.
LEMMA BitOfByte ==
  ASSUME NEW q \in 1..Bits
  PROVE  \E i \in 0..(Size - 1), r \in 1..Width : q = i * Width + r
<1> DEFINE i == (q - 1) \div Width
           r == ((q - 1) % Width) + 1
<1>1. Size \in Nat /\ Width \in Nat /\ Width > 0 /\ q - 1 \in Nat /\ q - 1 < Size * Width
  BY SMTT(30), SizeAssumption, BitsPositive DEF Bits
<1>2. i \in Nat /\ r \in 1..Width /\ q = i * Width + r
  BY SMTT(30), <1>1
<1>3. i < Size
  <2> HIDE DEF i, r
  <2> QED
    BY SMTT(30), <1>1, <1>2
<1>4. i \in 0..(Size - 1)
  <2> HIDE DEF i, r
  <2> QED
    BY SMTT(30), <1>1, <1>2, <1>3
<1> QED
  BY Zenon, <1>2, <1>4

\* The bits of a byte come before those of the bytes behind it.
LEMMA BytesInOrder ==
  ASSUME NEW i \in Nat, NEW j \in 0..(i-1), NEW r \in 1..Width
  PROVE  j * Width + r <= i * Width /\ j * Width + r \in Nat \ {0}
<1>1. Width \in Nat /\ j \in Nat /\ i - (j + 1) \in Nat
  BY SMTT(30), SizeAssumption
<1>2. (i - (j + 1)) * Width \in Nat /\ j * Width \in Nat
  BY SMTT(30), <1>1
<1>3. i * Width = (i - (j + 1)) * Width + j * Width + Width
  BY SMTT(30), <1>1
<1> QED
  BY SMTT(30), <1>1, <1>2, <1>3

\* bucket_index tells where the first difference is, and is in the range of
\* the buckets: the loop over the bytes ends in the byte of the first bit that
\* differs, and the loop over the bits of that byte at this bit.
LEMMA BucketIndexFacts ==
  ASSUME NEW a \in NodeID, NEW b \in NodeID, a # b
  PROVE  \E i \in 1..Bits : FirstDiffers(a, b, i) /\ BucketIndex(a, b) = Bits - i
<1>1. PICK q \in 1..Bits : FirstDiffers(a, b, q)
  BY FirstDifference
<1>2. PICK i \in 0..(Size - 1), r \in 1..Width : q = i * Width + r
  BY BitOfByte
<1> DEFINE D(n) == Diff(a, b, n)
           bit == Width - r
<1>3. /\ Width \in Nat \ {0} /\ i \in Nat /\ r \in Nat /\ i * Width \in Nat
      /\ q \in Nat /\ Bits \in Nat
  BY SMTT(30), <1>2, SizeAssumption, BitsPositive
<1>4. a[q] # b[q] /\ \A p \in Nat \ {0} : p < q => a[p] = b[p]
  <2>1. \A p \in Nat \ {0} : p < q => p \in 1..(q-1)
    BY SMTT(30), <1>3
  <2> QED
    BY <1>1, <2>1 DEF FirstDiffers
<1>5. bit \in 0..(Width - 1) /\ i * Width + (Width - bit) = q
  BY SMTT(30), <1>2, <1>3
<1>6. bit \in D(i)
  BY <1>4, <1>5 DEF Diff
<1>7. ASSUME NEW m \in D(i) PROVE m <= bit
  <2>1. m \in 0..(Width - 1) /\ a[i * Width + (Width - m)] # b[i * Width + (Width - m)]
    BY DEF Diff
  <2> DEFINE p == i * Width + (Width - m)
  <2>2. p \in Nat \ {0} /\ (m > bit => p < q)
    BY SMTT(30), <1>2, <1>3, <2>1
  <2>3. ~(p < q)
    BY <1>4, <2>1, <2>2
  <2> QED
    BY SMTT(30), <1>3, <2>1, <2>2, <2>3
<1>8. ASSUME NEW j \in 0..(i-1) PROVE D(j) = {}
  <2> SUFFICES ASSUME NEW m \in 0..(Width - 1)
               PROVE  a[j * Width + (Width - m)] = b[j * Width + (Width - m)]
    BY DEF Diff
  <2>1. Width - m \in 1..Width
    BY SMTT(30), <1>3
  <2> DEFINE p == j * Width + (Width - m)
  <2>2. p <= i * Width /\ p \in Nat \ {0}
    BY <1>3, <2>1, BytesInOrder
  <2> HIDE DEF p
  <2>3. p < q
    BY SMTT(30), <1>2, <1>3, <2>2
  <2> QED
    BY <1>4, <2>2, <2>3 DEF p
<1>9. FirstByte(a, b) = i
  <2> DEFINE P(n) == Diff(a, b, n) # {} /\ \A j \in 0..(n-1) : Diff(a, b, j) = {}
  <2>1. P(i)
    BY <1>6, <1>8
  <2>2. ASSUME NEW n \in 0..(Size - 1), P(n) PROVE n = i
    <3>1. ~(n < i) /\ ~(i < n)
      <4>1. n < i => n \in 0..(i-1)
        BY SMTT(30), <1>3
      <4>2. i < n => i \in 0..(n-1)
        BY SMTT(30), <1>3
      <4> QED
        BY <2>1, <2>2, <4>1, <4>2
    <3> QED
      BY SMTT(30), <1>3, <3>1, SizeAssumption
  <2>3. FirstByte(a, b) = CHOOSE n \in 0..(Size - 1) : P(n)
    BY DEF FirstByte
  <2> HIDE DEF P
  <2> QED
    BY <2>1, <2>2, <2>3
<1>10. (CHOOSE m \in D(i) : \A n \in D(i) : n <= m) = bit
  <2>1. \A m \in D(i) : m \in Nat /\ bit \in Nat
    BY SMTT(30), <1>3, <1>5 DEF Diff
  <2> HIDE DEF D, bit
  <2> DEFINE Q(m) == \A n \in D(i) : n <= m
  <2>2. Q(bit)
    BY <1>7
  <2>3. ASSUME NEW m \in D(i), Q(m) PROVE m = bit
    <3>1. bit <= m /\ m <= bit
      BY <1>6, <1>7, <2>3
    <3> QED
      BY SMTT(30), <2>1, <3>1
  <2> HIDE DEF Q
  <2>4. (CHOOSE m \in D(i) : Q(m)) = bit
    BY <1>6, <2>2, <2>3
  <2> QED
    BY <2>4 DEF Q
<1>11. BucketIndex(a, b) = (Bits - 1) - (i * Width + ((Width - 1) - bit))
  BY <1>9, <1>10 DEF BucketIndex
<1>12. BucketIndex(a, b) = Bits - q
  BY SMTT(30), <1>2, <1>3, <1>11
<1> QED
  BY <1>1, <1>12

\* NodeID::bucket_index gives a valid index of buckets_ for every id but the
\* local one, the same from both ends.
THEOREM BucketIndexSymmetric ==
  ASSUME NEW a \in NodeID, NEW b \in NodeID, a # b
  PROVE  /\ BucketIndex(a, b) \in 0..(Bits - 1)
         /\ BucketIndex(a, b) = BucketIndex(b, a)
<1>1. PICK i \in 1..Bits : FirstDiffers(a, b, i) /\ BucketIndex(a, b) = Bits - i
  BY BucketIndexFacts
<1>2. PICK j \in 1..Bits : FirstDiffers(b, a, j) /\ BucketIndex(b, a) = Bits - j
  BY BucketIndexFacts
<1>3. i = j
  BY <1>1, <1>2, BitsPositive DEF FirstDiffers
<1> QED
  BY <1>1, <1>2, <1>3, BitsPositive

\* A contact in the bucket of a target is closer to the target than the local
\* node: a lookup whose bucket for the target is not empty gets closer.
THEOREM SameBucketIsCloser ==
  ASSUME NEW self \in NodeID, NEW target \in NodeID, NEW c \in NodeID,
         self # target, self # c,
         BucketIndex(self, c) = BucketIndex(self, target)
  PROVE  Less(XorDistance(c, target), XorDistance(self, target))
<1>1. PICK i \in 1..Bits :
        FirstDiffers(self, target, i) /\ BucketIndex(self, target) = Bits - i
  BY BucketIndexFacts
<1>2. PICK j \in 1..Bits : FirstDiffers(self, c, j) /\ BucketIndex(self, c) = Bits - j
  BY BucketIndexFacts
<1>3. i = j
  BY <1>1, <1>2, BitsPositive
<1>4. \A m \in 1..(i-1) : m \in 1..Bits
  BY BitsPositive
<1>5. self[i] \in {0, 1} /\ target[i] \in {0, 1} /\ c[i] \in {0, 1}
  BY DEF NodeID
<1>6. c[i] = target[i] /\ self[i] # target[i]
  BY <1>1, <1>2, <1>3, <1>5 DEF FirstDiffers
<1>7. XorDistance(c, target)[i] < XorDistance(self, target)[i]
  BY <1>6 DEF XorDistance
<1>8. \A m \in 1..(i-1) : XorDistance(c, target)[m] = XorDistance(self, target)[m]
  BY <1>1, <1>2, <1>3, <1>4 DEF FirstDiffers, XorDistance
<1> QED
  BY <1>7, <1>8 DEF Less

\* The buckets are in the order of the distance: a contact in a bucket with a
\* smaller index is closer to the local node.
THEOREM BucketsAreOrdered ==
  ASSUME NEW self \in NodeID, NEW a \in NodeID, NEW b \in NodeID,
         self # a, self # b,
         BucketIndex(self, a) < BucketIndex(self, b)
  PROVE  Less(XorDistance(self, a), XorDistance(self, b))
<1>1. PICK i \in 1..Bits : FirstDiffers(self, a, i) /\ BucketIndex(self, a) = Bits - i
  BY BucketIndexFacts
<1>2. PICK j \in 1..Bits : FirstDiffers(self, b, j) /\ BucketIndex(self, b) = Bits - j
  BY BucketIndexFacts
<1>3. j < i
  BY <1>1, <1>2, BitsPositive
<1>4. \A m \in 1..j : m \in 1..(i-1) /\ m \in 1..Bits
  BY <1>3, BitsPositive
<1>5. XorDistance(self, a)[j] = 0 /\ XorDistance(self, b)[j] = 1
  BY SMTT(30), <1>1, <1>2, <1>4 DEF FirstDiffers, XorDistance
<1>6. \A m \in 1..(j-1) : XorDistance(self, a)[m] = XorDistance(self, b)[m]
  BY SMTT(30), <1>1, <1>2, <1>4 DEF FirstDiffers, XorDistance
<1> QED
  BY SMTT(30), <1>5, <1>6 DEF Less

(***************************************************************************)
(* The entries of a bucket.                                                *)
(***************************************************************************)

\* What a bucket holds, as a contact or as a candidate.
Held(b) == Range(b.contacts) \cup Range(b.replacements)

\* The vector is in last-seen order, except for contacts with ids in X.
OrderedBut(s, X) ==
  \A i, j \in 1..Len(s) : i < j /\ s[i].seen > s[j].seen => s[j].id \in X

\* The elements of a vector and their ids.
LEMMA RangeFacts ==
  ASSUME NEW S, NEW s \in Seq(S)
  PROVE  /\ \A e : e \in Range(s) <=> \E i \in 1..Len(s) : e = s[i]
         /\ \A e \in Range(s) : e \in S /\ e.id \in Ids(s)
BY SMTT(30) DEF Range, Ids

\* Erasing an entry leaves the others, in their order.
LEMMA EraseHeld ==
  ASSUME NEW S, NEW s \in Seq(S), NoDuplicates(s), NEW i \in 1..Len(s)
  PROVE  /\ \A e \in Range(Erase(s, i)) : e \in Range(s) /\ e.id # s[i].id
         /\ \A X : OrderedBut(s, X) => OrderedBut(Erase(s, i), X \ {s[i].id})
<1> DEFINE r == Erase(s, i)
<1>0. Len(s) \in Nat
  OBVIOUS
<1>1. /\ r \in Seq(S) /\ Len(r) = Len(s) - 1
      /\ \A j \in 1..(Len(s) - 1) : r[j] = IF j < i THEN s[j] ELSE s[j + 1]
  BY EraseProperties
<1>2. Ids(r) = Ids(s) \ {s[i].id}
  BY EraseIds
<1> HIDE DEF r
<1>3. ASSUME NEW j \in 1..Len(r)
      PROVE  LET k == IF j < i THEN j ELSE j + 1 IN k \in 1..Len(s) /\ r[j] = s[k]
  BY <1>0, <1>1
<1>4. ASSUME NEW e \in Range(r)
      PROVE  e \in Range(s) /\ e.id # s[i].id
  <2>1. PICK j \in 1..Len(r) : e = r[j]
    BY SMTT(30), <1>1, RangeFacts
  <2>2. e \in Range(s)
    BY <2>1, <1>3, RangeFacts
  <2>3. e.id \in Ids(r)
    BY <1>1, RangeFacts
  <2> QED  BY <2>2, <2>3, <1>2
<1>5. ASSUME NEW X, OrderedBut(s, X)
      PROVE  OrderedBut(r, X \ {s[i].id})
  <2> SUFFICES ASSUME NEW j \in 1..Len(r), NEW k \in 1..Len(r), j < k, r[j].seen > r[k].seen
               PROVE  r[k].id \in X \ {s[i].id}
    BY DEF OrderedBut
  <2> DEFINE p == IF j < i THEN j ELSE j + 1
             q == IF k < i THEN k ELSE k + 1
  <2>1. p \in 1..Len(s) /\ q \in 1..Len(s) /\ p < q
    BY <1>0, <1>1
  <2>2. r[j] = s[p] /\ r[k] = s[q]
    BY <1>3
  <2> HIDE DEF p, q
  <2>3. r[k].id \in X
    BY <2>1, <2>2, <1>5 DEF OrderedBut
  <2>4. r[k] \in Range(r)
    BY <1>1, RangeFacts
  <2> QED  BY <2>3, <2>4, <1>4
<1> QED  BY <1>4, <1>5 DEF r

\* An entry is put last.
LEMMA AppendSet ==
  ASSUME NEW S, NEW s \in Seq(S), NEW c \in S
  PROVE  \A e \in Range(Append(s, c)) : e = c \/ e \in Range(s)
<1> DEFINE r == Append(s, c)
<1>1. /\ r \in Seq(S) /\ Len(r) = Len(s) + 1 /\ r[Len(s) + 1] = c /\ Len(s) \in Nat
      /\ \A i \in 1..Len(s) : r[i] = s[i]
  OBVIOUS
<1> HIDE DEF r
<1>2. \A i \in 1..Len(r) : i \in 1..Len(s) \/ i = Len(s) + 1
  BY <1>1
<1>3. \A e \in Range(r) : e = c \/ e \in Range(s)
  BY SMTT(30), <1>1, <1>2, RangeFacts
<1> QED  BY <1>3 DEF r

\* An entry is put last: one that was seen last, or one in X.
LEMMA AppendHeld ==
  ASSUME NEW S, NEW s \in Seq(S), NEW c \in S, NEW X, OrderedBut(s, X),
         c.id \in X \/ \A e \in Range(s) : ~(e.seen > c.seen)
  PROVE  OrderedBut(Append(s, c), X)
<1> DEFINE r == Append(s, c)
<1>1. /\ r \in Seq(S) /\ Len(r) = Len(s) + 1 /\ r[Len(s) + 1] = c /\ Len(s) \in Nat
      /\ \A i \in 1..Len(s) : r[i] = s[i]
  OBVIOUS
<1> HIDE DEF r
<1>2. \A i \in 1..Len(r) : i \in 1..Len(s) \/ i = Len(s) + 1
  BY <1>1
<1>4. ASSUME NEW i \in 1..Len(r), NEW j \in 1..Len(r), i < j, r[i].seen > r[j].seen
      PROVE  r[j].id \in X
  <2>1. i \in 1..Len(s) /\ r[i] = s[i] /\ s[i] \in Range(s)
    BY SMTT(30), <1>1, <1>2, <1>4, RangeFacts
  <2>2. CASE j \in 1..Len(s)
    BY <2>1, <2>2, <1>1, <1>4 DEF OrderedBut
  <2>3. CASE j = Len(s) + 1
    BY <2>1, <2>3, <1>1, <1>4
  <2> QED  BY <2>2, <2>3, <1>2
<1> QED  BY <1>4 DEF OrderedBut, r

\* A contact is moved to the back, seen last.
LEMMA MoveToBackHeld ==
  ASSUME NEW S, NEW s \in Seq(S), NoDuplicates(s), NEW c \in S, c.id \in Ids(s),
         \A e \in Range(s) : ~(e.seen > c.seen)
  PROVE  /\ \A e \in Range(MoveToBack(s, c)) : e = c \/ (e \in Range(s) /\ e.id # c.id)
         /\ \A X : OrderedBut(s, X) => OrderedBut(MoveToBack(s, c), X \ {c.id})
<1> DEFINE k == IndexOf(s, c.id)
           r == Erase(s, k)
<1>1. k \in 1..Len(s) /\ s[k].id = c.id
  BY IndexOfProperties
<1>2. r \in Seq(S)
  BY <1>1, EraseProperties
<1>3. /\ \A e \in Range(r) : e \in Range(s) /\ e.id # c.id
      /\ \A X : OrderedBut(s, X) => OrderedBut(r, X \ {c.id})
  <2> HIDE DEF k
  <2>1. /\ \A e \in Range(Erase(s, k)) : e \in Range(s) /\ e.id # s[k].id
        /\ \A X : OrderedBut(s, X) => OrderedBut(Erase(s, k), X \ {s[k].id})
    BY <1>1, EraseHeld
  <2> QED  BY <2>1, <1>1
<1>4. MoveToBack(s, c) = Append(r, c)
  BY DEF MoveToBack
<1> HIDE DEF r
<1>5. \A e \in Range(r) : ~(e.seen > c.seen)
  BY <1>3
<1>6. \A e \in Range(Append(r, c)) : e = c \/ e \in Range(r)
  BY <1>2, AppendSet
<1>7. ASSUME NEW X, OrderedBut(s, X)
      PROVE  OrderedBut(Append(r, c), X \ {c.id})
  <2>1. OrderedBut(r, X \ {c.id})
    BY <1>3, <1>7
  <2> QED  BY <2>1, <1>2, <1>5, AppendHeld
<1> QED  BY <1>3, <1>4, <1>6, <1>7

\* A candidate is refreshed in its place.
LEMMA UpdateInPlaceSet ==
  ASSUME NEW S, NEW s \in Seq(S), NoDuplicates(s), NEW c \in S, c.id \in Ids(s)
  PROVE  \A e \in Range(UpdateInPlace(s, c)) : e = c \/ (e \in Range(s) /\ e.id # c.id)
<1> DEFINE k == IndexOf(s, c.id)
           r == UpdateInPlace(s, c)
<1>1. k \in 1..Len(s) /\ s[k].id = c.id
  BY IndexOfProperties
<1>2. r \in Seq(S) /\ Len(r) = Len(s)
  BY UpdateInPlaceIds
<1>3. r = [s EXCEPT ![k] = c]
  BY DEF UpdateInPlace
<1> HIDE DEF k, r
<1>4. \A i \in 1..Len(s) : (i = k /\ r[i] = c) \/ (i # k /\ r[i] = s[i])
  BY <1>1, <1>3
<1>5. \A i \in 1..Len(s) : i # k => s[i].id # c.id
  BY <1>1 DEF NoDuplicates
<1>6. ASSUME NEW e \in Range(r)
      PROVE  e = c \/ (e \in Range(s) /\ e.id # c.id)
  <2>1. PICK i \in 1..Len(s) : e = r[i]
    BY <1>2, RangeFacts
  <2>2. s[i] \in Range(s)
    BY RangeFacts
  <2> QED  BY <2>1, <2>2, <1>4, <1>5
<1> QED  BY <1>6 DEF r

\* The first entry is taken away.
LEMMA TailSet ==
  ASSUME NEW S, NEW s \in Seq(S), s # <<>>
  PROVE  \A e \in Range(Tail(s)) : e \in Range(s)
<1> DEFINE t == Tail(s)
<1>1. t \in Seq(S) /\ \A i \in 1..Len(t) : i + 1 \in 1..Len(s) /\ t[i] = s[i + 1]
  OBVIOUS
<1> HIDE DEF t
<1>2. \A e \in Range(t) : e \in Range(s)
  BY SMTT(30), <1>1, RangeFacts
<1> QED  BY <1>2 DEF t

\* A new candidate, which may push the oldest one out.
LEMMA PushCandidateSet ==
  ASSUME NEW S, NEW s \in Seq(S), NEW c \in S
  PROVE  \A e \in Range(PushCandidate(s, c)) : e = c \/ e \in Range(s)
<1> DEFINE t == IF Len(s) >= MaxReplacements THEN Tail(s) ELSE s
<1>1. t \in Seq(S) /\ \A i \in 1..Len(t) : \E j \in 1..Len(s) : t[i] = s[j]
  <2>1. CASE t = s
    BY <2>1
  <2>2. CASE t = Tail(s) /\ Len(s) >= MaxReplacements
    <3>1. Len(s) \in Nat /\ s # <<>>
      BY <2>2, MaxReplacementsAssumption
    <3>2. Tail(s) \in Seq(S) /\ \A i \in 1..Len(Tail(s)) :
             i + 1 \in 1..Len(s) /\ Tail(s)[i] = s[i + 1]
      BY <3>1
    <3> QED  BY <3>2, <2>2
  <2> QED  BY <2>1, <2>2
<1>2. PushCandidate(s, c) = Append(t, c)
  BY DEF PushCandidate
<1> HIDE DEF t
<1>3. \A e \in Range(t) : e \in Range(s)
  BY SMTT(30), <1>1, RangeFacts
<1> QED  BY <1>1, <1>2, <1>3, AppendSet

\* KBucket::add_or_update of a peer seen last: its old entry is gone, and the
\* order of the contacts is kept.
LEMMA AddOrUpdateHeld ==
  ASSUME NEW S, NEW b \in Bucket(S), WellFormed(b), NEW c \in S,
         \A e \in Held(b) : ~(e.seen > c.seen)
  PROVE  /\ \A e \in Held(AddOrUpdate(b, c)) : e = c \/ (e \in Held(b) /\ e.id # c.id)
         /\ \A X : OrderedBut(b.contacts, X) =>
                     OrderedBut(AddOrUpdate(b, c).contacts, X \ {c.id})
<1> DEFINE con == b.contacts
           rep == b.replacements
<1>0. /\ b = [contacts |-> con, replacements |-> rep]
      /\ con \in Seq(S) /\ rep \in Seq(S)
  BY DEF Bucket
<1>1. /\ NoDuplicates(con) /\ NoDuplicates(rep)
      /\ Ids(con) \cap Ids(rep) = {}
  BY DEF WellFormed
<1>2. \A e \in Range(con) : e.id \in Ids(con) /\ ~(e.seen > c.seen)
  BY <1>0, RangeFacts DEF Held
<1>3. \A e \in Range(rep) : e.id \in Ids(rep)
  BY <1>0, RangeFacts
<1>4. ASSUME NEW X, OrderedBut(con, X), c.id \notin Ids(con)
      PROVE  OrderedBut(con, X \ {c.id})
  <2>1. \A i \in 1..Len(con) : con[i].id # c.id
    BY <1>4 DEF Ids
  <2> QED  BY <2>1, <1>4 DEF OrderedBut
<1>5. CASE c.id \in Ids(con)
  <2>1. AddOrUpdate(b, c) = [contacts |-> MoveToBack(con, c), replacements |-> rep]
    BY <1>0, <1>5 DEF AddOrUpdate, IsContact
  <2>2. /\ AddOrUpdate(b, c).contacts = MoveToBack(con, c)
        /\ AddOrUpdate(b, c).replacements = rep
    BY <2>1
  <2> HIDE DEF con, rep
  <2>3. /\ \A e \in Range(MoveToBack(con, c)) : e = c \/ (e \in Range(con) /\ e.id # c.id)
        /\ \A X : OrderedBut(con, X) => OrderedBut(MoveToBack(con, c), X \ {c.id})
    BY <1>0, <1>1, <1>2, <1>5, MoveToBackHeld
  <2>4. c.id \notin Ids(rep)
    BY <1>1, <1>5
  <2> QED  BY <1>3, <2>2, <2>3, <2>4 DEF Held, con, rep
<1>6. CASE c.id \notin Ids(con) /\ ~IsFull(b)
  <2>1. AddOrUpdate(b, c) = [contacts |-> Append(con, c), replacements |-> rep]
    BY <1>0, <1>6 DEF AddOrUpdate, IsContact
  <2>2. /\ AddOrUpdate(b, c).contacts = Append(con, c)
        /\ AddOrUpdate(b, c).replacements = rep
    BY <2>1
  <2>3. rep = <<>>
    BY <1>0, <1>6, CapacityAssumption DEF IsFull, WellFormed
  <2> HIDE DEF con, rep
  <2>4. \A e \in Range(Append(con, c)) : e = c \/ e \in Range(con)
    BY <1>0, AppendSet
  <2>5. ASSUME NEW X, OrderedBut(con, X)
        PROVE  OrderedBut(Append(con, c), X \ {c.id})
    <3>1. OrderedBut(con, X \ {c.id})
      BY <1>4, <1>6, <2>5
    <3> QED  BY <3>1, <1>0, <1>2, AppendHeld
  <2>6. Range(rep) = {}
    BY <2>3 DEF Range
  <2> QED  BY <1>2, <1>6, <2>2, <2>4, <2>5, <2>6 DEF Held, con, rep
<1>7. CASE c.id \notin Ids(con) /\ IsFull(b) /\ c.id \in Ids(rep)
  <2>1. AddOrUpdate(b, c) = [contacts |-> con, replacements |-> UpdateInPlace(rep, c)]
    BY <1>0, <1>7 DEF AddOrUpdate, IsContact
  <2>2. /\ AddOrUpdate(b, c).contacts = con
        /\ AddOrUpdate(b, c).replacements = UpdateInPlace(rep, c)
    BY <2>1
  <2> HIDE DEF con, rep
  <2>3. \A e \in Range(UpdateInPlace(rep, c)) : e = c \/ (e \in Range(rep) /\ e.id # c.id)
    BY <1>0, <1>1, <1>7, UpdateInPlaceSet
  <2> QED  BY <1>2, <1>4, <1>7, <2>2, <2>3 DEF Held, con, rep
<1>8. CASE c.id \notin Ids(con) /\ IsFull(b) /\ c.id \notin Ids(rep)
  <2>1. AddOrUpdate(b, c) = [contacts |-> con, replacements |-> PushCandidate(rep, c)]
    BY <1>0, <1>8 DEF AddOrUpdate, IsContact
  <2>2. /\ AddOrUpdate(b, c).contacts = con
        /\ AddOrUpdate(b, c).replacements = PushCandidate(rep, c)
    BY <2>1
  <2> HIDE DEF con, rep
  <2>3. \A e \in Range(PushCandidate(rep, c)) : e = c \/ e \in Range(rep)
    BY <1>0, PushCandidateSet
  <2> QED  BY <1>2, <1>3, <1>4, <1>8, <2>2, <2>3 DEF Held, con, rep
<1> QED  BY <1>5, <1>6, <1>7, <1>8

\* KBucket::remove: nothing new is held, and the only contact that may be out
\* of order is the one that was not a contact before.
LEMMA RemovedHeld ==
  ASSUME NEW S, NEW b \in Bucket(S), WellFormed(b), NEW id
  PROVE  /\ \A e \in Held(Removed(b, id)) : e \in Held(b)
         /\ \A X : OrderedBut(b.contacts, X) =>
              OrderedBut(Removed(b, id).contacts,
                         (X \ {id}) \cup (Ids(Removed(b, id).contacts) \ Ids(b.contacts)))
<1> DEFINE con == b.contacts
           rep == b.replacements
<1>0. /\ b = [contacts |-> con, replacements |-> rep]
      /\ con \in Seq(S) /\ rep \in Seq(S)
  BY DEF Bucket
<1>1. /\ NoDuplicates(con) /\ NoDuplicates(rep)
      /\ Ids(con) \cap Ids(rep) = {}
  BY DEF WellFormed
<1>2. CASE IsContact(b, id)
  <2> DEFINE k == IndexOf(con, id)
             rest == Erase(con, k)
  <2>0. id \in Ids(con)
    BY <1>2 DEF IsContact
  <2>1. k \in 1..Len(con) /\ con[k].id = id
    BY <2>0, <1>0, <1>1, IndexOfProperties
  <2> HIDE DEF k
  <2>2. rest \in Seq(S)
    BY <2>1, <1>0, EraseProperties
  <2>3. /\ \A e \in Range(rest) : e \in Range(con)
        /\ \A X : OrderedBut(con, X) => OrderedBut(rest, X \ {id})
    BY <2>1, <1>0, <1>1, EraseHeld
  <2>4. \A Y, Z : Y \subseteq Z /\ OrderedBut(rest, Y) => OrderedBut(rest, Z)
    BY DEF OrderedBut
  <2>5. CASE rep = <<>>
    <3>1. Removed(b, id) = [contacts |-> rest, replacements |-> rep]
      BY <1>0, <1>2, <2>5 DEF Removed, k
    <3>2. Removed(b, id).contacts = rest /\ Removed(b, id).replacements = rep
      BY <3>1
    <3> HIDE DEF rest, con, rep
    <3>3. \A e \in Held(Removed(b, id)) : e \in Held(b)
      BY <3>2, <2>3 DEF Held, con, rep
    <3>4. ASSUME NEW X, OrderedBut(con, X)
          PROVE  OrderedBut(rest, (X \ {id}) \cup (Ids(rest) \ Ids(con)))
      <4>1. OrderedBut(rest, X \ {id})
        BY <2>3, <3>4
      <4> QED  BY SMTT(30), <4>1, <2>4
    <3> QED  BY <3>2, <3>3, <3>4 DEF con
  <2>6. CASE rep # <<>>
    <3> DEFINE c == Head(rep)
    <3>1. Removed(b, id) = [contacts |-> Append(rest, c), replacements |-> Tail(rep)]
      BY <1>0, <1>2, <2>6 DEF Removed, k
    <3>2. Removed(b, id).contacts = Append(rest, c) /\ Removed(b, id).replacements = Tail(rep)
      BY <3>1
    <3>3. /\ c \in S /\ c = rep[1] /\ 1 \in 1..Len(rep) /\ Tail(rep) \in Seq(S)
          /\ \A i \in 1..Len(Tail(rep)) : i + 1 \in 1..Len(rep) /\ Tail(rep)[i] = rep[i + 1]
      BY <1>0, <2>6
    <3>4. c \in Range(rep) /\ c.id \in Ids(rep) /\ c.id \notin Ids(con)
      <4>1. c \in Range(rep)
        BY <3>3, <1>0, RangeFacts
      <4>2. c.id \in Ids(rep)
        BY <4>1, <1>0, RangeFacts
      <4> QED  BY <4>1, <4>2, <1>1
    <3> HIDE DEF rest, con, rep, c
    <3>5. \A e \in Range(Tail(rep)) : e \in Range(rep)
      BY <2>6, <1>0, TailSet
    <3>6. \A e \in Range(Append(rest, c)) : e = c \/ e \in Range(rest)
      BY <2>2, <3>3, AppendSet
    <3>7. \A e \in Held(Removed(b, id)) : e \in Held(b)
      BY <3>2, <3>4, <3>5, <3>6, <2>3 DEF Held, con, rep
    <3>8. c.id \in Ids(Append(rest, c))
      <4>1. Append(rest, c) \in Seq(S) /\ Len(rest) + 1 \in 1..Len(Append(rest, c))
            /\ Append(rest, c)[Len(rest) + 1] = c
        BY SMTT(30), <2>2, <3>3
      <4> QED  BY <4>1 DEF Ids
    <3>9. ASSUME NEW X, OrderedBut(con, X)
          PROVE  OrderedBut(Append(rest, c), (X \ {id}) \cup (Ids(Append(rest, c)) \ Ids(con)))
      <4> DEFINE Z == (X \ {id}) \cup (Ids(Append(rest, c)) \ Ids(con))
      <4>1. OrderedBut(rest, X \ {id})
        BY <2>3, <3>9
      <4>2. X \ {id} \subseteq Z /\ c.id \in Z
        BY <3>4, <3>8
      <4> HIDE DEF Z
      <4>3. OrderedBut(rest, Z)
        BY <4>1, <4>2, <2>4
      <4>4. OrderedBut(Append(rest, c), Z)
        BY <4>2, <4>3, <2>2, <3>3, AppendHeld
      <4> QED  BY <4>4 DEF Z
    <3> QED  BY <3>2, <3>7, <3>9 DEF con
  <2> QED  BY <2>5, <2>6
<1>3. ASSUME ~IsContact(b, id), Removed(b, id).contacts = con
      PROVE  \A X : OrderedBut(con, X) =>
              OrderedBut(Removed(b, id).contacts,
                         (X \ {id}) \cup (Ids(Removed(b, id).contacts) \ Ids(con)))
  <2>1. \A i \in 1..Len(con) : con[i].id # id
    BY <1>3 DEF Ids, IsContact
  <2> HIDE DEF con
  <2> QED  BY <2>1, <1>3 DEF OrderedBut
<1>4. CASE ~IsContact(b, id) /\ id \in Ids(rep)
  <2> DEFINE k == IndexOf(rep, id)
             new == Erase(rep, k)
  <2>1. Removed(b, id) = [contacts |-> con, replacements |-> new]
    BY <1>0, <1>4 DEF Removed
  <2>2. Removed(b, id).contacts = con /\ Removed(b, id).replacements = new
    BY <2>1
  <2>3. k \in 1..Len(rep)
    BY <1>0, <1>1, <1>4, IndexOfProperties
  <2> HIDE DEF k
  <2>4. \A e \in Range(new) : e \in Range(rep)
    BY <2>3, <1>0, <1>1, EraseHeld
  <2> HIDE DEF new, con, rep
  <2>5. \A e \in Held(Removed(b, id)) : e \in Held(b)
    BY <2>2, <2>4 DEF Held, con, rep
  <2> QED  BY <1>3, <1>4, <2>2, <2>5 DEF con
<1>5. CASE ~IsContact(b, id) /\ id \notin Ids(rep)
  <2>1. Removed(b, id) = b
    BY <1>5 DEF Removed
  <2> QED  BY <1>3, <1>5, <2>1
<1> QED  BY <1>2, <1>4, <1>5

\* KBucket::touch: entries keep their addresses, and the one that moves to the
\* back was seen last.
LEMMA TouchedHeld ==
  ASSUME NEW S, NEW b \in Bucket(S), WellFormed(b), NEW id, NEW t \in Nat,
         \A c \in S : /\ SeenAt(c, t) \in S /\ SeenAt(c, t).id = c.id
                      /\ SeenAt(c, t).seen = t,
         \A e \in Held(b) : ~(e.seen > t)
  PROVE  /\ \A e \in Held(Touched(b, id, t)) :
              e \in Held(b) \/ \E d \in Held(b) : e = SeenAt(d, t)
         /\ \A X : OrderedBut(b.contacts, X) =>
                     OrderedBut(Touched(b, id, t).contacts, X \ {id})
<1> DEFINE con == b.contacts
           rep == b.replacements
<1>0. /\ b = [contacts |-> con, replacements |-> rep]
      /\ con \in Seq(S) /\ rep \in Seq(S)
  BY DEF Bucket
<1>1. /\ NoDuplicates(con) /\ NoDuplicates(rep)
      /\ Ids(con) \cap Ids(rep) = {}
  BY DEF WellFormed
<1>2. CASE IsContact(b, id)
  <2> DEFINE k == IndexOf(con, id)
             d == con[k]
             c == SeenAt(d, t)
  <2>0. id \in Ids(con)
    BY <1>2 DEF IsContact
  <2>1. k \in 1..Len(con) /\ d.id = id
    BY <2>0, <1>0, <1>1, IndexOfProperties
  <2>2. Touched(b, id, t) = [contacts |-> MoveToBack(con, c), replacements |-> rep]
    BY <1>0, <1>2 DEF Touched, FindContact
  <2>3. /\ Touched(b, id, t).contacts = MoveToBack(con, c)
        /\ Touched(b, id, t).replacements = rep
    BY <2>2
  <2> HIDE DEF k
  <2>4. d \in S /\ d \in Range(con)
    BY <2>1, <1>0, RangeFacts
  <2> HIDE DEF d
  <2>5. c \in S /\ c.id = id /\ c.seen = t
    BY <2>1, <2>4
  <2>6. \A e \in Range(con) : ~(e.seen > c.seen)
    BY <2>5 DEF Held
  <2> HIDE DEF c, con, rep
  <2>7. /\ \A e \in Range(MoveToBack(con, c)) : e = c \/ (e \in Range(con) /\ e.id # c.id)
        /\ \A X : OrderedBut(con, X) => OrderedBut(MoveToBack(con, c), X \ {c.id})
    BY <2>0, <2>5, <2>6, <1>0, <1>1, MoveToBackHeld
  <2>8. d \in Held(b) /\ c = SeenAt(d, t)
    BY <2>4 DEF Held, con, c
  <2> QED  BY <2>3, <2>5, <2>7, <2>8 DEF Held, con, rep
<1>3. CASE ~IsContact(b, id)
  <2>1. Touched(b, id, t) = b
    BY <1>3 DEF Touched
  <2>2. \A i \in 1..Len(con) : con[i].id # id
    BY <1>3 DEF Ids, IsContact
  <2>3. \A X : OrderedBut(con, X) => OrderedBut(con, X \ {id})
    BY <2>2 DEF OrderedBut
  <2> QED  BY <2>1, <2>3
<1> QED  BY <1>2, <1>3

(***************************************************************************)
(* The histories of a table.                                               *)
(***************************************************************************)

Entry == [id : Nodes, addr : Addrs, seen : Nat]

\* Bucket i is well formed, its entries belong there, have the address that
\* was reported last and were not seen in the future, and only promoted
\* contacts are out of order.
BucketOK(i) ==
  /\ WellFormed(table[i])
  /\ \A e \in Held(table[i]) :
       BucketOf[e.id] = i /\ e.seen <= now /\ e.addr = lastAddr[e.id]
  /\ OrderedBut(table[i].contacts, promoted)

HistoryTypeOK ==
  /\ table \in [Buckets -> Bucket(Entry)]
  /\ now \in Nat
  /\ lastAddr \in [Peers -> Addrs \cup {NoAddr}]

HistoryInv == HistoryTypeOK /\ \A i \in Buckets : BucketOK(i)

\* Every bucket index is the one of the NodeIDs that belong there.
LEMMA BucketOfFacts ==
  /\ Self \notin Nodes
  /\ \A n \in Nodes : /\ n \in NodeID /\ n # Self /\ n \in Peers
                      /\ BucketOf[n] = BucketIndex(Self, n) /\ BucketOf[n] \in Buckets
BY SelfAssumption, BucketOfAssumption, TableAssumption DEF Peers

\* What an entry of a bucket is.
LEMMA HeldEntries ==
  ASSUME NEW b \in Bucket(Entry), NEW e \in Held(b)
  PROVE  e \in Entry /\ e.id \in Nodes /\ e.addr \in Addrs /\ e.seen \in Nat
<1>1. b.contacts \in Seq(Entry) /\ b.replacements \in Seq(Entry)
  BY DEF Bucket
<1>2. e \in Entry
  BY <1>1, RangeFacts DEF Held
<1> QED  BY <1>2 DEF Entry

\* The contacts and their ids.
LEMMA ContactsHeld ==
  ASSUME NEW b \in Bucket(Entry)
  PROVE  /\ \A j \in 1..Len(b.contacts) : b.contacts[j] \in Held(b)
         /\ \A m : m \in Ids(b.contacts) => \E e \in Held(b) : e.id = m
<1>1. b.contacts \in Seq(Entry)
  BY DEF Bucket
<1>2. \A j \in 1..Len(b.contacts) : b.contacts[j] \in Held(b)
  BY <1>1, RangeFacts DEF Held
<1> QED  BY <1>2 DEF Ids

\* A call about n leaves a bucket that holds no entry of n alone.
LEMMA OtherBucket ==
  ASSUME HistoryTypeOK, NEW i \in Buckets, BucketOK(i), NEW n,
         \A e \in Held(table[i]) : e.id # n,
         table'[i] = table[i], now' = now + 1,
         \A m \in Nodes : m # n => lastAddr'[m] = lastAddr[m],
         promoted \ {n} \subseteq promoted'
  PROVE  BucketOK(i)'
<1>1. table[i] \in Bucket(Entry) /\ now \in Nat
  BY DEF HistoryTypeOK
<1>2. ASSUME NEW e \in Held(table[i])
      PROVE  BucketOf[e.id] = i /\ e.seen <= now' /\ e.addr = lastAddr'[e.id]
  <2>1. e.id \in Nodes /\ e.seen \in Nat /\ e.id # n
    BY <1>1, HeldEntries
  <2>2. BucketOf[e.id] = i /\ e.seen <= now /\ e.addr = lastAddr[e.id]
    BY DEF BucketOK
  <2>3. e.seen <= now + 1
    BY SMTT(30), <2>1, <2>2, <1>1
  <2> QED  BY <2>1, <2>2, <2>3
<1>3. \A j \in 1..Len(table[i].contacts) : table[i].contacts[j].id # n
  BY <1>1, ContactsHeld
<1>4. OrderedBut(table[i].contacts, promoted')
  BY <1>3 DEF BucketOK, OrderedBut
<1>5. WellFormed(table[i])
  BY DEF BucketOK
<1> QED  BY <1>2, <1>4, <1>5 DEF BucketOK

\* add_or_update keeps the invariant.
LEMMA AddKeepsHistory ==
  ASSUME HistoryInv, NEW n \in Peers, NEW a \in Addrs, DoAddOrUpdate(n, a)
  PROVE  HistoryInv'
<1> DEFINE c == [id |-> n, addr |-> a, seen |-> now']
<1>1. /\ table' = TableAddOrUpdate(table, c) /\ now' = now + 1
      /\ lastAddr' = [lastAddr EXCEPT ![n] = a]
      /\ promoted' = promoted \ {n}
  BY DEF DoAddOrUpdate, Tick
<1>2. /\ table \in [Buckets -> Bucket(Entry)] /\ now \in Nat /\ now' \in Nat
      /\ lastAddr \in [Peers -> Addrs \cup {NoAddr}]
  BY <1>1 DEF HistoryInv, HistoryTypeOK
<1>3. /\ lastAddr' \in [Peers -> Addrs \cup {NoAddr}] /\ lastAddr'[n] = a
      /\ \A m \in Nodes : m # n => lastAddr'[m] = lastAddr[m]
  BY <1>1, <1>2, BucketOfFacts
<1>4. CASE n = Self
  <2>1. table' = table
    BY <1>1, <1>4 DEF TableAddOrUpdate
  <2>2. ASSUME NEW i \in Buckets
        PROVE  BucketOK(i)'
    <3>1. \A e \in Held(table[i]) : e.id # n
      BY <1>2, <1>4, HeldEntries, BucketOfFacts
    <3> QED  BY <3>1, <2>1, <1>1, <1>3, OtherBucket DEF HistoryInv
  <2> QED  BY <2>1, <2>2, <1>2, <1>3 DEF HistoryInv, HistoryTypeOK
<1>5. CASE n # Self
  <2> DEFINE k == BucketOf[n]
  <2>0. n \in Nodes /\ k \in Buckets
    BY <1>5, BucketOfFacts DEF Peers
  <2>1. c \in Entry /\ c.id = n /\ c.addr = a /\ c.seen = now'
    BY <2>0, <1>2 DEF Entry
  <2>2. table' = [table EXCEPT ![k] = AddOrUpdate(@, c)]
    BY <1>1, <1>5 DEF TableAddOrUpdate
  <2> HIDE DEF c, k
  <2>3. table'[k] = AddOrUpdate(table[k], c) /\ \A i \in Buckets : i # k => table'[i] = table[i]
    BY <2>0, <2>2, <1>2
  <2>4. table[k] \in Bucket(Entry) /\ BucketOK(k) /\ WellFormed(table[k])
    BY <2>0, <1>2 DEF HistoryInv, BucketOK
  <2>5. /\ AddOrUpdate(table[k], c) \in Bucket(Entry)
        /\ WellFormed(AddOrUpdate(table[k], c))
    BY <2>1, <2>4, AddOrUpdateWellFormed
  <2>6. ASSUME NEW e \in Held(table[k])
        PROVE  /\ ~(e.seen > c.seen) /\ e.seen <= now' /\ e.id \in Nodes
               /\ BucketOf[e.id] = k /\ e.addr = lastAddr[e.id]
    <3>1. e.seen \in Nat /\ e.id \in Nodes
      BY <2>4, HeldEntries
    <3>2. e.seen <= now /\ BucketOf[e.id] = k /\ e.addr = lastAddr[e.id]
      BY <2>4 DEF BucketOK
    <3>3. ~(e.seen > now + 1) /\ e.seen <= now + 1
      BY <3>1, <3>2, <1>2
    <3> QED  BY <3>1, <3>2, <3>3, <2>1, <1>1
  <2>7. /\ \A e \in Held(AddOrUpdate(table[k], c)) : e = c \/ (e \in Held(table[k]) /\ e.id # n)
        /\ OrderedBut(AddOrUpdate(table[k], c).contacts, promoted \ {n})
    <3>1. \A e \in Held(table[k]) : ~(e.seen > c.seen)
      BY <2>6
    <3>2. OrderedBut(table[k].contacts, promoted)
      BY <2>4 DEF BucketOK
    <3>3. /\ \A e \in Held(AddOrUpdate(table[k], c)) :
               e = c \/ (e \in Held(table[k]) /\ e.id # c.id)
          /\ \A X : OrderedBut(table[k].contacts, X) =>
                      OrderedBut(AddOrUpdate(table[k], c).contacts, X \ {c.id})
      BY <3>1, <2>1, <2>4, AddOrUpdateHeld
    <3> QED  BY <3>2, <3>3, <2>1
  <2>8. ASSUME NEW e \in Held(AddOrUpdate(table[k], c))
        PROVE  BucketOf[e.id] = k /\ e.seen <= now' /\ e.addr = lastAddr'[e.id]
    <3>1. CASE e = c
      <4>1. now' <= now'
        BY <1>2
      <4> QED  BY <3>1, <4>1, <2>1, <1>3 DEF k
    <3>2. CASE e \in Held(table[k]) /\ e.id # n
      BY <3>2, <2>6, <1>3
    <3> QED  BY <3>1, <3>2, <2>7
  <2>9. BucketOK(k)'
    <3>1. k' = k
      BY DEF k
    <3> QED  BY <2>3, <2>5, <2>7, <2>8, <1>1 DEF BucketOK
  <2>10. ASSUME NEW i \in Buckets, i # k
         PROVE  BucketOK(i)'
    <3>1. \A e \in Held(table[i]) : e.id # n
      BY SMTT(30), <2>10 DEF HistoryInv, BucketOK, k
    <3> QED  BY <3>1, <2>3, <2>10, <1>1, <1>3, OtherBucket DEF HistoryInv
  <2>11. table' \in [Buckets -> Bucket(Entry)]
    BY <2>0, <2>2, <2>5, <1>2
  <2> QED  BY <2>9, <2>10, <2>11, <1>2, <1>3 DEF HistoryInv, HistoryTypeOK
<1> QED  BY <1>4, <1>5

\* remove keeps the invariant: the candidate that it promotes is a new contact.
LEMMA RemoveKeepsHistory ==
  ASSUME HistoryInv, NEW n \in Peers, DoRemove(n)
  PROVE  HistoryInv'
<1>1. /\ table' = TableRemoved(table, n) /\ now' = now + 1 /\ lastAddr' = lastAddr
      /\ promoted' = (promoted \ {n}) \cup
           {m \in Peers : TableHas(table', m) /\ ~TableHas(table, m)}
  BY DEF DoRemove, Tick
<1>2. /\ table \in [Buckets -> Bucket(Entry)] /\ now \in Nat /\ now' \in Nat
      /\ lastAddr \in [Peers -> Addrs \cup {NoAddr}]
  BY <1>1 DEF HistoryInv, HistoryTypeOK
<1>3. promoted \ {n} \subseteq promoted'
  BY <1>1
<1>4. CASE n = Self
  <2>1. table' = table
    BY <1>1, <1>4 DEF TableRemoved
  <2>2. ASSUME NEW i \in Buckets
        PROVE  BucketOK(i)'
    <3>1. \A e \in Held(table[i]) : e.id # n
      BY <1>2, <1>4, HeldEntries, BucketOfFacts
    <3> QED  BY <3>1, <2>1, <1>1, <1>3, OtherBucket DEF HistoryInv
  <2> QED  BY <2>1, <2>2, <1>1, <1>2 DEF HistoryInv, HistoryTypeOK
<1>5. CASE n # Self
  <2> DEFINE k == BucketOf[n]
             r == Removed(table[k], n)
  <2>0. n \in Nodes /\ k \in Buckets
    BY <1>5, BucketOfFacts DEF Peers
  <2>2. table' = [table EXCEPT ![k] = Removed(@, n)]
    BY <1>1, <1>5 DEF TableRemoved
  <2> HIDE DEF k
  <2>3. table'[k] = r /\ \A i \in Buckets : i # k => table'[i] = table[i]
    BY <2>0, <2>2, <1>2
  <2>4. table[k] \in Bucket(Entry) /\ BucketOK(k) /\ WellFormed(table[k])
    BY <2>0, <1>2 DEF HistoryInv, BucketOK
  <2>5. r \in Bucket(Entry) /\ WellFormed(r)
    BY <2>4, RemovedWellFormed
  <2>6. /\ \A e \in Held(r) : e \in Held(table[k])
        /\ OrderedBut(r.contacts,
                      (promoted \ {n}) \cup (Ids(r.contacts) \ Ids(table[k].contacts)))
    <3>1. OrderedBut(table[k].contacts, promoted)
      BY <2>4 DEF BucketOK
    <3> QED  BY <3>1, <2>4, RemovedHeld
  <2> HIDE DEF r
  <2>7. ASSUME NEW e \in Held(r)
        PROVE  BucketOf[e.id] = k /\ e.seen <= now' /\ e.addr = lastAddr'[e.id] /\ e.id \in Nodes
    <3>1. e.seen \in Nat /\ e.id \in Nodes
      BY <2>5, HeldEntries
    <3>2. e.seen <= now /\ BucketOf[e.id] = k /\ e.addr = lastAddr[e.id]
      BY <2>4, <2>6 DEF BucketOK
    <3>3. e.seen <= now + 1
      BY <3>1, <3>2, <1>2
    <3> QED  BY <3>1, <3>2, <3>3, <1>1
  <2>8. Ids(r.contacts) \ Ids(table[k].contacts) \subseteq promoted'
    <3> SUFFICES ASSUME NEW m \in Ids(r.contacts), m \notin Ids(table[k].contacts)
                 PROVE  m \in promoted'
      OBVIOUS
    <3>1. m \in Nodes /\ BucketOf[m] = k
      BY SMTT(30), <2>5, <2>7, ContactsHeld
    <3>2. m \in Peers /\ m # Self
      BY <3>1, BucketOfFacts
    <3>3. TableHas(table', m) /\ ~TableHas(table, m)
      BY <3>1, <3>2, <2>3 DEF TableHas, IsContact
    <3> QED  BY <3>2, <3>3, <1>1
  <2>9. BucketOK(k)'
    <3>1. k' = k
      BY DEF k
    <3>2. OrderedBut(r.contacts, promoted')
      BY <2>6, <2>8, <1>3 DEF OrderedBut
    <3> QED  BY <3>2, <2>3, <2>5, <2>7 DEF BucketOK
  <2>10. ASSUME NEW i \in Buckets, i # k
         PROVE  BucketOK(i)'
    <3>1. \A e \in Held(table[i]) : e.id # n
      BY <2>10 DEF HistoryInv, BucketOK, k
    <3> QED  BY <3>1, <2>3, <2>10, <1>1, <1>3, OtherBucket DEF HistoryInv
  <2>11. table' \in [Buckets -> Bucket(Entry)]
    BY <2>0, <2>2, <2>5, <1>2 DEF r
  <2> QED  BY <2>9, <2>10, <2>11, <1>1, <1>2 DEF HistoryInv, HistoryTypeOK
<1> QED  BY <1>4, <1>5

\* touch keeps the invariant.
LEMMA TouchKeepsHistory ==
  ASSUME HistoryInv, NEW n \in Peers, DoTouch(n)
  PROVE  HistoryInv'
<1>1. /\ table' = TableTouched(table, n, now') /\ now' = now + 1 /\ lastAddr' = lastAddr
      /\ promoted' = promoted \ {n}
  BY DEF DoTouch, Tick
<1>2. /\ table \in [Buckets -> Bucket(Entry)] /\ now \in Nat /\ now' \in Nat
      /\ lastAddr \in [Peers -> Addrs \cup {NoAddr}]
  BY <1>1 DEF HistoryInv, HistoryTypeOK
<1>4. CASE n = Self
  <2>1. table' = table
    BY <1>1, <1>4 DEF TableTouched
  <2>2. ASSUME NEW i \in Buckets
        PROVE  BucketOK(i)'
    <3>1. \A e \in Held(table[i]) : e.id # n
      BY <1>2, <1>4, HeldEntries, BucketOfFacts
    <3> QED  BY <3>1, <2>1, <1>1, OtherBucket DEF HistoryInv
  <2> QED  BY <2>1, <2>2, <1>1, <1>2 DEF HistoryInv, HistoryTypeOK
<1>5. CASE n # Self
  <2> DEFINE k == BucketOf[n]
             t == now'
             r == Touched(table[k], n, t)
  <2>0. n \in Nodes /\ k \in Buckets
    BY <1>5, BucketOfFacts DEF Peers
  <2>1. \A c \in Entry : /\ SeenAt(c, t) \in Entry /\ SeenAt(c, t).id = c.id
                         /\ SeenAt(c, t).seen = t /\ SeenAt(c, t).addr = c.addr
    BY <1>2 DEF SeenAt, Entry
  <2>2. table' = [table EXCEPT ![k] = Touched(@, n, t)]
    BY <1>1, <1>5 DEF TableTouched
  <2> HIDE DEF k, t
  <2>3. table'[k] = r /\ \A i \in Buckets : i # k => table'[i] = table[i]
    BY <2>0, <2>2, <1>2
  <2>4. table[k] \in Bucket(Entry) /\ BucketOK(k) /\ WellFormed(table[k])
    BY <2>0, <1>2 DEF HistoryInv, BucketOK
  <2>5. r \in Bucket(Entry) /\ WellFormed(r)
    BY <2>1, <2>4, TouchedWellFormed
  <2>6. ASSUME NEW e \in Held(table[k])
        PROVE  /\ ~(e.seen > t) /\ e.seen <= t /\ e \in Entry
               /\ BucketOf[e.id] = k /\ e.addr = lastAddr[e.id]
    <3>1. e.seen \in Nat /\ e \in Entry
      BY <2>4, HeldEntries
    <3>2. e.seen <= now /\ BucketOf[e.id] = k /\ e.addr = lastAddr[e.id]
      BY <2>4 DEF BucketOK
    <3>3. ~(e.seen > now + 1) /\ e.seen <= now + 1
      BY <3>1, <3>2, <1>2
    <3> QED  BY <3>1, <3>2, <3>3, <1>1 DEF t
  <2>7. t \in Nat /\ t <= t
    BY <1>2 DEF t
  <2>8. /\ \A e \in Held(r) : e \in Held(table[k]) \/ \E d \in Held(table[k]) : e = SeenAt(d, t)
        /\ OrderedBut(r.contacts, promoted \ {n})
    <3>1. OrderedBut(table[k].contacts, promoted)
      BY <2>4 DEF BucketOK
    <3>2. \A e \in Held(table[k]) : ~(e.seen > t)
      BY <2>6
    <3>3. /\ \A e \in Held(r) : e \in Held(table[k]) \/ \E d \in Held(table[k]) : e = SeenAt(d, t)
          /\ \A X : OrderedBut(table[k].contacts, X) => OrderedBut(r.contacts, X \ {n})
      BY <3>2, <2>1, <2>4, <2>7, TouchedHeld
    <3> QED  BY <3>1, <3>3
  <2> HIDE DEF r
  <2>9. ASSUME NEW e \in Held(r)
        PROVE  BucketOf[e.id] = k /\ e.seen <= t /\ e.addr = lastAddr[e.id]
    <3>1. ASSUME NEW d \in Held(table[k]), e = SeenAt(d, t)
          PROVE  BucketOf[e.id] = k /\ e.seen <= t /\ e.addr = lastAddr[e.id]
      <4>1. e.id = d.id /\ e.seen = t /\ e.addr = d.addr
        BY <3>1, <2>1, <2>6
      <4> QED  BY <4>1, <2>6, <2>7
    <3> QED  BY <3>1, <2>6, <2>8
  <2>10. BucketOK(k)'
    <3>1. k' = k
      BY DEF k
    <3>2. OrderedBut(r.contacts, promoted')
      BY <2>8, <1>1
    <3> QED  BY <3>2, <2>3, <2>5, <2>9, <1>1 DEF BucketOK, t
  <2>11. ASSUME NEW i \in Buckets, i # k
         PROVE  BucketOK(i)'
    <3>1. \A e \in Held(table[i]) : e.id # n
      BY <2>11 DEF HistoryInv, BucketOK, k
    <3> QED  BY <3>1, <2>3, <2>11, <1>1, OtherBucket DEF HistoryInv
  <2>12. table' \in [Buckets -> Bucket(Entry)]
    BY <2>0, <2>2, <2>5, <1>2 DEF r
  <2> QED  BY <2>10, <2>11, <2>12, <1>1, <1>2 DEF HistoryInv, HistoryTypeOK
<1> QED  BY <1>4, <1>5

\* The invariant of the histories of a table.
THEOREM HistoryInvariant == Spec => []HistoryInv
<1>1. Init => HistoryInv
  <2> SUFFICES ASSUME Init PROVE HistoryInv
    OBVIOUS
  <2>1. /\ table = [i \in Buckets |-> EmptyBucket] /\ now = 0
        /\ lastAddr = [m \in Peers |-> NoAddr]
    BY DEF Init, EmptyTable
  <2>2. EmptyBucket \in Bucket(Entry) /\ WellFormed(EmptyBucket)
    BY EmptyBucketWellFormed
  <2>3. Held(EmptyBucket) = {} /\ OrderedBut(EmptyBucket.contacts, promoted)
    <3>1. EmptyBucket.contacts = <<>> /\ EmptyBucket.replacements = <<>>
      BY DEF EmptyBucket
    <3>2. Range(<<>>) = {}
      BY DEF Range
    <3>3. Len(<<>>) = 0 /\ 1..0 = {}
      OBVIOUS
    <3> QED  BY <3>1, <3>2, <3>3 DEF Held, OrderedBut
  <2>4. \A i \in Buckets : BucketOK(i)
    BY <2>1, <2>2, <2>3 DEF BucketOK
  <2>5. HistoryTypeOK
    BY <2>1, <2>2 DEF HistoryTypeOK
  <2> QED  BY <2>4, <2>5 DEF HistoryInv
<1>2. HistoryInv /\ [Next]_vars => HistoryInv'
  <2>1. ASSUME HistoryInv, UNCHANGED vars
        PROVE  HistoryInv'
    BY <2>1 DEF HistoryInv, HistoryTypeOK, BucketOK, vars
  <2> QED  BY <2>1, AddKeepsHistory, RemoveKeepsHistory, TouchKeepsHistory DEF Next
<1> QED  BY <1>1, <1>2, PTL DEF Spec

\* Every entry of the table, contact or candidate, has the address that the
\* last add_or_update of the peer gave.
THEOREM AddressCorrect == Spec => []AddressFresh
<1>1. HistoryInv => AddressFresh
  <2> SUFFICES ASSUME HistoryInv, NEW e \in Entries PROVE e.addr = lastAddr[e.id]
    BY DEF AddressFresh
  <2>1. PICK i \in Buckets : e \in Held(table[i])
    BY DEF Entries, Contacts, Held
  <2> QED  BY <2>1 DEF HistoryInv, BucketOK
<1> QED  BY <1>1, HistoryInvariant, PTL

\* A contact that stands behind one seen later was promoted by remove and not
\* seen since.
THEOREM OrderCorrect == Spec => []OnlyPromotedOutOfOrder
<1>1. HistoryInv => OnlyPromotedOutOfOrder
  BY DEF HistoryInv, BucketOK, OrderedBut, OnlyPromotedOutOfOrder
<1> QED  BY <1>1, HistoryInvariant, PTL

(***************************************************************************)
(* find_closest.                                                           *)
(***************************************************************************)

\* The order of the distances is a strict order.
LEMMA LessOrder ==
  /\ \A a \in NodeID : ~Less(a, a)
  /\ \A a, b, c \in NodeID : Less(a, b) /\ Less(b, c) => Less(a, c)
<1>1. ASSUME NEW a \in NodeID, Less(a, a)
      PROVE  FALSE
  <2>1. PICK i \in 1..Bits : a[i] < a[i]
    BY <1>1 DEF Less
  <2>2. a[i] \in {0, 1}
    BY DEF NodeID
  <2> QED  BY <2>1, <2>2
<1>2. ASSUME NEW a \in NodeID, NEW b \in NodeID, NEW c \in NodeID, Less(a, b), Less(b, c)
      PROVE  Less(a, c)
  <2>1. PICK i \in 1..Bits : a[i] < b[i] /\ \A m \in 1..(i-1) : a[m] = b[m]
    BY <1>2 DEF Less
  <2>2. PICK j \in 1..Bits : b[j] < c[j] /\ \A m \in 1..(j-1) : b[m] = c[m]
    BY <1>2 DEF Less
  <2>3. /\ a[i] \in {0, 1} /\ b[i] \in {0, 1} /\ c[i] \in {0, 1}
        /\ a[j] \in {0, 1} /\ b[j] \in {0, 1} /\ c[j] \in {0, 1}
    BY DEF NodeID
  <2>4. CASE i < j
    <3>1. \A m \in 1..(i-1) : m \in 1..(j-1)
      BY <2>4, BitsPositive
    <3>2. i \in 1..(j-1)
      BY <2>4, BitsPositive
    <3>3. b[i] = c[i] /\ a[i] < c[i]
      BY <3>2, <2>1, <2>2
    <3> QED  BY <3>1, <3>3, <2>1, <2>2 DEF Less
  <2>5. CASE j < i
    <3>1. \A m \in 1..(j-1) : m \in 1..(i-1)
      BY <2>5, BitsPositive
    <3>2. j \in 1..(i-1)
      BY <2>5, BitsPositive
    <3>3. a[j] = b[j] /\ a[j] < c[j]
      BY <3>2, <2>1, <2>2
    <3> QED  BY <3>1, <3>3, <2>1, <2>2 DEF Less
  <2>6. CASE i = j
    <3>1. a[i] < c[i]
      BY SMTT(30), <2>1, <2>2, <2>3, <2>6
    <3> QED  BY <3>1, <2>1, <2>2, <2>6 DEF Less
  <2> QED  BY <2>4, <2>5, <2>6, BitsPositive
<1> QED  BY <1>1, <1>2

\* A node in the bucket of the target is closer to it than one in another
\* bucket.
LEMMA OtherBucketIsFarther ==
  ASSUME NEW self \in NodeID, NEW target \in NodeID, NEW c \in NodeID, NEW d \in NodeID,
         self # target, self # c, self # d,
         BucketIndex(self, c) = BucketIndex(self, target),
         BucketIndex(self, d) # BucketIndex(self, target)
  PROVE  Less(XorDistance(c, target), XorDistance(d, target))
<1>1. PICK i \in 1..Bits :
        FirstDiffers(self, target, i) /\ BucketIndex(self, target) = Bits - i
  BY BucketIndexFacts
<1>2. PICK k \in 1..Bits : FirstDiffers(self, c, k) /\ BucketIndex(self, c) = Bits - k
  BY BucketIndexFacts
<1>3. PICK j \in 1..Bits : FirstDiffers(self, d, j) /\ BucketIndex(self, d) = Bits - j
  BY BucketIndexFacts
<1>4. i = k /\ i # j
  BY <1>1, <1>2, <1>3, BitsPositive
<1>5. self[i] \in {0, 1} /\ target[i] \in {0, 1} /\ c[i] \in {0, 1}
  BY DEF NodeID
<1>6. \A m \in 1..i : m \in 1..Bits /\ c[m] = target[m]
  <2>1. c[i] = target[i]
    BY <1>1, <1>2, <1>4, <1>5 DEF FirstDiffers
  <2>2. \A m \in 1..(i-1) : c[m] = target[m]
    BY <1>1, <1>2, <1>4 DEF FirstDiffers
  <2>3. \A m \in 1..i : m \in 1..Bits /\ (m = i \/ m \in 1..(i-1))
    BY BitsPositive
  <2> QED  BY <2>1, <2>2, <2>3
<1>7. \A m \in 1..i : XorDistance(c, target)[m] = 0
  BY <1>6 DEF XorDistance
<1>8. CASE j < i
  <2>1. \A m \in 1..j : m \in 1..i /\ m \in 1..Bits
    BY <1>8, BitsPositive
  <2>2. j \in 1..(i-1) /\ j \in 1..j
    BY <1>8, BitsPositive
  <2>3. d[j] # target[j]
    BY <2>2, <1>1, <1>3 DEF FirstDiffers
  <2>4. XorDistance(d, target)[j] = 1
    BY <2>3 DEF XorDistance
  <2>5. ASSUME NEW m \in 1..(j-1)
        PROVE  XorDistance(d, target)[m] = 0
    <3>1. m \in 1..(i-1) /\ m \in 1..Bits
      BY <1>8, BitsPositive
    <3>2. d[m] = target[m]
      BY <3>1, <1>1, <1>3 DEF FirstDiffers
    <3> QED  BY <3>1, <3>2 DEF XorDistance
  <2>6. \A m \in 1..(j-1) : m \in 1..j
    BY BitsPositive
  <2>7. XorDistance(c, target)[j] = 0 /\ \A m \in 1..(j-1) : XorDistance(c, target)[m] = 0
    BY <2>1, <2>2, <2>6, <1>7
  <2>8. XorDistance(c, target)[j] < XorDistance(d, target)[j]
    BY <2>4, <2>7
  <2> QED  BY <2>5, <2>7, <2>8 DEF Less
<1>9. CASE i < j
  <2>1. i \in 1..(j-1) /\ i \in 1..i
    BY <1>9, BitsPositive
  <2>2. d[i] # target[i]
    BY <2>1, <1>1, <1>3 DEF FirstDiffers
  <2>3. XorDistance(d, target)[i] = 1
    BY <2>2 DEF XorDistance
  <2>4. ASSUME NEW m \in 1..(i-1)
        PROVE  XorDistance(d, target)[m] = 0
    <3>1. m \in 1..(j-1) /\ m \in 1..Bits
      BY <1>9, BitsPositive
    <3>2. d[m] = target[m]
      BY <3>1, <1>1, <1>3 DEF FirstDiffers
    <3> QED  BY <3>1, <3>2 DEF XorDistance
  <2>5. \A m \in 1..(i-1) : m \in 1..i
    BY BitsPositive
  <2>6. XorDistance(c, target)[i] = 0 /\ \A m \in 1..(i-1) : XorDistance(c, target)[m] = 0
    BY <2>1, <2>5, <1>7
  <2>7. XorDistance(c, target)[i] < XorDistance(d, target)[i]
    BY <2>3, <2>6
  <2> QED  BY <2>4, <2>6, <2>7 DEF Less
<1> QED  BY <1>4, <1>8, <1>9, BitsPositive

\* The contacts of the table are finitely many, and each is in the bucket of
\* its id.
LEMMA ContactsFacts ==
  ASSUME HistoryInv
  PROVE  /\ IsFiniteSet(Contacts)
         /\ \A c \in Contacts : c.id \in Nodes
<1>1. ASSUME NEW i \in Buckets
      PROVE  /\ IsFiniteSet(Range(table[i].contacts))
             /\ \A c \in Range(table[i].contacts) : c.id \in Nodes
  <2> DEFINE con == table[i].contacts
  <2>1. table[i] \in Bucket(Entry)
    BY DEF HistoryInv, HistoryTypeOK
  <2>2. con \in Seq(Entry)
    BY <2>1 DEF Bucket
  <2>3. \A c \in Range(con) : c.id \in Nodes
    BY <2>1, HeldEntries DEF Held
  <2> HIDE DEF con
  <2>4. IsFiniteSet(1..Len(con))
    BY <2>2, FS_Interval
  <2> DEFINE f == [k \in 1..Len(con) |-> con[k]]
  <2>5. f \in Surjection(1..Len(con), Range(con))
    <3>1. \A e \in Range(con) : \E k \in 1..Len(con) : f[k] = e
      BY <2>2, RangeFacts
    <3>2. \A k \in 1..Len(con) : con[k] \in Range(con)
      BY <2>2, RangeFacts
    <3>3. f \in [1..Len(con) -> Range(con)]
      BY <3>2
    <3> HIDE DEF f
    <3> QED  BY <3>1, <3>3 DEF Surjection
  <2>6. IsFiniteSet(Range(con))
    BY <2>4, <2>5, FS_Surjection
  <2> QED  BY <2>3, <2>6 DEF con
<1>2. IsFiniteSet(Buckets)
  BY TableAssumption, BitsPositive, FS_Interval
<1> DEFINE g == [i \in Buckets |-> Range(table[i].contacts)]
           U == {Range(table[i].contacts) : i \in Buckets}
<1>3. g \in Surjection(Buckets, U)
  <2>1. g \in [Buckets -> U] /\ \A u \in U : \E i \in Buckets : g[i] = u
    OBVIOUS
  <2> HIDE DEF g, U
  <2> QED  BY <2>1 DEF Surjection
<1>4. IsFiniteSet(U)
  <2> HIDE DEF g, U
  <2> QED  BY <1>2, <1>3, FS_Surjection
<1>5. \A u \in U : IsFiniteSet(u)
  BY <1>1
<1>6. IsFiniteSet(UNION U)
  <2> HIDE DEF U
  <2> QED  BY <1>4, <1>5, FS_UNION
<1>7. \A c \in Contacts : c.id \in Nodes
  BY <1>1 DEF Contacts
<1> QED  BY <1>6, <1>7 DEF Contacts

\* Some contact is the closest one, and std::sort puts none before it.
LEMMA FirstOfSort ==
  ASSUME HistoryInv, NEW target \in NodeID, Contacts # {}
  PROVE  \E c \in Contacts : Rank(target, c) = 0
<1> DEFINE D(c) == {d \in Contacts : Closer(target, d, c)}
           N == {Rank(target, c) : c \in Contacts}
           L == OpToRel(<, Nat)
<1>1. IsFiniteSet(Contacts) /\ \A c \in Contacts : c.id \in NodeID
  BY ContactsFacts, BucketOfFacts
<1>2. \A c \in Contacts : Rank(target, c) = Cardinality(D(c)) /\ D(c) \in SUBSET Contacts
  BY DEF Rank
<1>3. \A c \in Contacts : IsFiniteSet(D(c)) /\ Cardinality(D(c)) \in Nat
  BY <1>1, <1>2, FS_Subset, FS_CardinalityType
<1>4. N \subseteq Nat /\ N # {}
  BY <1>2, <1>3
<1>5. IsWellFoundedOn(L, Nat)
  BY NatLessThanWellFounded
<1>6. \A x, y \in Nat : x < y => <<x, y>> \in L
  BY DEF OpToRel
<1> HIDE DEF L
<1>7. PICK x \in N : \A y \in N : ~(<<y, x>> \in L)
  <2> HIDE DEF N
  <2> QED  BY <1>4, <1>5, WFMin
<1>8. PICK c \in Contacts : x = Rank(target, c)
  OBVIOUS
<1>9. ASSUME NEW d \in D(c)
      PROVE  FALSE
  <2>1. d \in Contacts /\ Closer(target, d, c)
    OBVIOUS
  <2>2. \A e \in Contacts : XorDistance(e.id, target) \in NodeID
    BY <1>1 DEF XorDistance, NodeID
  <2>3. D(d) \subseteq D(c)
    BY <2>1, <2>2, LessOrder DEF Closer
  <2>4. d \notin D(d)
    BY <2>1, <2>2, LessOrder DEF Closer
  <2>5. D(d) # D(c) /\ D(d) \in SUBSET D(c)
    BY <2>3, <2>4
  <2>6. Cardinality(D(d)) <= Cardinality(D(c)) /\ Cardinality(D(d)) # Cardinality(D(c))
    <3>1. IsFiniteSet(D(c))
      BY <1>3
    <3> HIDE DEF D
    <3> QED  BY <3>1, <2>5, FS_Subset
  <2>7. Cardinality(D(d)) \in Nat /\ Cardinality(D(c)) \in Nat
    BY <2>1, <1>3
  <2> HIDE DEF D
  <2>8. Rank(target, d) < x /\ Rank(target, d) \in Nat /\ x \in Nat
    BY <2>1, <2>6, <2>7, <1>2, <1>8
  <2>9. Rank(target, d) \in N
    BY <2>1
  <2> QED  BY <2>8, <2>9, <1>6, <1>7
<1>10. D(c) = {}
  BY <1>9
<1> HIDE DEF D
<1> QED  BY <1>2, <1>10, FS_EmptySet

\* A bucket with a contact gives a next hop: the first node of find_closest
\* is in the bucket of the target and closer to it than the local node.
THEOREM NextHopCorrect == Spec => []NextHopIsCloser
<1>1. ASSUME HistoryInv, NEW target \in NodeID \ {Self},
             table[BucketIndex(Self, target)].contacts # <<>>
      PROVE  LET hop == FindClosest(target, 1)[1].id
             IN  /\ Less(XorDistance(hop, target), XorDistance(Self, target))
                 /\ BucketIndex(Self, hop) = BucketIndex(Self, target)
  <2> DEFINE i == BucketIndex(Self, target)
             d == table[i].contacts[1]
             c == FindClosest(target, 1)[1]
  <2>0. Self \in NodeID /\ Self # target
    BY TableAssumption
  <2>1. i \in Buckets
    BY <2>0, BucketIndexSymmetric, TableAssumption
  <2> HIDE DEF i
  <2>2. d \in Held(table[i]) /\ d \in Contacts
    <3>1. table[i] \in Bucket(Entry)
      BY <1>1, <2>1 DEF HistoryInv, HistoryTypeOK
    <3>2. table[i].contacts \in Seq(Entry) /\ table[i].contacts # <<>>
      BY <3>1, <1>1 DEF Bucket, i
    <3>3. 1 \in 1..Len(table[i].contacts)
      BY <3>2
    <3>4. d \in Range(table[i].contacts)
      BY <3>2, <3>3, RangeFacts
    <3> QED  BY <3>4, <2>1 DEF Held, Contacts
  <2>3. BucketOf[d.id] = i
    BY <1>1, <2>1, <2>2 DEF HistoryInv, BucketOK
  <2>4. IsFiniteSet(Contacts) /\ \A e \in Contacts : e.id \in Nodes
    BY <1>1, ContactsFacts
  <2>5. Cardinality(Contacts) \in Nat /\ Cardinality(Contacts) # 0
    BY <2>2, <2>4, FS_CardinalityType, FS_EmptySet
  <2>6. 1 \in 1..(IF Cardinality(Contacts) > 1 THEN 1 ELSE Cardinality(Contacts))
    BY <2>5
  <2>7. c = CHOOSE e \in Contacts : Rank(target, e) = 1 - 1
    BY <2>6 DEF FindClosest
  <2>8. c \in Contacts /\ Rank(target, c) = 0
    <3>1. \E e \in Contacts : Rank(target, e) = 0
      BY <1>1, <2>2, FirstOfSort
    <3> HIDE DEF c
    <3> QED  BY <3>1, <2>7
  <2> HIDE DEF c, d
  <2>9. ~Closer(target, d, c)
    <3> DEFINE D == {e \in Contacts : Closer(target, e, c)}
    <3>1. IsFiniteSet(D)
      BY <2>4, FS_Subset
    <3>2. Cardinality(D) = 0
      BY <2>8 DEF Rank
    <3>3. D = {}
      <4> HIDE DEF D
      <4> QED  BY <3>1, <3>2, FS_EmptySet
    <3> QED  BY <3>3, <2>2
  <2>10. /\ c.id \in NodeID /\ c.id # Self /\ d.id \in NodeID /\ d.id # Self
         /\ BucketIndex(Self, d.id) = i
    BY <2>2, <2>3, <2>4, <2>8, BucketOfFacts
  <2>11. BucketIndex(Self, c.id) = i
    BY <2>0, <2>9, <2>10, OtherBucketIsFarther DEF Closer, i
  <2>12. Less(XorDistance(c.id, target), XorDistance(Self, target))
    BY <2>0, <2>10, <2>11, SameBucketIsCloser DEF i
  <2> QED  BY <2>11, <2>12 DEF c, i
<1>2. HistoryInv => NextHopIsCloser
  BY <1>1 DEF NextHopIsCloser
<1> QED  BY <1>2, HistoryInvariant, PTL

=============================================================================
