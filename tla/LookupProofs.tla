---------------------------- MODULE LookupProofs -----------------------------
(***************************************************************************)
(* Proofs about the iterative lookup, for any number of nodes and for any  *)
(* alpha and k.                                                            *)
(***************************************************************************)
EXTENDS Lookup, FiniteSetTheorems, WellFoundedInduction, TLAPS

\* The backends, in the order in which a leaf is given to them.
USE ZenonT(2), SMTT(10), ZenonT(20), SMTT(40)

-----------------------------------------------------------------------------
(* The closest nodes of a set.                                             *)

\* A set of naturals that is not empty has a least element.
LEMMA LeastOf ==
  ASSUME NEW S \in SUBSET Nat, S # {}
  PROVE  \E x \in S : \A y \in S : x <= y
<1> DEFINE R == OpToRel(<, Nat)
<1>1. IsWellFoundedOn(R, Nat)
  BY NatLessThanWellFounded
<1>2. \A x, y \in Nat : x < y => <<x, y>> \in R
  BY DEF OpToRel
<1> HIDE DEF R
<1>3. PICK x \in S : \A y \in S : ~(<<y, x>> \in R)
  BY <1>1, WFMin
<1>4. ASSUME NEW y \in S PROVE x <= y
  <2>1. x \in Nat /\ y \in Nat /\ ~(y < x)
    BY <1>2, <1>3
  <2> QED
    BY <2>1
<1> QED
  BY <1>4

\* Every set of nodes is finite.
LEMMA NodesFacts ==
  /\ Nodes \subseteq Nat
  /\ \A S \in SUBSET Nodes : IsFiniteSet(S) /\ Cardinality(S) \in Nat
<1>1. Nodes \subseteq Nat /\ IsFiniteSet(Nodes)
  BY NAssumption, FS_Interval DEF Nodes
<1> QED
  BY <1>1, FS_Subset, FS_CardinalityType

\* The cardinality of a set of nodes grows with the set.
LEMMA CardMonotonic ==
  ASSUME NEW S \in SUBSET Nodes, NEW T \in SUBSET S
  PROVE  Cardinality(T) <= Cardinality(S)
BY NodesFacts, FS_Subset

\* One node more of the closest: the closest of the others.
LEMMA ClosestNext ==
  ASSUME NEW S \in SUBSET Nodes, NEW m \in Nat,
         Cardinality(Closest(S, m)) = m, Cardinality(S) > m
  PROVE  Cardinality(Closest(S, m + 1)) = m + 1
<1> DEFINE Below(n) == {j \in S : j < n}
           C == Closest(S, m)
<1>1. /\ S \subseteq Nat /\ C \subseteq S
      /\ IsFiniteSet(C) /\ Cardinality(C) = m
  BY NodesFacts DEF Closest
<1>2. \A n \in S : Cardinality(Below(n)) \in Nat
  <2>1. \A n \in S : Below(n) \in SUBSET Nodes
    OBVIOUS
  <2> QED
    BY <2>1, NodesFacts
<1>3. S \ C # {}
  BY <1>1
<1>4. PICK x \in S \ C : \A y \in S \ C : x <= y
  BY <1>1, <1>3, LeastOf
<1>5. Below(x) \subseteq C
  <2>1. ASSUME NEW j \in Below(x), j \notin C PROVE FALSE
    <3>1. j \in Nat /\ x \in Nat /\ j < x /\ j \in S \ C
      BY <1>1, <2>1
    <3> QED
      BY <1>4, <3>1
  <2> QED
    BY <2>1
<1>6. Cardinality(Below(x)) <= m
  BY <1>1, <1>5, CardMonotonic
<1>7. Cardinality(Below(x)) = m
  BY SMTT(30), <1>2, <1>4, <1>6 DEF Closest
<1>8. ASSUME NEW y \in S \ C, y # x
      PROVE  Cardinality(Below(y)) > m
  <2>1. Below(x) \cup {x} \subseteq Below(y)
    <3>1. x \in Nat /\ y \in Nat /\ x <= y /\ \A j \in S : j \in Nat
      BY <1>1, <1>4, <1>8
    <3>2. x < y
      BY <1>8, <3>1
    <3>3. ASSUME NEW j \in Below(x) PROVE j < y
      BY <3>1, <3>2
    <3> QED
      BY <1>4, <3>2, <3>3
  <2>2. x \notin Below(x) /\ IsFiniteSet(Below(x))
    <3>1. Below(x) \in SUBSET Nodes
      OBVIOUS
    <3> QED
      BY <1>1, <3>1, NodesFacts
  <2>3. Cardinality(Below(x) \cup {x}) = m + 1
    BY <1>7, <2>2, FS_AddElement
  <2>4. Below(y) \in SUBSET Nodes
    OBVIOUS
  <2>5. m + 1 <= Cardinality(Below(y))
    BY <2>1, <2>3, <2>4, CardMonotonic
  <2> QED
    BY <1>2, <2>5
<1>9. Closest(S, m + 1) = C \cup {x}
  <2>1. ASSUME NEW n \in C PROVE n \in Closest(S, m + 1)
    <3>1. n \in S /\ Cardinality(Below(n)) < m
      BY DEF Closest
    <3> QED
      BY SMTT(30), <1>2, <3>1 DEF Closest
  <2>2. x \in Closest(S, m + 1)
    BY SMTT(30), <1>4, <1>7 DEF Closest
  <2>3. ASSUME NEW n \in Closest(S, m + 1), n \notin C PROVE n = x
    <3>1. n \in S /\ Cardinality(Below(n)) < m + 1
      BY DEF Closest
    <3> QED
      BY <1>2, <1>8, <2>3, <3>1
  <2> QED
    BY <2>1, <2>2, <2>3
<1> QED
  BY SMTT(30), <1>1, <1>4, <1>9, FS_AddElement

\* Closest(S, m) has m nodes, or all of S when S has fewer.
LEMMA ClosestCardinality ==
  ASSUME NEW S \in SUBSET Nodes, NEW m \in Nat
  PROVE  /\ Cardinality(S) >= m => Cardinality(Closest(S, m)) = m
         /\ Cardinality(Closest(S, m)) <= m
<1> DEFINE Bad == {i \in Nat : Cardinality(S) >= i /\ Cardinality(Closest(S, i)) # i}
<1>0. Cardinality(S) \in Nat
  BY NodesFacts
<1>1. 0 \notin Bad
  <2>1. Closest(S, 0) = {}
    <3>1. ASSUME NEW n \in S PROVE ~(Cardinality({j \in S : j < n}) < 0)
      <4>1. {j \in S : j < n} \in SUBSET Nodes
        OBVIOUS
      <4> QED
        BY <4>1, NodesFacts
    <3> QED
      BY <3>1 DEF Closest
  <2> QED
    BY <2>1, FS_EmptySet
<1>2. Bad = {}
  <2> SUFFICES ASSUME Bad # {} PROVE FALSE
    OBVIOUS
  <2>1. PICK i \in Bad : \A j \in Bad : i <= j
    BY LeastOf
  <2>2. i \in Nat /\ i # 0
    BY <1>1
  <2>3. i - 1 \in Nat /\ i - 1 \notin Bad
    BY <2>1, <2>2
  <2>4. Cardinality(Closest(S, i - 1)) = i - 1 /\ Cardinality(S) > i - 1
    BY <1>0, <2>1, <2>2, <2>3
  <2>5. Cardinality(Closest(S, (i - 1) + 1)) = (i - 1) + 1
    BY <2>3, <2>4, ClosestNext
  <2>6. (i - 1) + 1 = i
    BY <2>2
  <2> QED
    BY <2>1, <2>5, <2>6
<1>3. CASE Cardinality(S) >= m
  BY SMTT(30), <1>2, <1>3
<1>4. CASE ~(Cardinality(S) >= m)
  <2>1. Closest(S, m) \in SUBSET S
    BY DEF Closest
  <2>2. Cardinality(Closest(S, m)) <= Cardinality(S)
    BY <2>1, CardMonotonic
  <2>3. Cardinality(Closest(S, m)) \in Nat
    BY <2>1, NodesFacts
  <2> QED
    BY <1>0, <1>4, <2>2, <2>3
<1> QED
  BY <1>3, <1>4

-----------------------------------------------------------------------------
(* The active calls of step_func.                                          *)

\* The frames of s hold different nodes, all of them of F, and none is empty.
StackOK(s, F) ==
  /\ s \in Seq(SUBSET Nodes)
  /\ \A i \in 1..Len(s) : s[i] # {} /\ s[i] \subseteq F
  /\ \A i, j \in 1..Len(s) : i # j => s[i] \cap s[j] = {}

InStack(n, s) == \E i \in 1..Len(s) : n \in s[i]

\* There is an active call only for nodes to query.
LEMMA StackNonempty ==
  ASSUME NEW s, NEW F, StackOK(s, F), s # <<>>
  PROVE  Len(s) \in Nat \ {0} /\ Head(s) = s[1] /\ s[1] # {} /\ s[1] \in SUBSET F
BY SMTT(30) DEF StackOK

\* A call of step_func adds the nodes that it picked.
LEMMA PushOK ==
  ASSUME NEW s, NEW F, StackOK(s, F), NEW frame \in SUBSET Nodes,
         frame \subseteq F, \A n \in frame : ~InStack(n, s)
  PROVE  /\ StackOK(Push(frame, s), F)
         /\ \A n : InStack(n, Push(frame, s)) <=> n \in frame \/ InStack(n, s)
<1>1. CASE frame = {}
  BY <1>1 DEF Push
<1>2. CASE frame # {}
  <2> DEFINE new == <<frame>> \o s
  <2>1. Push(frame, s) = new
    BY <1>2 DEF Push
  <2>2. s \in Seq(SUBSET Nodes) /\ Len(s) \in Nat /\ <<frame>> \in Seq(SUBSET Nodes)
    BY SMTT(30) DEF StackOK
  <2>3. /\ new \in Seq(SUBSET Nodes) /\ Len(new) = 1 + Len(s)
        /\ new[1] = frame
        /\ \A i \in 2..Len(new) : new[i] = s[i - 1] /\ i - 1 \in 1..Len(s)
        /\ \A i \in 1..Len(s) : s[i] = new[i + 1] /\ i + 1 \in 1..Len(new)
    <3>1. /\ new \in Seq(SUBSET Nodes) /\ Len(new) = 1 + Len(s)
          /\ \A i \in 1..1 + Len(s) :
               new[i] = IF i <= 1 THEN <<frame>>[i] ELSE s[i - 1]
      BY <2>2
    <3> HIDE DEF new
    <3> QED
      BY <2>2, <3>1
  <2> HIDE DEF new
  <2>4. \A n : InStack(n, new) <=> n \in frame \/ InStack(n, s)
    <3>1. 1 \in 1..Len(new) /\ \A i \in 1..Len(new) : i = 1 \/ i \in 2..Len(new)
      BY SMTT(30), <2>2, <2>3
    <3> QED
      BY <2>3, <3>1 DEF InStack
  <2>5. \A i \in 1..Len(new) : new[i] # {} /\ new[i] \subseteq F
    <3>1. ASSUME NEW i \in 1..Len(new) PROVE new[i] # {} /\ new[i] \subseteq F
      <4>1. CASE i = 1
        BY <1>2, <2>3, <4>1
      <4>2. CASE i # 1
        BY SMTT(30), <2>2, <2>3, <4>2 DEF StackOK
      <4> QED
        BY <4>1, <4>2
    <3> QED
      BY <3>1
  <2>6. ASSUME NEW i \in 1..Len(new), NEW j \in 1..Len(new), i < j
        PROVE  new[i] \cap new[j] = {}
    <3>1. j \in 2..Len(new) /\ new[j] = s[j - 1] /\ j - 1 \in 1..Len(s)
      BY SMTT(30), <2>2, <2>3, <2>6
    <3>2. CASE i = 1
      BY <2>3, <3>1, <3>2 DEF InStack
    <3>3. CASE i # 1
      <4>1. new[i] = s[i - 1] /\ i - 1 \in 1..Len(s) /\ i - 1 # j - 1
        BY SMTT(30), <2>2, <2>3, <2>6, <3>3
      <4> QED
        BY <3>1, <4>1 DEF StackOK
    <3> QED
      BY <3>2, <3>3
  <2>7. \A i, j \in 1..Len(new) : i # j => new[i] \cap new[j] = {}
    <3>1. \A i, j \in 1..Len(new) : i # j => i < j \/ j < i
      BY <2>2, <2>3
    <3> QED
      BY <2>6, <3>1
  <2> QED
    BY <2>1, <2>3, <2>4, <2>5, <2>7 DEF StackOK
<1> QED
  BY <1>1, <1>2

\* The nodes in the frames decide of which sets they are frames.
LEMMA StackOf ==
  ASSUME NEW s, NEW F, NEW G, StackOK(s, F), \A n : InStack(n, s) => n \in G
  PROVE  StackOK(s, G)
BY DEF StackOK, InStack

\* Without a node in flight no call is active.
LEMMA StackEmpty ==
  ASSUME NEW s, StackOK(s, {})
  PROVE  s = <<>>
BY SMTT(30), StackNonempty

\* The loop takes the next node out of its frame, for good.
LEMMA RestOK ==
  ASSUME NEW s, NEW F \in SUBSET Nodes, StackOK(s, F), s # <<>>
  PROVE  /\ Peer(s) \in F
         /\ StackOK(Rest(s), F \ {Peer(s)})
         /\ \A n : InStack(n, Rest(s)) <=> InStack(n, s) /\ n # Peer(s)
<1>1. /\ Len(s) \in Nat \ {0} /\ Head(s) = s[1] /\ s[1] # {}
      /\ s[1] \in SUBSET Nat /\ s[1] \in SUBSET F
  BY StackNonempty, NodesFacts
<1>2. Peer(s) \in s[1]
  <2>1. \E n \in Head(s) : \A m \in Head(s) : n <= m
    BY <1>1, LeastOf
  <2> QED
    BY <1>1, <2>1 DEF Peer
<1> DEFINE p == Peer(s)
           t == Tail(s)
           frame == s[1] \ {p}
<1>3. Rest(s) = Push(frame, t)
  BY <1>1 DEF Rest
<1>4. /\ t \in Seq(SUBSET Nodes) /\ Len(t) = Len(s) - 1
      /\ \A i \in 1..Len(t) : t[i] = s[i + 1] /\ i + 1 \in 1..Len(s) /\ i + 1 # 1
      /\ \A i \in 2..Len(s) : s[i] = t[i - 1] /\ i - 1 \in 1..Len(t)
  <2>1. /\ t \in Seq(SUBSET Nodes) /\ Len(t) = Len(s) - 1
        /\ \A i \in 1..Len(t) : t[i] = s[i + 1]
    BY SMTT(30) DEF StackOK
  <2> HIDE DEF t
  <2> QED
    BY SMTT(30), <1>1, <2>1
<1> HIDE DEF p, t
<1>5. \A i \in 1..Len(t) : s[1] \cap t[i] = {}
  BY SMTT(30), <1>1, <1>4 DEF StackOK
<1>6. \A n : InStack(n, s) <=> n \in s[1] \/ InStack(n, t)
  BY SMTT(30), <1>1, <1>4 DEF InStack
<1>7. StackOK(t, F \ {p})
  <2>1. \A i \in 1..Len(t) : t[i] # {} /\ t[i] \subseteq F \ {p}
    BY SMTT(30), <1>1, <1>2, <1>4, <1>5 DEF StackOK, p
  <2>2. \A i, j \in 1..Len(t) : i # j => t[i] \cap t[j] = {}
    <3>1. \A i, j \in 1..Len(t) : i # j => i + 1 # j + 1
      BY SMTT(30), <1>1, <1>4
    <3> QED
      BY SMTT(30), <1>4, <3>1 DEF StackOK
  <2> QED
    BY <1>4, <2>1, <2>2 DEF StackOK
<1>8. \A n \in s[1] : ~InStack(n, t)
  BY <1>5 DEF InStack
<1>9. /\ StackOK(Push(frame, t), F \ {p})
      /\ \A n : InStack(n, Push(frame, t)) <=> n \in frame \/ InStack(n, t)
  <2>1. frame \in SUBSET Nodes /\ frame \subseteq F \ {p}
    BY <1>1
  <2> QED
    BY SMTT(30), <1>7, <1>8, <2>1, PushOK
<1> QED
  BY <1>1, <1>2, <1>3, <1>6, <1>8, <1>9 DEF p

-----------------------------------------------------------------------------
(* Queries and convergence.                                                *)

Shortlists == [Nodes -> CandidateState]

\* pick_next_queries gives candidates that were not queried, at least one
\* when there is one, and no more than alpha allows when a slot is free.
LEMMA PickFacts ==
  ASSUME NEW c \in Shortlists
  PROVE  /\ PickNextQueries(c) \subseteq In(c, "UNQUERIED")
         /\ PickNextQueries(c) = {} => In(c, "UNQUERIED") = {}
         /\ Cardinality(In(c, "IN_FLIGHT")) < Alpha
              => Cardinality(PickNextQueries(c))
                   <= Alpha - Cardinality(In(c, "IN_FLIGHT"))
<1> DEFINE U == In(c, "UNQUERIED")
           F == In(c, "IN_FLIGHT")
           room == Alpha - Cardinality(F)
           m == IF room > 1 THEN room ELSE 1
<1>1. PickNextQueries(c) = Closest(U, m)
  BY DEF PickNextQueries
<1>2. U \in SUBSET Nodes /\ F \in SUBSET Nodes
  BY DEF In
<1> HIDE DEF U, F
<1>3. Cardinality(F) \in Nat /\ Alpha \in Nat \ {0}
  BY <1>2, NodesFacts, NAssumption
<1>4. m \in Nat /\ m >= 1 /\ (Cardinality(F) < Alpha => m = room)
  BY <1>3
<1> HIDE DEF m
<1>5. Closest(U, m) \subseteq U
  BY DEF Closest
<1>6. ASSUME U # {} PROVE Closest(U, m) # {}
  <2>1. U \in SUBSET Nat
    BY <1>2, NodesFacts
  <2>2. PICK x \in U : \A y \in U : x <= y
    BY <1>6, <2>1, LeastOf
  <2>3. {j \in U : j < x} = {}
    <3>1. ASSUME NEW j \in U PROVE ~(j < x)
      <4>1. j \in Nat /\ x \in Nat /\ x <= j
        BY <2>1, <2>2
      <4> QED
        BY <4>1
    <3> QED
      BY <3>1
  <2>4. Cardinality({j \in U : j < x}) < m
    BY SMTT(30), <1>4, <2>3, FS_EmptySet
  <2> QED
    BY <2>2, <2>4 DEF Closest
<1>7. Cardinality(Closest(U, m)) <= m
  BY <1>2, <1>4, ClosestCardinality
<1> QED
  BY <1>1, <1>4, <1>5, <1>6, <1>7 DEF U, F

\* What a call of step_func that queries leaves of the shortlist.
LEMMA QueriedFacts ==
  ASSUME NEW c \in Shortlists
  PROVE  /\ Queried(c) \in Shortlists
         /\ In(Queried(c), "IN_FLIGHT") = In(c, "IN_FLIGHT") \cup PickNextQueries(c)
         /\ Cardinality(In(c, "IN_FLIGHT")) < Alpha
              => Cardinality(In(Queried(c), "IN_FLIGHT")) <= Alpha
<1> DEFINE P == PickNextQueries(c)
           F == In(c, "IN_FLIGHT")
<1>1. P \in SUBSET Nodes /\ F \in SUBSET Nodes /\ P \cap F = {}
  BY PickFacts DEF In
<1>2. Queried(c) \in Shortlists
  BY DEF Queried, Shortlists, CandidateState
<1>3. In(Queried(c), "IN_FLIGHT") = F \cup P
  BY <1>1 DEF Queried, In
<1>4. ASSUME Cardinality(F) < Alpha PROVE Cardinality(F \cup P) <= Alpha
  <2>1. Cardinality(P) <= Alpha - Cardinality(F)
    BY <1>4, PickFacts
  <2> HIDE DEF P, F
  <2>2. /\ IsFiniteSet(P) /\ IsFiniteSet(F)
        /\ Cardinality(P) \in Nat /\ Cardinality(F) \in Nat
    BY <1>1, NodesFacts
  <2>3. Cardinality(F \cap P) = 0
    BY <1>1, FS_EmptySet
  <2>4. Cardinality(F \cup P) = Cardinality(F) + Cardinality(P) - Cardinality(F \cap P)
    BY <2>2, FS_Union
  <2> QED
    BY <2>1, <2>2, <2>3, <2>4, NAssumption
<1> QED
  BY <1>2, <1>3, <1>4

\* The condition under which step_func calls back without a record.
Exhausted(c) ==
  \/ IsComplete(c)
  \/ PickNextQueries(c) = {} /\ In(c, "IN_FLIGHT") = {}

\* A node among the nodes of A, one that failed, or one that has K closer ones
\* in A.
Accounted(c, A, n) ==
  \/ n \in A
  \/ c[n] = "FAILED"
  \/ Cardinality({m \in A : m < n}) >= K

\* When k of the closest known nodes have answered, a node that is not among
\* the closest has k closer ones that have.
LEMMA TopIsCloser ==
  ASSUME NEW c \in Shortlists, NEW n \in Known(c), n \notin Closest(Known(c), K),
         NEW A \in SUBSET Nodes,
         Closest(Known(c), K) \cap In(c, "RESPONDED") \subseteq A,
         Cardinality(Closest(Known(c), K) \cap In(c, "RESPONDED")) >= K
  PROVE  Cardinality({m \in A : m < n}) >= K
<1> DEFINE Q == Known(c)
           T == Closest(Q, K) \cap In(c, "RESPONDED")
           B == {m \in A : m < n}
<1>1. Q \in SUBSET Nodes /\ n \in Nat /\ Q \subseteq Nat
  BY NodesFacts DEF Known
<1>2. ASSUME NEW t \in Closest(Q, K) PROVE t < n
  <2>1. t \in Q /\ Cardinality({j \in Q : j < t}) < K /\ t \in Nat
    BY <1>1 DEF Closest
  <2>2. ~(Cardinality({j \in Q : j < n}) < K)
    BY DEF Closest
  <2>3. CASE n <= t
    <3>1. {j \in Q : j < n} \in SUBSET {j \in Q : j < t}
      BY SMTT(30), <1>1, <2>1, <2>3
    <3>2. {j \in Q : j < t} \in SUBSET Nodes /\ {j \in Q : j < n} \in SUBSET Nodes
      BY <1>1
    <3>3. Cardinality({j \in Q : j < n}) <= Cardinality({j \in Q : j < t})
      BY <3>1, <3>2, CardMonotonic
    <3>4. Cardinality({j \in Q : j < n}) \in Nat /\ Cardinality({j \in Q : j < t}) \in Nat
      BY <3>2, NodesFacts
    <3> QED
      BY <2>1, <2>2, <3>3, <3>4, NAssumption
  <2> QED
    BY <1>1, <2>1, <2>3
<1>3. T \in SUBSET B
  BY <1>2
<1>4. B \in SUBSET Nodes /\ T \in SUBSET Nodes
  BY <1>3
<1>5. Cardinality(T) <= Cardinality(B) /\ Cardinality(T) >= K
  BY <1>3, <1>4, CardMonotonic
<1>6. Cardinality(T) \in Nat /\ Cardinality(B) \in Nat
  BY <1>4, NodesFacts
<1> QED
  BY SMTT(30), <1>5, <1>6, NAssumption

\* An answer that get_closest leaves out has k closer ones in its result.
LEMMA GetClosestFull ==
  ASSUME NEW c \in Shortlists, NEW n \in In(c, "RESPONDED"), n \notin GetClosest(c)
  PROVE  Cardinality({m \in GetClosest(c) : m < n}) >= K
<1> DEFINE R == In(c, "RESPONDED")
           B == {j \in R : j < n}
           D == {m \in GetClosest(c) : m < n}
<1>1. R \in SUBSET Nodes /\ B \in SUBSET Nodes /\ R \subseteq Nat /\ n \in Nat
  BY NodesFacts DEF In
<1>2. GetClosest(c) = {j \in R : Cardinality({i \in R : i < j}) < K}
  BY DEF GetClosest, Closest
<1>3. D \in SUBSET Nodes
  BY <1>1, <1>2
<1>4. Cardinality(B) >= K
  <2>1. ~(Cardinality(B) < K)
    BY <1>2
  <2> QED
    BY <1>1, <2>1, NodesFacts, NAssumption
<1>5. Cardinality(Closest(B, K)) = K
  BY <1>1, <1>4, ClosestCardinality, NAssumption
<1>6. ASSUME NEW j \in Closest(B, K) PROVE j \in D
  <2>1. j \in B /\ Cardinality({i \in B : i < j}) < K
    BY DEF Closest
  <2>2. {i \in B : i < j} = {i \in R : i < j}
    BY SMTT(30), <1>1, <2>1
  <2> QED
    BY <1>2, <2>1, <2>2
<1>7. Closest(B, K) \in SUBSET D
  BY <1>6
<1>8. Cardinality(Closest(B, K)) <= Cardinality(D)
  BY <1>3, <1>7, CardMonotonic
<1> QED
  BY <1>5, <1>8

\* An exhausted lookup has accounted for every known node: by the nodes that
\* answered, and by the k closest of them.
LEMMA ExhaustedConverged ==
  ASSUME NEW c \in Shortlists, Exhausted(c), NEW n \in Known(c)
  PROVE  /\ In(c, "IN_FLIGHT") = {}
         /\ Accounted(c, In(c, "RESPONDED"), n)
         /\ Accounted(c, GetClosest(c), n)
<1> DEFINE Q == Known(c)
           R == In(c, "RESPONDED")
           T == Closest(Q, K) \cap R
<1>1. /\ In(c, "IN_FLIGHT") = {}
      /\ \/ In(c, "UNQUERIED") = {}
         \/ Closest(Q, K) \cap In(c, "UNQUERIED") = {} /\ Cardinality(T) >= K
  BY PickFacts DEF Exhausted, IsComplete
<1>2. n \in Nodes /\ c[n] \in {"UNQUERIED", "RESPONDED", "FAILED"}
  BY <1>1 DEF Known, In, Shortlists, CandidateState
<1>3. R \in SUBSET Nodes /\ GetClosest(c) \in SUBSET Nodes /\ Q \in SUBSET Nodes
  BY DEF GetClosest, Closest, In, Known
<1>4. CASE c[n] = "UNQUERIED"
  <2>1. n \in In(c, "UNQUERIED")
    BY <1>2, <1>4 DEF In
  <2>2. n \notin Closest(Q, K) /\ Cardinality(T) >= K
    BY <1>1, <2>1
  <2>3. T \subseteq GetClosest(c)
    <3>1. ASSUME NEW t \in T PROVE t \in GetClosest(c)
      <4>1. t \in R /\ Cardinality({j \in Q : j < t}) < K
        BY DEF Closest
      <4>2. {j \in R : j < t} \in SUBSET {j \in Q : j < t}
        BY DEF In, Known
      <4>3. {j \in Q : j < t} \in SUBSET Nodes /\ {j \in R : j < t} \in SUBSET Nodes
        BY <1>3
      <4>4. Cardinality({j \in R : j < t}) <= Cardinality({j \in Q : j < t})
        BY <4>2, <4>3, CardMonotonic
      <4>5. Cardinality({j \in R : j < t}) \in Nat /\ Cardinality({j \in Q : j < t}) \in Nat
        BY <4>3, NodesFacts
      <4>6. Cardinality({j \in R : j < t}) < K
        BY SMTT(30), <4>1, <4>4, <4>5, NAssumption
      <4> QED
        BY <4>1, <4>6 DEF GetClosest, Closest
    <3> QED
      BY <3>1
  <2>4. T \subseteq R
    OBVIOUS
  <2> QED
    BY <1>1, <1>3, <2>2, <2>3, <2>4, TopIsCloser DEF Accounted
<1>5. CASE c[n] = "RESPONDED"
  <2>1. n \in R
    BY <1>2, <1>5 DEF In
  <2> QED
    BY <1>1, <2>1, GetClosestFull DEF Accounted
<1>6. CASE c[n] = "FAILED"
  BY <1>1, <1>6 DEF Accounted
<1> QED
  BY <1>2, <1>4, <1>5, <1>6

-----------------------------------------------------------------------------
(* The inductive invariant.                                                *)

Timers == [Nodes -> {"off", "armed", "queued"}]

Results == SUBSET (0..N)

\* The requests and the active loops divide nodes in flight among them.
Divided(c, p, s) ==
  /\ c \in Shortlists
  /\ p \in SUBSET In(c, "IN_FLIGHT")
  /\ StackOK(s, In(c, "IN_FLIGHT") \ p)

\* Every node in flight is in a loop or has a request with a timer.
Tracked(c, p, t, s) ==
  \A n \in In(c, "IN_FLIGHT") : InStack(n, s) \/ (n \in p /\ t[n] # "off")

\* No handler is left that could call step_func.
Over(p, t, s) == s = <<>> /\ p = {} /\ \A n \in Nodes : t[n] = "off"

\* The types of the variables that the callback depends on.
ReportTypes ==
  /\ kind \in {"async_lookup", "async_find_value"}
  /\ found \in SUBSET Nodes
  /\ finished \in BOOLEAN
  /\ raced \in BOOLEAN
  /\ reports \in Seq(Results)

\* How *finished and the callback go together.
ReportInv ==
  /\ finished => kind = "async_find_value" /\ reports # <<>>
  /\ found # {} => finished
  /\ kind = "async_find_value" /\ reports # <<>> =>
       Len(reports) = 1 /\ stack = <<>> /\ (finished \/ Over(pending, timer, stack))
  /\ kind = "async_lookup" /\ reports # <<>> /\ ~raced =>
       Len(reports) = 1 /\ Over(pending, timer, stack)

(***************************************************************************)
(* Without a race a timer that runs has its request in pending_requests_,  *)
(* and a node in flight is one of alpha.                                   *)
(***************************************************************************)
IInv ==
  /\ ReportTypes
  /\ timer \in Timers
  /\ Divided(cand, pending, stack)
  /\ reports = <<>> => Tracked(cand, pending, timer, stack)
  /\ ReportInv
  /\ ~raced => \A n \in Nodes : timer[n] # "off" => n \in pending
  /\ ~raced => Cardinality(In(cand, "IN_FLIGHT")) <= Alpha

(***************************************************************************)
(* A call of step_func, with the session c, the record f, the calls s, the *)
(* requests p, their timers t, and r whether an answer raced its timer:    *)
(* what its caller guarantees.                                             *)
(***************************************************************************)
Before(c, f, s, p, t, r) ==
  /\ ReportTypes
  /\ Divided(c, p, s)
  /\ f \in SUBSET Nodes
  /\ finished => kind = "async_find_value" /\ reports # <<>> /\ Len(reports) = 1
  /\ kind = "async_find_value" /\ reports # <<>> => finished
  /\ kind = "async_lookup" /\ reports # <<>> => r
  /\ finished \/ f # {} => s = <<>>
  /\ f # {} => kind = "async_find_value"
  /\ reports = <<>> /\ f = {} => Tracked(c, p, t, s)
  /\ ~r => \A n \in Nodes : t[n] # "off" => n \in p
  /\ ~r => Cardinality(In(c, "IN_FLIGHT")) <= Alpha
  /\ ~r /\ f = {} => Cardinality(In(c, "IN_FLIGHT")) < Alpha

\* What the step is when it makes the callback.
Converged ==
  (reports = <<>> /\ reports' # <<>> /\ found' = {}) =>
    LET answered == IF kind = "async_lookup" THEN reports'[1]
                                             ELSE In(cand', "RESPONDED")
    IN  \A n \in Known(cand') : Accounted(cand', answered, n)

\* A callback without a record comes when nothing is in flight.
LEMMA CallbackStep ==
  ASSUME NEW c, NEW f, NEW s, NEW p, NEW t \in Timers, NEW r \in BOOLEAN,
         Before(c, f, s, p, t, r), Step(c, f, s), UNCHANGED kind,
         pending' = p, timer' = t, raced' = r,
         ~finished, f # {} \/ Exhausted(c)
  PROVE  IInv' /\ Converged
<1>1. /\ found' = f /\ finished' = (kind = "async_find_value")
      /\ reports' = Append(reports, Result(c, f))
      /\ cand' = c /\ stack' = s
  BY DEF Step, Exhausted, Before, ReportTypes
<1>2. /\ c \in Shortlists /\ p \in SUBSET In(c, "IN_FLIGHT")
      /\ StackOK(s, In(c, "IN_FLIGHT") \ p) /\ f \in SUBSET Nodes
      /\ ReportTypes
  BY DEF Before, Divided
<1>3. Result(c, f) \in Results
  <2>1. GetClosest(c) \in SUBSET Nodes
    BY DEF GetClosest, Closest, In
  <2>2. Nodes \subseteq 0..N
    BY NAssumption DEF Nodes
  <2> QED
    BY <1>2, <2>1, <2>2 DEF Result, Results
<1>4. /\ reports' \in Seq(Results) /\ reports' # <<>>
      /\ Len(reports') = Len(reports) + 1
      /\ reports = <<>> => reports'[1] = Result(c, f) /\ Len(reports') = 1
  <2>1. reports \in Seq(Results) /\ Len(<<>>) = 0
    BY <1>2 DEF ReportTypes
  <2>2. /\ reports' \in Seq(Results) /\ reports' # <<>>
        /\ Len(reports') = Len(reports) + 1
        /\ reports'[Len(reports) + 1] = Result(c, f)
    BY <1>1, <1>3, <2>1
  <2> QED
    BY <2>1, <2>2
<1>5. f = {} => /\ In(c, "IN_FLIGHT") = {}
                /\ s = <<>> /\ p = {}
  <2> SUFFICES ASSUME f = {}, Exhausted(c)
               PROVE  In(c, "IN_FLIGHT") = {} /\ s = <<>> /\ p = {}
    OBVIOUS
  <2>1. In(c, "IN_FLIGHT") = {}
    BY <1>2, PickFacts DEF Exhausted, IsComplete
  <2>2. p = {} /\ In(c, "IN_FLIGHT") \ p = {}
    BY <1>2, <2>1
  <2> QED
    BY <1>2, <2>1, <2>2, StackEmpty
<1>6. s = <<>>
  BY <1>5 DEF Before
<1>7. ReportTypes'
  BY <1>1, <1>2, <1>4 DEF ReportTypes
<1>8. ReportInv'
  <2>1. (finished => kind = "async_find_value" /\ reports # <<>>)'
    BY <1>1, <1>4
  <2>2. (found # {} => finished)'
    BY <1>1 DEF Before
  <2>3. ASSUME kind = "async_find_value"
        PROVE  Len(reports') = 1 /\ stack' = <<>> /\ finished'
    BY <1>1, <1>4, <1>6, <2>3 DEF Before
  <2>4. ASSUME kind = "async_lookup", ~r
        PROVE  Len(reports') = 1 /\ Over(p, t, s)
    <3>1. reports = <<>> /\ f = {}
      BY <2>4 DEF Before
    <3> QED
      BY <1>4, <1>5, <2>4, <3>1 DEF Over, Before
  <2> QED
    BY <1>1, <1>2, <2>1, <2>2, <2>3, <2>4 DEF ReportInv, ReportTypes
<1>9. IInv'
  <2>1. Divided(cand', pending', stack')
    BY <1>1 DEF Before
  <2>2. /\ ~raced' => \A n \in Nodes : timer'[n] # "off" => n \in pending'
        /\ ~raced' => Cardinality(In(cand', "IN_FLIGHT")) <= Alpha
    BY <1>1 DEF Before
  <2> QED
    BY <1>4, <1>7, <1>8, <2>1, <2>2 DEF IInv
<1>10. Converged
  <2> SUFFICES ASSUME reports = <<>>, f = {}, NEW n \in Known(c)
               PROVE  Accounted(c, IF kind = "async_lookup" THEN reports'[1]
                                   ELSE In(c, "RESPONDED"), n)
    BY <1>1 DEF Converged
  <2>1. Accounted(c, In(c, "RESPONDED"), n) /\ Accounted(c, GetClosest(c), n)
    BY <1>2, ExhaustedConverged
  <2> QED
    BY <1>4, <2>1 DEF Result
<1> QED
  BY <1>9, <1>10

\* A call of step_func, whichever of its three ends it comes to.
LEMMA StepInv ==
  ASSUME NEW c, NEW f, NEW s, NEW p, NEW t \in Timers, NEW r \in BOOLEAN,
         Before(c, f, s, p, t, r), Step(c, f, s), UNCHANGED kind,
         pending' = p, timer' = t, raced' = r
  PROVE  IInv' /\ Converged
<1>1. /\ c \in Shortlists /\ p \in SUBSET In(c, "IN_FLIGHT")
      /\ StackOK(s, In(c, "IN_FLIGHT") \ p) /\ f \in SUBSET Nodes
      /\ ReportTypes
  BY DEF Before, Divided
<1>2. CASE finished
  <2>1. /\ found' = f /\ finished' /\ reports' = reports
        /\ cand' = c /\ stack' = s
    BY <1>2 DEF Step, Before
  <2>2. /\ kind = "async_find_value" /\ reports # <<>> /\ Len(reports) = 1
        /\ s = <<>>
    BY <1>2 DEF Before
  <2>3. ReportTypes' /\ ReportInv'
    BY <1>1, <1>2, <2>1, <2>2 DEF ReportTypes, ReportInv, Step
  <2>4. /\ Divided(c, p, s)
        /\ ~r => \A n \in Nodes : t[n] # "off" => n \in p
        /\ ~r => Cardinality(In(c, "IN_FLIGHT")) <= Alpha
    BY DEF Before
  <2> QED
    BY <2>1, <2>2, <2>3, <2>4 DEF IInv, Converged
<1>3. CASE ~finished /\ (f # {} \/ Exhausted(c))
  BY <1>3, CallbackStep
<1>4. CASE ~finished /\ f = {} /\ ~Exhausted(c)
  <2> DEFINE P == PickNextQueries(c)
             F == In(c, "IN_FLIGHT")
  <2>1. /\ found' = f /\ ~finished' /\ finished' \in BOOLEAN /\ reports' = reports
        /\ cand' = Queried(c) /\ stack' = Push(P, s)
    BY <1>4 DEF Step, Exhausted
  <2>2. /\ Queried(c) \in Shortlists /\ In(Queried(c), "IN_FLIGHT") = F \cup P
        /\ Cardinality(F) < Alpha => Cardinality(F \cup P) <= Alpha
    BY <1>1, QueriedFacts
  <2>3. P \in SUBSET Nodes /\ P \cap F = {}
    BY <1>1, PickFacts DEF In
  <2> HIDE DEF P, F
  <2>4. \A n : InStack(n, s) => n \in F \ p
    BY <1>1 DEF StackOK, InStack, F
  <2>5. StackOK(s, (F \cup P) \ p)
    BY SMTT(30), <1>1, <2>4, StackOf DEF F
  <2>6. P \subseteq (F \cup P) \ p /\ \A n \in P : ~InStack(n, s)
    BY <1>1, <2>3, <2>4 DEF F
  <2>7. /\ StackOK(Push(P, s), (F \cup P) \ p)
        /\ \A n : InStack(n, Push(P, s)) <=> n \in P \/ InStack(n, s)
    BY <2>3, <2>5, <2>6, PushOK
  <2>8. Divided(cand', pending', stack')
    BY <1>1, <2>1, <2>2, <2>7 DEF Divided, F
  <2>9. reports = <<>> => Tracked(cand', pending', timer', stack')
    <3>1. reports = <<>> => Tracked(c, p, t, s)
      BY <1>4 DEF Before
    <3> QED
      BY <2>1, <2>2, <2>7, <3>1 DEF Tracked, F
  <2>10. ReportTypes'
    BY <1>1, <2>1 DEF ReportTypes
  <2>11. ReportInv'
    <3>1. kind = "async_find_value" => reports = <<>>
      BY <1>4 DEF Before
    <3>2. kind = "async_lookup" /\ ~r => reports = <<>>
      BY DEF Before
    <3> QED
      BY <1>4, <2>1, <3>1, <3>2 DEF ReportInv
  <2>12. ~r => Cardinality(F \cup P) <= Alpha
    BY <1>4, <2>2 DEF Before, F
  <2>13. ~r => \A n \in Nodes : t[n] # "off" => n \in p
    BY DEF Before
  <2> QED
    BY <2>1, <2>2, <2>8, <2>9, <2>10, <2>11, <2>12, <2>13 DEF IInv, Converged
<1> QED
  BY <1>1, <1>2, <1>3, <1>4 DEF ReportTypes

\* While a handler can still call step_func, *finished tells whether the
\* callback of async_find_value has run, and that of async_lookup has run
\* only if an answer raced its timer.
LEMMA HandlersLeft ==
  ASSUME IInv, ~Over(pending, timer, stack)
  PROVE  /\ ReportTypes
         /\ finished => kind = "async_find_value" /\ reports # <<>> /\ Len(reports) = 1
         /\ kind = "async_find_value" /\ reports # <<>> => finished
         /\ kind = "async_lookup" /\ reports # <<>> => raced
         /\ finished => stack = <<>>
         /\ found # {} => finished
BY DEF IInv, ReportInv, ReportTypes

\* The end of a query leaves a slot of alpha free.
LEMMA SlotFreed ==
  ASSUME NEW c \in Shortlists, NEW d \in Shortlists, NEW n \in In(c, "IN_FLIGHT"),
         In(d, "IN_FLIGHT") \subseteq In(c, "IN_FLIGHT") \ {n},
         Cardinality(In(c, "IN_FLIGHT")) <= Alpha
  PROVE  Cardinality(In(d, "IN_FLIGHT")) < Alpha
<1> DEFINE F == In(c, "IN_FLIGHT")
           G == In(d, "IN_FLIGHT")
<1>1. F \in SUBSET Nodes /\ G \in SUBSET Nodes /\ F \ {n} \in SUBSET Nodes
  BY DEF In
<1>2. /\ IsFiniteSet(F) /\ Cardinality(F) \in Nat
      /\ Cardinality(G) \in Nat /\ Cardinality(F \ {n}) \in Nat
  BY <1>1, NodesFacts
<1>3. Cardinality(F \ {n}) = Cardinality(F) - 1
  BY <1>2, FS_RemoveElement
<1>4. Cardinality(G) <= Cardinality(F \ {n})
  BY <1>1, CardMonotonic
<1> QED
  BY <1>2, <1>3, <1>4, NAssumption

-----------------------------------------------------------------------------
(* The steps.                                                              *)

\* on_response and on_failure take their node out of flight, and no other.
LEMMA EndOfQuery ==
  ASSUME NEW c \in Shortlists, NEW n \in Nodes, NEW peers \in SUBSET Nodes
  PROVE  /\ OnFailure(c, n) \in Shortlists
         /\ In(OnFailure(c, n), "IN_FLIGHT") = In(c, "IN_FLIGHT") \ {n}
         /\ OnResponse(c, n, peers) \in Shortlists
         /\ In(OnResponse(c, n, peers), "IN_FLIGHT") = In(c, "IN_FLIGHT") \ {n}
BY DEF OnFailure, OnResponse, AddCandidates, In, Shortlists, CandidateState

\* The parts of the invariant that the steps use.
LEMMA IInvParts ==
  ASSUME IInv
  PROVE  /\ ReportTypes /\ timer \in Timers
         /\ cand \in Shortlists /\ pending \in SUBSET In(cand, "IN_FLIGHT")
         /\ In(cand, "IN_FLIGHT") \in SUBSET Nodes /\ pending \in SUBSET Nodes
         /\ StackOK(stack, In(cand, "IN_FLIGHT") \ pending)
         /\ reports = <<>> => Tracked(cand, pending, timer, stack)
         /\ ~raced => \A n \in Nodes : timer[n] # "off" => n \in pending
         /\ ~raced => Cardinality(In(cand, "IN_FLIGHT")) <= Alpha
BY DEF IInv, Divided, In

\* A request is sent from the innermost loop.
LEMMA QueryStep ==
  ASSUME IInv, Query
  PROVE  IInv' /\ Converged
<1> DEFINE p == Peer(stack)
           F == In(cand, "IN_FLIGHT")
<1>1. /\ stack # <<>> /\ pending' = pending \cup {p}
      /\ timer' = [timer EXCEPT ![p] = "armed"] /\ stack' = Rest(stack)
      /\ UNCHANGED <<kind, cand, found, finished, reports, raced>>
  BY DEF Query, Idle
<1>2. /\ p \in F \ pending
      /\ StackOK(Rest(stack), (F \ pending) \ {p})
      /\ \A n : InStack(n, Rest(stack)) <=> InStack(n, stack) /\ n # p
  <2>1. F \ pending \in SUBSET Nodes
    BY IInvParts
  <2> QED
    BY <1>1, <2>1, IInvParts, RestOK
<1> HIDE DEF p
<1>3. /\ timer' \in Timers /\ timer'[p] = "armed"
      /\ \A n \in Nodes \ {p} : timer'[n] = timer[n]
  BY <1>1, <1>2, IInvParts DEF Timers
<1>4. Divided(cand', pending', stack')
  <2>1. (F \ pending) \ {p} = F \ (pending \cup {p})
    OBVIOUS
  <2> QED
    BY <1>1, <1>2, <2>1, IInvParts DEF Divided
<1>5. reports' = <<>> => Tracked(cand', pending', timer', stack')
  <2> SUFFICES ASSUME reports = <<>>, NEW n \in F
               PROVE  InStack(n, stack') \/ (n \in pending' /\ timer'[n] # "off")
    BY <1>1 DEF Tracked
  <2>1. InStack(n, stack) \/ (n \in pending /\ timer[n] # "off")
    BY IInvParts DEF Tracked
  <2>2. CASE n = p
    BY <1>1, <1>3, <2>2
  <2>3. CASE n # p
    BY <1>1, <1>2, <1>3, <2>1, <2>3, IInvParts
  <2> QED
    BY <2>2, <2>3
<1>6. ReportTypes' /\ ReportInv'
  BY <1>1, IInvParts DEF IInv, ReportTypes, ReportInv, Over
<1>7. ~raced' => \A n \in Nodes : timer'[n] # "off" => n \in pending'
  BY <1>1, <1>3, IInvParts
<1>8. ~raced' => Cardinality(In(cand', "IN_FLIGHT")) <= Alpha
  BY <1>1, IInvParts
<1> QED
  BY <1>1, <1>3, <1>4, <1>5, <1>6, <1>7, <1>8 DEF IInv, Converged

\* A connection fails: step_func runs inside the loop.
LEMMA ConnectFailsStep ==
  ASSUME IInv, ConnectFails
  PROVE  IInv' /\ Converged
<1> DEFINE p == Peer(stack)
           F == In(cand, "IN_FLIGHT")
           d == OnFailure(cand, p)
<1>1. /\ stack # <<>> /\ Step(d, found, Rest(stack))
      /\ UNCHANGED <<kind, pending, timer, raced>>
  BY DEF ConnectFails, Idle
<1>2. /\ p \in F \ pending
      /\ StackOK(Rest(stack), (F \ pending) \ {p})
      /\ \A n : InStack(n, Rest(stack)) <=> InStack(n, stack) /\ n # p
  <2>1. F \ pending \in SUBSET Nodes
    BY IInvParts
  <2> QED
    BY <1>1, <2>1, IInvParts, RestOK
<1> HIDE DEF p
<1>3. d \in Shortlists /\ In(d, "IN_FLIGHT") = F \ {p}
  BY <1>2, IInvParts, EndOfQuery
<1> HIDE DEF d
<1>4. /\ ~finished /\ found = {}
      /\ kind = "async_find_value" => reports = <<>>
      /\ kind = "async_lookup" /\ reports # <<>> => raced
  BY <1>1, HandlersLeft DEF Over
<1>5. Divided(d, pending, Rest(stack))
  <2>1. (F \ pending) \ {p} = (F \ {p}) \ pending
    OBVIOUS
  <2> QED
    BY <1>2, <1>3, <2>1, IInvParts DEF Divided
<1>6. reports = <<>> => Tracked(d, pending, timer, Rest(stack))
  BY <1>2, <1>3, IInvParts DEF Tracked
<1>7. ~raced => Cardinality(In(d, "IN_FLIGHT")) < Alpha
  BY <1>2, <1>3, IInvParts, SlotFreed
<1>8. ~raced => Cardinality(In(d, "IN_FLIGHT")) <= Alpha
  <2>1. Cardinality(In(d, "IN_FLIGHT")) \in Nat
    BY <1>3, IInvParts, NodesFacts
  <2> QED
    BY <1>7, <2>1, NAssumption
<1>9. Before(d, found, Rest(stack), pending, timer, raced)
  BY <1>4, <1>5, <1>6, <1>7, <1>8, IInvParts DEF Before, ReportTypes
<1> QED
  BY <1>1, <1>9, IInvParts, StepInv DEF ReportTypes

\* A query to n that is answered or times out while the event loop is idle: the
\* shortlist d, the timers t and the flag r that the handler leaves.
QueryEnded(n, d, t, r) ==
  /\ Idle /\ (n \in pending \/ timer[n] # "off")
  /\ d \in Shortlists /\ In(d, "IN_FLIGHT") = In(cand, "IN_FLIGHT") \ {n}
  /\ t \in Timers /\ \A m \in Nodes \ {n} : t[m] = timer[m]
  /\ r \in BOOLEAN /\ (raced => r) /\ (~r => t[n] = "off")

(***************************************************************************)
(* An answer or a timeout of node n ends its query, with the timers t and  *)
(* r after it: step_func may be called.                                    *)
(***************************************************************************)
LEMMA QueryEnds ==
  ASSUME IInv, NEW n \in Nodes, NEW d, NEW t, NEW r, QueryEnded(n, d, t, r)
  PROVE  Before(d, found, stack, pending \ {n}, t, r)
<1> SUFFICES ASSUME Idle, n \in pending \/ timer[n] # "off", d \in Shortlists,
                    In(d, "IN_FLIGHT") = In(cand, "IN_FLIGHT") \ {n},
                    t \in Timers, \A m \in Nodes \ {n} : t[m] = timer[m],
                    r \in BOOLEAN, raced => r, ~r => t[n] = "off"
             PROVE  Before(d, found, stack, pending \ {n}, t, r)
  BY DEF QueryEnded
<1> DEFINE F == In(cand, "IN_FLIGHT")
<1>1. stack = <<>> /\ ~Over(pending, timer, stack)
  BY DEF Idle, Over
<1>2. ~r => n \in F
  BY IInvParts DEF ReportTypes
<1>3. Divided(d, pending \ {n}, stack)
  <2>1. \A m : ~InStack(m, stack)
    BY SMTT(30), <1>1 DEF InStack
  <2>2. StackOK(stack, In(d, "IN_FLIGHT") \ (pending \ {n}))
    BY <2>1, IInvParts, StackOf
  <2> QED
    BY <2>2, IInvParts DEF Divided
<1>4. reports = <<>> => Tracked(d, pending \ {n}, t, stack)
  <2> SUFFICES ASSUME reports = <<>>, NEW m \in F \ {n}
               PROVE  m \in pending \ {n} /\ t[m] # "off"
    BY DEF Tracked
  <2>1. ~InStack(m, stack)
    BY SMTT(30), <1>1 DEF InStack
  <2>2. m \in pending /\ timer[m] # "off" /\ m \in Nodes
    BY <2>1, IInvParts DEF Tracked
  <2> QED
    BY <2>2
<1>5. ~r => \A m \in Nodes : t[m] # "off" => m \in pending \ {n}
  BY IInvParts DEF ReportTypes
<1>6. ~r => Cardinality(In(d, "IN_FLIGHT")) < Alpha
  BY <1>2, IInvParts, SlotFreed DEF ReportTypes
<1>7. ~r => Cardinality(In(d, "IN_FLIGHT")) <= Alpha
  <2>1. Cardinality(In(d, "IN_FLIGHT")) \in Nat
    BY IInvParts, NodesFacts
  <2> QED
    BY SMTT(30), <1>6, <2>1, NAssumption
<1> QED
  BY <1>1, <1>3, <1>4, <1>5, <1>6, <1>7, HandlersLeft DEF Before, ReportTypes

\* The handler of an answer cancels the timer, unless it is queued already.
LEMMA AnsweredFacts ==
  ASSUME IInv, NEW n \in Nodes, Answered(n)
  PROVE  /\ Idle /\ n \in pending /\ pending' = pending \ {n}
         /\ timer' \in Timers /\ \A m \in Nodes \ {n} : timer'[m] = timer[m]
         /\ raced' \in BOOLEAN /\ (raced => raced') /\ (~raced' => timer'[n] = "off")
         /\ kind' = kind
<1>1. /\ timer' = [timer EXCEPT ![n] = Cancelled(timer[n])]
      /\ timer[n] \in {"off", "armed", "queued"}
  BY IInvParts DEF Answered, Timers
<1>2. Cancelled(timer[n]) \in {"off", "armed", "queued"}
  BY <1>1 DEF Cancelled
<1>3. timer' \in Timers /\ timer'[n] = Cancelled(timer[n])
  BY <1>1, <1>2, IInvParts DEF Timers
<1> QED
  BY <1>1, <1>3, IInvParts DEF Answered, Cancelled, Timers, ReportTypes

\* A record arrives.
LEMMA ReceiveValueStep ==
  ASSUME IInv, NEW n \in Nodes, ReceiveValue(n)
  PROVE  IInv' /\ Converged
<1>1. kind = "async_find_value" /\ Answered(n) /\ Step(cand, {n}, stack)
  BY DEF ReceiveValue
<1>2. stack = <<>> /\ ~Over(pending, timer, stack)
  BY <1>1, AnsweredFacts DEF Idle, Over
<1>3. Divided(cand, pending', stack)
  <2>1. \A m : ~InStack(m, stack)
    BY <1>2 DEF InStack
  <2>2. StackOK(stack, In(cand, "IN_FLIGHT") \ pending')
    BY <2>1, IInvParts, StackOf
  <2> QED
    BY <1>1, <2>2, IInvParts, AnsweredFacts DEF Divided
<1>4. ~raced' => \A m \in Nodes : timer'[m] # "off" => m \in pending'
  BY <1>1, IInvParts, AnsweredFacts DEF ReportTypes
<1>5. ~raced' => Cardinality(In(cand, "IN_FLIGHT")) <= Alpha
  BY <1>1, IInvParts, AnsweredFacts DEF ReportTypes
<1>6. Before(cand, {n}, stack, pending', timer', raced')
  BY <1>1, <1>2, <1>3, <1>4, <1>5, HandlersLeft DEF Before
<1> QED
  BY SMTT(30), <1>1, <1>6, AnsweredFacts, StepInv

\* Peers arrive.
LEMMA ReceivePeersStep ==
  ASSUME IInv, NEW n \in Nodes, NEW peers \in SUBSET Nodes, ReceivePeers(n, peers)
  PROVE  IInv' /\ Converged
<1> DEFINE d == OnResponse(cand, n, peers)
<1>1. Answered(n) /\ Step(d, found, stack)
  BY DEF ReceivePeers
<1>2. d \in Shortlists /\ In(d, "IN_FLIGHT") = In(cand, "IN_FLIGHT") \ {n}
  BY IInvParts, EndOfQuery
<1> HIDE DEF d
<1>3. QueryEnded(n, d, timer', raced')
  BY <1>1, <1>2, AnsweredFacts DEF QueryEnded
<1>4. Before(d, found, stack, pending \ {n}, timer', raced')
  BY <1>3, QueryEnds
<1>5. /\ pending' = pending \ {n} /\ timer' \in Timers /\ raced' \in BOOLEAN
      /\ UNCHANGED kind
  BY <1>1, AnsweredFacts
<1>6. Before(d, found, stack, pending', timer', raced')
  BY <1>4, <1>5
<1> QED
  BY <1>1, <1>5, <1>6, StepInv

\* An invalid record or a malformed response arrives.
LEMMA ReceiveInvalidStep ==
  ASSUME IInv, NEW n \in Nodes, ReceiveInvalid(n)
  PROVE  IInv' /\ Converged
<1> DEFINE d == OnFailure(cand, n)
<1>1. Answered(n) /\ Step(d, found, stack)
  BY DEF ReceiveInvalid
<1>2. d \in Shortlists /\ In(d, "IN_FLIGHT") = In(cand, "IN_FLIGHT") \ {n}
  BY IInvParts, EndOfQuery
<1> HIDE DEF d
<1>3. QueryEnded(n, d, timer', raced')
  BY <1>1, <1>2, AnsweredFacts DEF QueryEnded
<1>4. Before(d, found, stack, pending \ {n}, timer', raced')
  BY <1>3, QueryEnds
<1>5. /\ pending' = pending \ {n} /\ timer' \in Timers /\ raced' \in BOOLEAN
      /\ UNCHANGED kind
  BY <1>1, AnsweredFacts
<1>6. Before(d, found, stack, pending', timer', raced')
  BY <1>4, <1>5
<1> QED
  BY <1>1, <1>5, <1>6, StepInv

\* The handler of a timer is queued.
LEMMA TimerExpiresStep ==
  ASSUME IInv, NEW n \in Nodes, TimerExpires(n)
  PROVE  IInv' /\ Converged
<1>1. /\ timer[n] = "armed" /\ timer' = [timer EXCEPT ![n] = "queued"]
      /\ UNCHANGED <<kind, cand, stack, pending, found, finished, reports, raced>>
  BY DEF TimerExpires
<1>2. /\ timer' \in Timers
      /\ \A m \in Nodes : timer'[m] = "off" <=> timer[m] = "off"
  BY <1>1, IInvParts DEF Timers
<1>3. reports' = <<>> => Tracked(cand', pending', timer', stack')
  BY <1>1, <1>2, IInvParts DEF Tracked
<1>4. ReportTypes' /\ ReportInv'
  BY <1>1, <1>2 DEF IInv, ReportTypes, ReportInv, Over
<1>5. /\ Divided(cand', pending', stack')
      /\ ~raced' => \A m \in Nodes : timer'[m] # "off" => m \in pending'
      /\ ~raced' => Cardinality(In(cand', "IN_FLIGHT")) <= Alpha
  BY <1>1, <1>2 DEF IInv
<1> QED
  BY <1>1, <1>2, <1>3, <1>4, <1>5 DEF IInv, Converged

\* The handler of a timer runs, although its request may be answered.
LEMMA TimerFiresStep ==
  ASSUME IInv, NEW n \in Nodes, TimerFires(n)
  PROVE  IInv' /\ Converged
<1> DEFINE d == OnFailure(cand, n)
<1>1. /\ Idle /\ timer[n] = "queued" /\ timer' = [timer EXCEPT ![n] = "off"]
      /\ pending' = pending \ {n} /\ Step(d, found, stack)
      /\ UNCHANGED <<kind, raced>>
  BY DEF TimerFires
<1>2. d \in Shortlists /\ In(d, "IN_FLIGHT") = In(cand, "IN_FLIGHT") \ {n}
  BY IInvParts, EndOfQuery
<1> HIDE DEF d
<1>3. /\ timer' \in Timers /\ timer'[n] = "off"
      /\ \A m \in Nodes \ {n} : timer'[m] = timer[m]
  BY <1>1, IInvParts DEF Timers
<1>4. raced' \in BOOLEAN /\ (raced => raced') /\ UNCHANGED kind
  BY <1>1, IInvParts DEF ReportTypes
<1>5. QueryEnded(n, d, timer', raced')
  BY <1>1, <1>2, <1>3, <1>4 DEF QueryEnded
<1>6. Before(d, found, stack, pending \ {n}, timer', raced')
  BY <1>5, QueryEnds
<1>7. Before(d, found, stack, pending', timer', raced') /\ Step(d, found, stack)
  BY <1>1, <1>6
<1> QED
  BY <1>3, <1>4, <1>7, StepInv

\* Every step keeps the invariant, and a callback comes at convergence.
LEMMA NextStep ==
  ASSUME IInv, [Next]_vars
  PROVE  IInv' /\ Converged
<1>1. CASE UNCHANGED vars
  BY <1>1 DEF vars, IInv, ReportTypes, ReportInv, Converged
<1>2. CASE Next
  BY <1>2, QueryStep, ConnectFailsStep, ReceiveValueStep, ReceivePeersStep,
     ReceiveInvalidStep, TimerExpiresStep, TimerFiresStep DEF Next
<1> QED
  BY <1>1, <1>2

\* The lookup starts in the invariant: the local hit, the empty routing table
\* and the first queries.
LEMMA InitInv ==
  ASSUME Init
  PROVE  IInv
<1>0. /\ pending = {} /\ timer \in Timers /\ \A n \in Nodes : timer[n] = "off"
      /\ found = {} /\ raced = FALSE
  BY DEF Init, Timers
<1>1. /\ StackOK(<<>>, {}) /\ \A n : ~InStack(n, <<>>)
  BY DEF StackOK, InStack
<1>2. \A x \in Results : <<x>> \in Seq(Results) /\ Len(<<x>>) = 1 /\ <<x>> # <<>>
  OBVIOUS
<1>3. {} \in Results /\ {0} \in Results
  BY SMTT(30), NAssumption DEF Results
<1>4. CASE InitLocal
  <2>1. In(cand, "IN_FLIGHT") = {} /\ cand \in Shortlists
    BY <1>4 DEF InitLocal, In, Shortlists, CandidateState
  <2>2. Cardinality(In(cand, "IN_FLIGHT")) <= Alpha
    BY SMTT(30), <2>1, FS_EmptySet, NAssumption
  <2>3. Divided(cand, pending, stack)
    BY <1>0, <1>1, <1>4, <2>1 DEF Divided, InitLocal
  <2>4. ReportTypes /\ ReportInv /\ reports # <<>>
    BY <1>0, <1>2, <1>3, <1>4 DEF ReportTypes, ReportInv, InitLocal, Over
  <2> QED
    BY <1>0, <2>2, <2>3, <2>4 DEF IInv
<1>5. CASE InitNetwork
  <2>1. PICK initial \in SUBSET Nodes :
          LET c == AddCandidates([n \in Nodes |-> "unknown"], initial)
          IN  /\ cand = Queried(c)
              /\ stack = Push(PickNextQueries(c), <<>>)
              /\ finished = (kind = "async_find_value" /\ initial = {})
              /\ reports = IF initial = {} THEN <<{}>> ELSE <<>>
    BY <1>5 DEF InitNetwork
  <2> DEFINE c == AddCandidates([n \in Nodes |-> "unknown"], initial)
             P == PickNextQueries(c)
  <2>2. /\ c \in Shortlists /\ In(c, "IN_FLIGHT") = {}
        /\ In(c, "UNQUERIED") = initial
    BY DEF AddCandidates, In, Shortlists, CandidateState
  <2>3. cand = Queried(c) /\ stack = Push(P, <<>>)
    BY <2>1
  <2> HIDE DEF c
  <2>4. P \in SUBSET initial
    BY <2>2, PickFacts
  <2>5. /\ cand \in Shortlists /\ In(cand, "IN_FLIGHT") = P
        /\ Cardinality(P) <= Alpha
    <3>1. Cardinality(In(c, "IN_FLIGHT")) < Alpha
      BY SMTT(30), <2>2, FS_EmptySet, NAssumption
    <3>2. /\ Queried(c) \in Shortlists
          /\ In(Queried(c), "IN_FLIGHT") = {} \cup P
          /\ Cardinality(In(Queried(c), "IN_FLIGHT")) <= Alpha
      BY <2>2, <3>1, QueriedFacts
    <3> QED
      BY <2>3, <3>2
  <2> HIDE DEF P
  <2>6. StackOK(<<>>, P)
    BY <1>1, StackOf
  <2>7. StackOK(stack, P) /\ \A n : InStack(n, stack) <=> n \in P
    BY <1>1, <2>3, <2>4, <2>6, PushOK
  <2>8. Divided(cand, pending, stack) /\ Tracked(cand, pending, timer, stack)
    BY <1>0, <2>5, <2>7 DEF Divided, Tracked
  <2>9. initial = {} => stack = <<>>
    BY <2>3, <2>4 DEF Push
  <2>10. ReportTypes
    <3>1. finished \in BOOLEAN /\ kind \in {"async_lookup", "async_find_value"}
      BY <1>5, <2>1 DEF InitNetwork
    <3>2. reports \in Seq(Results)
      BY <1>2, <1>3, <2>1
    <3> QED
      BY <1>0, <3>1, <3>2 DEF ReportTypes
  <2>11. ReportInv
    <3>1. CASE initial = {}
      <4>1. /\ reports # <<>> /\ Len(reports) = 1
            /\ finished = (kind = "async_find_value")
        BY <1>2, <1>3, <2>1, <3>1
      <4> QED
        BY <1>0, <2>9, <2>10, <3>1, <4>1 DEF ReportInv, ReportTypes, Over
    <3>2. CASE initial # {}
      BY <1>0, <2>1, <3>2 DEF ReportInv
    <3> QED
      BY <3>1, <3>2
  <2> QED
    BY <1>0, <2>5, <2>8, <2>10, <2>11 DEF IInv
<1> QED
  BY <1>4, <1>5 DEF Init

-----------------------------------------------------------------------------
(* A node has its turn once.                                               *)

\* The nodes of A have had their turn: each is past the state UNQUERIED, which
\* it never has again, and none is in a loop.
TurnOver(c, s, A) ==
  /\ \A n \in A : n \in Nodes /\ c[n] \in {"IN_FLIGHT", "RESPONDED", "FAILED"}
  /\ \A n \in A : ~InStack(n, s)

AskedInv == TurnOver(cand, stack, asked)

\* on_response and on_failure make no known node UNQUERIED.
LEMMA EndOfQueryTurn ==
  ASSUME NEW c \in Shortlists, NEW n \in Nodes, NEW peers \in SUBSET Nodes,
         NEW s, NEW A, TurnOver(c, s, A)
  PROVE  TurnOver(OnFailure(c, n), s, A) /\ TurnOver(OnResponse(c, n, peers), s, A)
BY DEF OnFailure, OnResponse, AddCandidates, Shortlists, TurnOver

\* A call of step_func picks nodes that have not had their turn.
LEMMA StepTurn ==
  ASSUME NEW c \in Shortlists, NEW f, NEW s, StackOK(s, In(c, "IN_FLIGHT")),
         NEW A, TurnOver(c, s, A), Step(c, f, s)
  PROVE  TurnOver(cand', stack', A)
<1> DEFINE P == PickNextQueries(c)
           F == In(c, "IN_FLIGHT")
<1>1. \/ cand' = c /\ stack' = s
      \/ cand' = Queried(c) /\ stack' = Push(P, s)
  BY DEF Step
<1>2. CASE cand' = c /\ stack' = s
  BY <1>2
<1>3. CASE cand' = Queried(c) /\ stack' = Push(P, s)
  <2>1. P \in SUBSET In(c, "UNQUERIED")
    BY PickFacts
  <2>2. P \in SUBSET Nodes /\ P \cap F = {} /\ P \cap A = {}
    BY <2>1 DEF In, TurnOver
  <2>3. \A n : InStack(n, s) => n \in F
    BY DEF StackOK, InStack
  <2>4. StackOK(s, F \cup P) /\ \A n \in P : ~InStack(n, s)
    BY <2>2, <2>3, StackOf
  <2>5. \A n : InStack(n, Push(P, s)) <=> n \in P \/ InStack(n, s)
    BY SMTT(30), <2>2, <2>4, PushOK
  <2>6. \A n \in Nodes \ P : Queried(c)[n] = c[n]
    BY DEF Queried
  <2> HIDE DEF P
  <2> QED
    BY <1>3, <2>2, <2>5, <2>6 DEF TurnOver
<1> QED
  BY <1>1, <1>2, <1>3

\* An iteration of the loop, with or without a connection: the turn of its
\* node is over.
LEMMA IterationTurn ==
  ASSUME IInv, AskedInv, Query \/ ConnectFails
  PROVE  AskedInv'
<1> DEFINE p == Peer(stack)
           F == In(cand, "IN_FLIGHT")
           A == asked \cup {p}
<1>1. stack # <<>> /\ asked' = A
  BY DEF Query, ConnectFails, Idle
<1>2. /\ p \in F /\ p \in Nodes /\ cand[p] = "IN_FLIGHT"
      /\ StackOK(Rest(stack), F \ {p})
      /\ \A n : InStack(n, Rest(stack)) <=> InStack(n, stack) /\ n # p
  <2>1. F \in SUBSET Nodes /\ StackOK(stack, F)
    BY IInvParts DEF StackOK
  <2>2. /\ p \in F /\ StackOK(Rest(stack), F \ {p})
        /\ \A n : InStack(n, Rest(stack)) <=> InStack(n, stack) /\ n # p
    BY <1>1, <2>1, RestOK
  <2> QED
    BY <2>2 DEF In
<1> HIDE DEF p
<1>3. TurnOver(cand, Rest(stack), A)
  BY <1>2 DEF AskedInv, TurnOver
<1> HIDE DEF A
<1>4. CASE Query
  BY <1>1, <1>3, <1>4 DEF Query, AskedInv
<1>5. CASE ConnectFails
  <2> DEFINE d == OnFailure(cand, p)
  <2>1. Step(d, found, Rest(stack))
    BY <1>5 DEF ConnectFails, p
  <2>2. d \in Shortlists /\ In(d, "IN_FLIGHT") = F \ {p}
    BY <1>2, IInvParts, EndOfQuery
  <2>3. TurnOver(d, Rest(stack), A)
    BY <1>2, <1>3, IInvParts, EndOfQueryTurn
  <2> HIDE DEF d
  <2>4. TurnOver(cand', stack', A)
    BY <1>2, <2>1, <2>2, <2>3, StepTurn
  <2> QED
    BY <1>1, <2>4 DEF AskedInv
<1> QED
  BY <1>4, <1>5

\* A handler of an answer or of a timer: it calls step_func from the event loop.
LEMMA HandlerTurn ==
  ASSUME IInv, AskedInv, NEW n \in Nodes, NEW peers \in SUBSET Nodes,
         Idle, UNCHANGED asked, NEW f, NEW d,
         d \in {cand, OnFailure(cand, n), OnResponse(cand, n, peers)},
         Step(d, f, stack)
  PROVE  AskedInv'
<1>1. d \in Shortlists
  <2>1. cand \in Shortlists
    BY IInvParts
  <2>2. OnFailure(cand, n) \in Shortlists /\ OnResponse(cand, n, peers) \in Shortlists
    BY <2>1, EndOfQuery
  <2> QED
    BY <2>1, <2>2
<1>2. TurnOver(d, stack, asked)
  BY IInvParts, EndOfQueryTurn DEF AskedInv
<1>3. StackOK(stack, In(d, "IN_FLIGHT"))
  <2>1. \A m : ~InStack(m, stack)
    BY SMTT(30) DEF Idle, InStack
  <2> QED
    BY <2>1, IInvParts, StackOf
<1>4. TurnOver(cand', stack', asked)
  BY <1>1, <1>2, <1>3, StepTurn
<1> QED
  BY <1>4 DEF AskedInv

\* Every step keeps what is known of the nodes whose turn is over.
LEMMA AskedStep ==
  ASSUME IInv, AskedInv, [Next]_vars
  PROVE  AskedInv'
<1>1. CASE UNCHANGED vars
  BY <1>1 DEF vars, AskedInv
<1>2. CASE Query \/ ConnectFails
  BY <1>2, IterationTurn
<1>3. ASSUME NEW n \in Nodes, NEW peers \in SUBSET Nodes,
             \/ ReceiveValue(n) \/ ReceivePeers(n, peers)
             \/ ReceiveInvalid(n) \/ TimerFires(n)
      PROVE  AskedInv'
  <2>1. Idle /\ UNCHANGED asked
    BY <1>3 DEF ReceiveValue, ReceivePeers, ReceiveInvalid, TimerFires, Answered
  <2>2. \/ Step(cand, {n}, stack) \/ Step(OnResponse(cand, n, peers), found, stack)
        \/ Step(OnFailure(cand, n), found, stack)
    BY <1>3 DEF ReceiveValue, ReceivePeers, ReceiveInvalid, TimerFires
  <2> QED
    BY <2>1, <2>2, HandlerTurn
<1>4. ASSUME NEW n \in Nodes, TimerExpires(n)
      PROVE  AskedInv'
  BY <1>4 DEF TimerExpires, AskedInv
<1>5. {} \in SUBSET Nodes
  OBVIOUS
<1> QED
  BY <1>1, <1>2, <1>3, <1>4, <1>5 DEF Next

-----------------------------------------------------------------------------

\* IInv is an inductive invariant of a lookup.
THEOREM Invariance == Spec => []IInv
<1>1. IInv /\ [Next]_vars => IInv'
  BY NextStep
<1> QED
  BY <1>1, InitInv, PTL DEF Spec

\* Neither the recursion of step_func nor a race of an answer and a timer
\* leaves a node in flight that nothing will end.
THEOREM TrackedCorrect == Spec => []InFlightIsTracked
<1>1. IInv => InFlightIsTracked
  BY DEF IInv, Tracked, InStack, InFlightIsTracked
<1> QED
  BY <1>1, Invariance, PTL

\* A lookup turns to no node twice: neither on_response nor on_failure makes a
\* known node UNQUERIED again, and no two loops of step_func hold the same one.
THEOREM QueriedCorrect == Spec => []QueriedOnce
<1>1. Init => AskedInv
  BY DEF Init, AskedInv, TurnOver
<1>2. IInv /\ AskedInv /\ [Next]_vars => AskedInv'
  BY AskedStep
<1>3. IInv /\ AskedInv => QueriedOnce
  BY DEF IInv, Divided, StackOK, AskedInv, TurnOver, InStack, QueriedOnce
<1> QED
  BY <1>1, <1>2, <1>3, Invariance, PTL DEF Spec

\* The callback of async_find_value runs at most once, and that of
\* async_lookup too unless an answer raced its timer.
THEOREM CallbackCorrect == Spec => []CallbackOnce
<1>1. IInv => CallbackOnce
  <2> SUFFICES ASSUME IInv, Len(reports) > 1
               PROVE  kind = "async_lookup" /\ raced
    BY DEF CallbackOnce
  <2>1. reports # <<>>
    BY DEF IInv, ReportTypes
  <2>2. ~(Len(reports) = 1)
    BY DEF IInv, ReportTypes
  <2> QED
    BY <2>1, <2>2 DEF IInv, ReportTypes, ReportInv
<1> QED
  BY <1>1, Invariance, PTL

\* async_find_value sends nothing after its callback.
THEOREM QuietCorrect == Spec => []QuietAfterReport
<1>1. IInv => QuietAfterReport
  BY DEF IInv, ReportInv, QuietAfterReport, Idle
<1> QED
  BY <1>1, Invariance, PTL

\* At most alpha queries are in flight unless an answer raced its timer.
THEOREM AlphaCorrect == Spec => []AtMostAlphaInFlight
<1>1. IInv => AtMostAlphaInFlight
  BY DEF IInv, AtMostAlphaInFlight
<1> QED
  BY <1>1, Invariance, PTL

\* The first callback comes at convergence: no known node was passed over.
THEOREM ConvergedCorrect == Spec => ConvergedAtFirstCallback
<1>1. IInv /\ [Next]_vars
        => [(reports = <<>> /\ reports' # <<>> /\ found' = {}) =>
              LET answered == IF kind = "async_lookup" THEN reports'[1]
                                                       ELSE In(cand', "RESPONDED")
              IN  \A n \in Known(cand') :
                    \/ n \in answered
                    \/ cand'[n] = "FAILED"
                    \/ Cardinality({m \in answered : m < n}) >= K]_vars
  BY NextStep DEF Converged, Accounted
<1> QED
  BY <1>1, Invariance, PTL DEF Spec, ConvergedAtFirstCallback

=============================================================================
