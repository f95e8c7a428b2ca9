---------------------------- MODULE SessionProofs ---------------------------
(***************************************************************************)
(* Proofs about the sessions of two nodes: the sliding window of sequence  *)
(* numbers, and a connection on which there is one handshake.              *)
(*                                                                         *)
(* ReplayCache implements SeqFilter, for every size of the window and      *)
(* every range of sequence numbers.  The invariant is BitmapMatches:       *)
(* within the window, the bit of a number says whether it was              *)
(* accepted.  It rests on SlotUnique: two numbers less than a window apart *)
(* never share a slot.                                                     *)
(*                                                                         *)
(* SecureChannel with one handshake, for any number of frames: no frame is *)
(* rejected and the sessions of the two ends agree.  The invariant follows *)
(* the handshake from one end to the other and back.                       *)
(***************************************************************************)
EXTENDS ReplayCache, ChannelProofs

\* The backends, in the order in which a leaf is given to them.
USE ZenonT(2), SMTT(10), ZenonT(20), SMTT(40)

-----------------------------------------------------------------------------
\* ReplayCache

\* Numbers on the same slot are a multiple of the window size apart.
LEMMA SlotDivision ==
  ASSUME NEW s \in Nat
  PROVE  /\ s \div WindowSize \in Nat
         /\ s % WindowSize \in 0..WindowSize - 1
         /\ s = WindowSize * (s \div WindowSize) + (s % WindowSize)
BY WindowSizeAssumption, SMT

\* Two numbers that are less than a window apart have different slots.
LEMMA SlotUnique ==
  ASSUME NEW s \in Nat, NEW t \in Nat,
         s <= t, t - s < WindowSize, Slot(s) = Slot(t)
  PROVE  s = t
<1> DEFINE a == s \div WindowSize
           b == t \div WindowSize
           r == s % WindowSize
<1>1. /\ a \in Nat /\ b \in Nat /\ r \in Nat
      /\ s = WindowSize * a + r
      /\ t = WindowSize * b + r
  BY SMTT(30), SlotDivision, WindowSizeAssumption DEF Slot
<1> HIDE DEF a, b, r
<1>2. WindowSize * (b - a) = t - s
  BY <1>1, WindowSizeAssumption
<1>3. CASE b - a >= 1
  <2>1. WindowSize * (b - a) >= WindowSize
    BY <1>1, <1>3, WindowSizeAssumption
  <2> QED
    BY <1>2, <2>1, WindowSizeAssumption
<1>4. CASE b - a <= -1
  <2>1. WindowSize * (b - a) <= -WindowSize
    BY <1>1, <1>4, WindowSizeAssumption
  <2> QED
    BY <1>2, <2>1, WindowSizeAssumption
<1>5. CASE b - a = 0
  BY <1>2, <1>5, WindowSizeAssumption
<1> QED
  BY <1>1, <1>3, <1>4, <1>5

\* A slot is an index of the bitmap.
LEMMA SlotType == \A s \in Nat : Slot(s) \in Slots
BY SlotDivision DEF Slot, Slots

-----------------------------------------------------------------------------

(***************************************************************************)
(* Before the first number the bitmap is empty: BitmapMatches alone is not *)
(* inductive, the first number may come from anywhere above the window     *)
(* that highest_seq, still 0, stands for.                                  *)
(***************************************************************************)
NoneBeforeFirst == ~looping /\ ~initialized => window_bitmap = {}

CacheInv == TypeOK /\ BitmapMatches /\ NoneBeforeFirst

\* The bitmap that update_and_check leaves above the highest number: every
\* number of the new window below seq is kept from the old one or cleared.
LEMMA MovedWindow ==
  ASSUME CacheInv, initialized, ~looping,
         NEW seq \in Seqs, seq > highest_seq,
         NEW s \in 0..seq, s # seq, seq - s < WindowSize
  PROVE  (Slot(s) \in Moved(seq) <=> s \in accepted)
<1>0. /\ s \in Nat /\ seq \in Nat /\ highest_seq \in Nat /\ s < seq
      /\ Slot(s) \in Slots
  BY SMTT(30), SlotType, MaxSeqAssumption DEF Seqs, CacheInv, TypeOK
<1>1. CASE seq - highest_seq >= WindowSize
  <2>1. s > highest_seq
    BY <1>0, <1>1, WindowSizeAssumption
  <2>2. s \notin accepted
    BY <2>1, <1>0 DEF CacheInv, BitmapMatches, TypeOK, Seqs
  <2> QED
    BY <1>1, <2>2 DEF Moved
<1>2. CASE seq - highest_seq < WindowSize
  <2>0. Slot(s) \in Moved(seq) <=>
          Slot(s) \in window_bitmap /\ \A x \in highest_seq + 1..seq : Slot(x) # Slot(s)
    BY <1>0, <1>2, WindowSizeAssumption DEF Moved
  <2>1. CASE s > highest_seq
    <3>1. s \in highest_seq + 1..seq
      BY <1>0, <2>1
    <3>2. s \notin accepted
      BY <2>1, <1>0 DEF CacheInv, BitmapMatches, TypeOK, Seqs
    <3> QED
      BY <2>0, <3>1, <3>2
  <2>2. CASE s <= highest_seq
    <3>1. \A x \in highest_seq + 1..seq : Slot(x) # Slot(s)
      <4> SUFFICES ASSUME NEW x \in highest_seq + 1..seq, Slot(x) = Slot(s)
                   PROVE  FALSE
        OBVIOUS
      <4>1. x \in Nat /\ s <= x /\ s # x /\ x - s < WindowSize
        BY <1>0, <2>2, WindowSizeAssumption
      <4> QED
        BY <4>1, <1>0, SlotUnique
    <3>2. (Slot(s) \in window_bitmap <=> s \in accepted)
      <4>1. s \in 0..highest_seq /\ highest_seq - s < WindowSize
        BY <1>0, <2>2, WindowSizeAssumption
      <4> QED
        BY <4>1 DEF CacheInv, BitmapMatches
    <3> QED
      BY <2>0, <3>1, <3>2
  <2> QED
    BY <1>0, <2>1, <2>2
<1> QED
  BY <1>0, <1>1, <1>2, WindowSizeAssumption

\* Setting the bit of seq makes the bitmap match when the rest of its window
\* did, for highest the new highest number.
LEMMA AcceptMatches ==
  ASSUME NEW bitmap \in SUBSET Slots, NEW S, NEW highest \in Nat,
         NEW seq \in 0..highest, highest - seq < WindowSize,
         \A s \in 0..highest : s # seq /\ highest - s < WindowSize
            => (Slot(s) \in bitmap <=> s \in S)
  PROVE  \A s \in 0..highest : highest - s < WindowSize =>
           (Slot(s) \in bitmap \cup {Slot(seq)} <=> s \in S \cup {seq})
<1> SUFFICES ASSUME NEW s \in 0..highest, highest - s < WindowSize
             PROVE  (Slot(s) \in bitmap \cup {Slot(seq)} <=> s \in S \cup {seq})
  OBVIOUS
<1>0. /\ s \in Nat /\ seq \in Nat
      /\ Slot(s) \in Slots /\ Slot(seq) \in Slots
  BY SMTT(30), SlotType
<1>1. CASE s = seq
  BY <1>1
<1>2. CASE s # seq
  <2>1. Slot(s) # Slot(seq)
    <3>1. CASE s <= seq
      BY <1>0, <1>2, <3>1, SlotUnique, WindowSizeAssumption
    <3>2. CASE seq <= s
      <4>1. s - seq < WindowSize
        BY <1>0, <3>2, WindowSizeAssumption
      <4> QED
        BY <1>0, <1>2, <3>2, <4>1, SlotUnique
    <3> QED
      BY <1>0, <3>1, <3>2
  <2> QED
    BY <1>2, <2>1
<1> QED
  BY <1>1, <1>2

\* The bitmap that update_and_check moves is one.
LEMMA MovedType ==
  ASSUME TypeOK, NEW seq \in Seqs
  PROVE  Moved(seq) \in SUBSET Slots
BY DEF Moved, TypeOK

\* What every accepting branch of update_and_check leaves.
LEMMA AcceptTypes ==
  ASSUME TypeOK, NEW seq \in Seqs, NEW bitmap \in SUBSET Slots,
         Accept(seq, bitmap)
  PROVE  /\ window_bitmap' \in SUBSET Slots
         /\ accepted' \in SUBSET Seqs
         /\ answer' \in (Seqs \X {"accepted", "rejected"}) \cup {<<>>}
         /\ looping' \in BOOLEAN
BY SMTT(30), SlotType, MaxSeqAssumption DEF Accept, TypeOK, Seqs

\* Each branch of update_and_check, and reset, keep the invariant.
LEMMA CacheStep == CacheInv /\ [CacheNext]_cacheVars => CacheInv'
<1> SUFFICES ASSUME CacheInv, [CacheNext]_cacheVars PROVE CacheInv'
  OBVIOUS
<1>0. highest_seq \in Nat /\ Seqs \subseteq Nat /\ TypeOK
  BY MaxSeqAssumption DEF CacheInv, TypeOK, Seqs
<1>1. ASSUME NEW seq \in Seqs, UpdateFirst(seq) PROVE CacheInv'
  <2>0. /\ ~looping /\ ~looping' /\ ~initialized /\ initialized' /\ accepted = {}
        /\ highest_seq' = seq /\ accepted' = {seq}
        /\ window_bitmap = {}
        /\ window_bitmap' = window_bitmap \cup {Slot(seq)}
    BY <1>1, <1>0 DEF UpdateFirst, Accept, CacheInv, BitmapMatches, NoneBeforeFirst
  <2>1. TypeOK'
    <3>1. window_bitmap \in SUBSET Slots /\ Accept(seq, window_bitmap)
      BY <1>0, <1>1 DEF TypeOK, UpdateFirst
    <3> QED
      BY <3>1, <2>0, <1>0, AcceptTypes DEF TypeOK
  <2>2. \A s \in 0..seq : s # seq /\ seq - s < WindowSize
           => (Slot(s) \in window_bitmap <=> s \in accepted)
    BY <2>0
  <2>3. \A s \in 0..seq : seq - s < WindowSize =>
           (Slot(s) \in window_bitmap \cup {Slot(seq)} <=> s \in accepted \cup {seq})
    <3>1. window_bitmap \in SUBSET Slots /\ seq \in Nat /\ seq \in 0..seq
          /\ seq - seq < WindowSize
      BY <1>0, WindowSizeAssumption DEF TypeOK
    <3> QED
      BY <2>2, <3>1, AcceptMatches
  <2>4. BitmapMatches'
    BY <2>0, <2>3, <1>0 DEF BitmapMatches
  <2> QED
    BY <2>0, <2>1, <2>4 DEF CacheInv, NoneBeforeFirst
<1>2. ASSUME NEW seq \in Seqs, UpdateAbove(seq) PROVE CacheInv'
  <2>0. /\ ~looping /\ ~looping' /\ initialized /\ initialized' /\ seq > highest_seq
        /\ highest_seq' = seq /\ accepted' = accepted \cup {seq}
        /\ window_bitmap' = Moved(seq) \cup {Slot(seq)}
    BY <1>2 DEF UpdateAbove, Accept
  <2>1. TypeOK'
    <3>1. Moved(seq) \in SUBSET Slots /\ Accept(seq, Moved(seq))
      BY <1>0, <1>2, MovedType DEF UpdateAbove
    <3> QED
      BY <3>1, <2>0, <1>0, AcceptTypes DEF TypeOK
  <2>2. \A s \in 0..seq : s # seq /\ seq - s < WindowSize
           => (Slot(s) \in Moved(seq) <=> s \in accepted)
    BY <2>0, MovedWindow
  <2>3. \A s \in 0..seq : seq - s < WindowSize =>
           (Slot(s) \in Moved(seq) \cup {Slot(seq)} <=> s \in accepted \cup {seq})
    <3>1. Moved(seq) \in SUBSET Slots /\ seq \in Nat /\ seq \in 0..seq
          /\ seq - seq < WindowSize
      BY <1>0, MovedType, WindowSizeAssumption
    <3> QED
      BY <2>2, <3>1, AcceptMatches
  <2>4. \A s \in accepted' : s <= highest_seq'
    BY <2>0, <1>0 DEF CacheInv, BitmapMatches, TypeOK
  <2>5. BitmapMatches'
    BY <2>0, <2>3, <2>4 DEF BitmapMatches
  <2> QED
    BY <2>0, <2>1, <2>5 DEF CacheInv, NoneBeforeFirst
<1>3. ASSUME NEW seq \in Seqs, UpdateAboveLoops(seq) PROVE CacheInv'
  BY <1>0, <1>3 DEF CacheInv, TypeOK, BitmapMatches, NoneBeforeFirst, UpdateAboveLoops
<1>4. ASSUME NEW seq \in Seqs, UpdateWithin(seq) PROVE CacheInv'
  <2>0. /\ ~looping /\ ~looping' /\ initialized /\ initialized' /\ seq <= highest_seq
        /\ highest_seq - seq < WindowSize
        /\ highest_seq' = highest_seq /\ accepted' = accepted \cup {seq}
        /\ window_bitmap' = window_bitmap \cup {Slot(seq)}
    BY <1>4 DEF UpdateWithin, Accept
  <2>1. TypeOK'
    <3>1. window_bitmap \in SUBSET Slots /\ Accept(seq, window_bitmap)
      BY <1>0, <1>4 DEF TypeOK, UpdateWithin
    <3> QED
      BY <3>1, <2>0, <1>0, AcceptTypes DEF TypeOK
  <2>2. \A s \in 0..highest_seq : s # seq /\ highest_seq - s < WindowSize
           => (Slot(s) \in window_bitmap <=> s \in accepted)
    BY <2>0 DEF CacheInv, BitmapMatches
  <2>3. \A s \in 0..highest_seq : highest_seq - s < WindowSize =>
           (Slot(s) \in window_bitmap \cup {Slot(seq)} <=> s \in accepted \cup {seq})
    <3>1. window_bitmap \in SUBSET Slots /\ seq \in 0..highest_seq
      BY <1>0, <2>0 DEF TypeOK
    <3> QED
      BY <2>0, <2>2, <3>1, <1>0, AcceptMatches
  <2>4. BitmapMatches'
    BY <2>0, <2>3 DEF BitmapMatches, CacheInv
  <2> QED
    BY <2>0, <2>1, <2>4 DEF CacheInv, NoneBeforeFirst
<1>5. ASSUME NEW seq \in Seqs, UpdateRejects(seq) PROVE CacheInv'
  BY <1>0, <1>5 DEF CacheInv, TypeOK, BitmapMatches, NoneBeforeFirst, UpdateRejects
<1>6. CASE Reset
  <2>0. /\ ~looping' /\ ~initialized' /\ accepted' = {} /\ highest_seq' = 0
        /\ window_bitmap' = {} /\ answer' = <<>>
    BY <1>6 DEF Reset
  <2>1. 0 \in Seqs
    BY MaxSeqAssumption DEF Seqs
  <2>2. TypeOK'
    BY <1>0, <2>0, <2>1, <1>6 DEF TypeOK, Reset
  <2> QED
    BY <2>0, <2>2 DEF CacheInv, BitmapMatches, NoneBeforeFirst
<1>7. CASE UNCHANGED cacheVars
  BY <1>7 DEF cacheVars, CacheInv, TypeOK, BitmapMatches, NoneBeforeFirst
<1> QED
  BY <1>1, <1>2, <1>3, <1>4, <1>5, <1>6, <1>7 DEF CacheNext, Update

\* The bitmap of ReplayCache always is the window of the accepted numbers.
THEOREM CacheInvariant == CacheSpec => []CacheInv
<1>1. CacheInit => CacheInv
  <2> SUFFICES ASSUME CacheInit PROVE CacheInv
    OBVIOUS
  <2>1. TypeOK
    <3>1. 0 \in Seqs
      BY MaxSeqAssumption DEF Seqs
    <3> QED
      BY <3>1 DEF CacheInit, TypeOK
  <2>2. ~initialized /\ accepted = {} /\ window_bitmap = {}
    BY DEF CacheInit
  <2> QED
    BY <2>1, <2>2 DEF CacheInv, BitmapMatches, NoneBeforeFirst
<1> QED
  BY <1>1, CacheStep, PTL DEF CacheSpec

\* The same for the two properties that are model-checked: the types, and
\* that a bit of the window is set exactly when its number was accepted.
THEOREM BitmapCorrect == CacheSpec => [](TypeOK /\ BitmapMatches)
<1>1. CacheInv => TypeOK /\ BitmapMatches
  BY DEF CacheInv
<1> QED
  BY <1>1, CacheInvariant, PTL

-----------------------------------------------------------------------------

\* Every branch of update_and_check, and reset, is a step of the filter.
LEMMA FilterStep == CacheInv /\ [CacheNext]_cacheVars => [Filter!FilterNext]_(Filter!filterVars)
<1> SUFFICES ASSUME CacheInv, [CacheNext]_cacheVars PROVE [Filter!FilterNext]_(Filter!filterVars)
  OBVIOUS
<1>0. /\ highest_seq \in Nat /\ Seqs \subseteq Nat /\ accepted \subseteq Nat
      /\ TypeOK /\ BitmapMatches
  BY MaxSeqAssumption DEF CacheInv, TypeOK, Seqs
<1>1. ASSUME NEW seq \in Seqs, UpdateFirst(seq) PROVE Filter!FilterAccept(seq)
  BY <1>0, <1>1 DEF UpdateFirst, Accept, BitmapMatches, Filter!FilterAccept, Filter!Fresh
<1>2. ASSUME NEW seq \in Seqs, UpdateAbove(seq) PROVE Filter!FilterAccept(seq)
  <2>1. \A s \in accepted : s <= highest_seq
    BY <1>0, <1>2 DEF UpdateAbove, BitmapMatches
  <2>2. Filter!Fresh(seq)
    BY <1>0, <1>2, <2>1, WindowSizeAssumption DEF UpdateAbove, Filter!Fresh
  <2> QED
    BY <1>2, <2>2 DEF UpdateAbove, Accept, Filter!FilterAccept
<1>3. ASSUME NEW seq \in Seqs, UpdateAboveLoops(seq) PROVE UNCHANGED Filter!filterVars
  BY <1>3 DEF UpdateAboveLoops, Filter!filterVars
<1>4. ASSUME NEW seq \in Seqs, UpdateWithin(seq) PROVE Filter!FilterAccept(seq)
  <2>1. \A s \in accepted : s <= highest_seq
    BY <1>0, <1>4 DEF UpdateWithin, BitmapMatches
  <2>2. seq \in 0..highest_seq /\ highest_seq - seq < WindowSize
    BY <1>0, <1>4 DEF UpdateWithin
  <2>3. seq \notin accepted
    BY <1>0, <1>4, <2>2 DEF UpdateWithin, BitmapMatches
  <2>4. Filter!Fresh(seq)
    BY <1>0, <2>1, <2>2, <2>3, WindowSizeAssumption DEF Filter!Fresh
  <2> QED
    BY <1>4, <2>4 DEF UpdateWithin, Accept, Filter!FilterAccept
<1>5. ASSUME NEW seq \in Seqs, UpdateRejects(seq) PROVE Filter!FilterReject(seq)
  <2>0. ~looping /\ initialized /\ highest_seq \in accepted
    BY <1>0, <1>5 DEF UpdateRejects, BitmapMatches
  <2>1. CASE highest_seq - seq >= WindowSize
    <3>1. ~(highest_seq - seq < WindowSize)
      BY <1>0, <2>1, WindowSizeAssumption
    <3> QED
      BY <2>0, <3>1, <1>5 DEF UpdateRejects, Filter!FilterReject, Filter!Fresh
  <2>2. CASE highest_seq - seq < WindowSize /\ Slot(seq) \in window_bitmap
    <3>1. seq \in 0..highest_seq
      BY <1>0, <1>5 DEF UpdateRejects
    <3>2. seq \in accepted
      BY <1>0, <2>0, <2>2, <3>1 DEF BitmapMatches
    <3> QED
      BY <3>2, <1>5 DEF UpdateRejects, Filter!FilterReject, Filter!Fresh
  <2> QED
    BY <1>0, <1>5, <2>1, <2>2, WindowSizeAssumption DEF UpdateRejects
<1>6. ASSUME Reset PROVE Filter!FilterReset
  BY <1>6 DEF Reset, Filter!FilterReset
<1>7. ASSUME UNCHANGED cacheVars PROVE UNCHANGED Filter!filterVars
  BY <1>7 DEF cacheVars, Filter!filterVars
<1> QED
  BY <1>1, <1>2, <1>3, <1>4, <1>5, <1>6, <1>7 DEF CacheNext, Update, Filter!FilterNext

\* ReplayCache implements SeqFilter: with its bitmap of one window it accepts
\* and rejects exactly the numbers that the set of all accepted ones would.
THEOREM FilterRefinement == CacheSpec => FilterSpec
<1>1. CacheInit => Filter!FilterInit
  BY DEF CacheInit, Filter!FilterInit
<1> QED
  BY <1>1, FilterStep, CacheInvariant, PTL DEF CacheSpec, FilterSpec, Filter!FilterSpec

\* What check says of a number is what update_and_check would answer.
LEMMA CheckAgrees ==
  ASSUME CacheInv, NEW seq \in Seqs, Update(seq), ~looping'
  PROVE  Check(seq) <=> answer' = <<seq, "accepted">>
<1>1. CASE UpdateFirst(seq)
  BY <1>1 DEF UpdateFirst, Accept, Check
<1>2. CASE UpdateAbove(seq)
  BY <1>2 DEF UpdateAbove, Accept, Check
<1>3. CASE UpdateAboveLoops(seq)
  BY <1>3 DEF UpdateAboveLoops
<1>4. CASE UpdateWithin(seq)
  BY <1>4 DEF UpdateWithin, Accept, Check
<1>5. CASE UpdateRejects(seq)
  <2>1. seq \in Nat /\ highest_seq \in Nat /\ WindowSize \in Nat
    BY SMTT(30), WindowSizeAssumption, MaxSeqAssumption DEF CacheInv, TypeOK, Seqs
  <2>2. ~Check(seq)
    BY <1>5, <2>1 DEF UpdateRejects, Check
  <2>3. answer' = <<seq, "rejected">>
    BY <1>5 DEF UpdateRejects
  <2>4. answer' # <<seq, "accepted">>
    BY <2>3
  <2> QED
    BY <2>2, <2>4
<1> QED
  BY <1>1, <1>2, <1>3, <1>4, <1>5 DEF Update

\* check, which changes nothing, foretells the answer of update_and_check.
THEOREM CheckCorrect == CacheSpec => CheckForetells
<1>1. CacheInv /\ [CacheNext]_cacheVars =>
        [\A seq \in Seqs : Update(seq) /\ ~looping' =>
           (Check(seq) <=> answer' = <<seq, "accepted">>)]_cacheVars
  BY CheckAgrees
<1> QED
  BY <1>1, CacheInvariant, PTL DEF CacheSpec, CheckForetells

-----------------------------------------------------------------------------
(***************************************************************************)
(* A connection on which one handshake, or none, was started.              *)
(***************************************************************************)

Is(f, type, h) == f.type = type /\ f.hs = h

\* What is on its way to the responder of h, whose sessions are in states I
\* and R: HANDSHAKE_INIT once, and HANDSHAKE_COMPLETE once, before any frame
\* that the initiator encrypted.
Up(w, h, I, R) ==
  /\ \A j \in 1..Len(w) :
       \/ /\ Is(w[j], "INIT", h) /\ R = "Uninitialized"
          /\ \A k \in 1..Len(w) : Is(w[k], "INIT", h) => k = j
       \/ /\ Is(w[j], "COMPLETE", h) /\ I = "Active" /\ R = "HandshakeRespSent"
          /\ \A k \in 1..Len(w) : Is(w[k], "COMPLETE", h) => k = j
       \/ /\ IsData(w[j])
          /\ Encrypted(w[j]) =>
               /\ w[j].by = <<h, "Initiator">> /\ I = "Active"
               /\ \/ R = "Active"
                  \/ \E k \in 1..(j - 1) : Is(w[k], "COMPLETE", h)
  /\ I = "Active" /\ R = "HandshakeRespSent" =>
       \E k \in 1..Len(w) : Is(w[k], "COMPLETE", h)

\* What is on its way to the initiator of h.
Down(w, h, I, R) ==
  \A j \in 1..Len(w) :
    \/ /\ Is(w[j], "RESPONSE", h)
       /\ I = "HandshakeInitSent" /\ R = "HandshakeRespSent"
       /\ \A k \in 1..Len(w) : Is(w[k], "RESPONSE", h) => k = j
    \/ /\ IsData(w[j])
       /\ Encrypted(w[j]) => w[j].by = <<h, "Responder">> /\ R = "Active"

\* The numbers of the encrypted frames of w grow, above those in got and up to
\* tx.
Growing(w, got, tx) ==
  /\ \A q \in got : q <= tx
  /\ \A j \in 1..Len(w) : Encrypted(w[j]) =>
       /\ w[j].seq <= tx
       /\ \A q \in got : q < w[j].seq
       /\ \A k \in 1..(j - 1) : Encrypted(w[k]) => w[k].seq < w[j].seq

\* The states that the two sessions of a handshake go through.
Phases ==
  {<<"HandshakeInitSent", "Uninitialized">>, <<"HandshakeInitSent", "HandshakeRespSent">>,
   <<"Active", "HandshakeRespSent">>, <<"Active", "Active">>}

Solo(h) ==
  LET i  == h[1]
      r  == Other(h[1])
      si == <<h, "Initiator">>
      sr == <<h, "Responder">>
  IN  /\ <<state[si], state[sr]>> \in Phases
      /\ session[i] = si
      /\ session[r] = IF state[sr] = "Uninitialized" THEN NoSession ELSE sr
      /\ Up(wire[r], h, state[si], state[sr])
      /\ Down(wire[i], h, state[si], state[sr])
      /\ Growing(wire[r], seen[sr], tx_seq[si])
      /\ Growing(wire[i], seen[si], tx_seq[sr])

\* Before the first handshake.
Quiet ==
  /\ session = [e \in Endpoints |-> NoSession]
  /\ state = [s \in Sessions |-> "Uninitialized"]
  /\ tx_seq = [s \in Sessions |-> 0]
  /\ seen = [s \in Sessions |-> {}]
  /\ \A e \in Endpoints : \A j \in 1..Len(wire[e]) :
       IsData(wire[e][j]) /\ ~Encrypted(wire[e][j])

AloneInv ==
  Alone =>
    /\ \A e \in Endpoints : open[e]
    /\ \A h \in Started : Solo(h)
    /\ Started = {} => Quiet

(***************************************************************************)
(* A connection with one handshake.                                        *)
(***************************************************************************)

\* The numbers of the encrypted frames, when a frame is sent.
LEMMA GrowingAppend ==
  ASSUME NEW w \in Seq(Frames), NEW got \in SUBSET Nat, NEW tx \in Nat, NEW f \in Frames,
         Growing(w, got, tx)
  PROVE  /\ ~Encrypted(f) => Growing(Append(w, f), got, tx)
         /\ Encrypted(f) /\ f.seq = tx + 1 => Growing(Append(w, f), got, tx + 1)
<1> HIDE DEF Frames, Encrypted
<1> DEFINE t == Append(w, f)
<1>1. /\ Len(t) = Len(w) + 1 /\ t[Len(w) + 1] = f /\ Len(w) \in Nat
      /\ \A j \in 1..Len(w) : t[j] = w[j] /\ w[j] \in Frames
  OBVIOUS
<1> HIDE DEF t
<1>2. \A j \in 1..Len(w) : w[j].seq \in Nat
  BY <1>1, FrameFields
<1>3. \A j \in 1..Len(t) : j \in 1..Len(w) \/ j = Len(w) + 1
  BY <1>1
<1>4. ASSUME ~Encrypted(f)
      PROVE  Growing(t, got, tx)
  <2>1. ASSUME NEW j \in 1..Len(t), Encrypted(t[j])
        PROVE  /\ t[j].seq <= tx /\ \A q \in got : q < t[j].seq
               /\ \A k \in 1..(j - 1) : Encrypted(t[k]) => t[k].seq < t[j].seq
    <3>1. j \in 1..Len(w) /\ t[j] = w[j]
      BY <2>1, <1>1, <1>3, <1>4
    <3>2. \A k \in 1..(j - 1) : k \in 1..Len(w) /\ t[k] = w[k]
      BY <3>1, <1>1
    <3> QED  BY <2>1, <3>1, <3>2 DEF Growing
  <2> QED  BY <2>1 DEF Growing
<1>5. ASSUME Encrypted(f), f.seq = tx + 1
      PROVE  Growing(t, got, tx + 1)
  <2>1. \A q \in got : q <= tx /\ q \in Nat
    BY DEF Growing
  <2>2. \A q \in got : q <= tx + 1 /\ q < tx + 1
    BY <2>1
  <2>3. ASSUME NEW j \in 1..Len(t), Encrypted(t[j])
        PROVE  /\ t[j].seq <= tx + 1 /\ \A q \in got : q < t[j].seq
               /\ \A k \in 1..(j - 1) : Encrypted(t[k]) => t[k].seq < t[j].seq
    <3>1. CASE j = Len(w) + 1
      <4>1. t[j].seq = tx + 1
        BY <3>1, <1>1, <1>5
      <4>2. ASSUME NEW k \in 1..(j - 1), Encrypted(t[k])
            PROVE  t[k].seq < tx + 1
        <5>1. k \in 1..Len(w) /\ t[k] = w[k]
          BY <3>1, <1>1
        <5>2. w[k].seq <= tx /\ w[k].seq \in Nat
          BY <5>1, <4>2, <1>2 DEF Growing
        <5> QED  BY <5>1, <5>2
      <4>3. tx + 1 <= tx + 1
        OBVIOUS
      <4> QED  BY <4>1, <4>2, <4>3, <2>2
    <3>2. CASE j \in 1..Len(w)
      <4>1. t[j] = w[j]
        BY <3>2, <1>1
      <4>2. \A k \in 1..(j - 1) : k \in 1..Len(w) /\ t[k] = w[k]
        BY <3>2, <1>1
      <4>3. w[j].seq <= tx /\ w[j].seq \in Nat
        BY <4>1, <3>2, <2>3, <1>2 DEF Growing
      <4>4. w[j].seq <= tx + 1
        BY <4>3
      <4> QED  BY <4>1, <4>2, <4>4, <3>2, <2>3 DEF Growing
    <3> QED  BY <3>1, <3>2, <1>3
  <2> QED  BY <2>2, <2>3 DEF Growing
<1> QED  BY <1>4, <1>5 DEF t

\* The numbers of the encrypted frames, when a frame is read: that of an
\* encrypted one is new.
LEMMA GrowingTail ==
  ASSUME NEW w \in Seq(Frames), NEW got \in SUBSET Nat, NEW tx \in Nat,
         Growing(w, got, tx), w # <<>>
  PROVE  /\ Growing(Tail(w), got, tx)
         /\ Encrypted(w[1]) =>
              w[1].seq \notin got /\ Growing(Tail(w), got \cup {w[1].seq}, tx)
<1> HIDE DEF Frames, Encrypted
<1> DEFINE t == Tail(w)
<1>1. /\ Len(t) = Len(w) - 1 /\ Len(w) \in Nat /\ 1 \in 1..Len(w)
      /\ \A j \in 1..Len(t) : t[j] = w[j + 1] /\ j + 1 \in 1..Len(w) /\ w[j + 1] \in Frames
  OBVIOUS
<1> HIDE DEF t
<1>2. ASSUME NEW j \in 1..Len(t), Encrypted(t[j])
      PROVE  /\ t[j].seq <= tx /\ \A q \in got : q < t[j].seq
             /\ \A k \in 1..(j - 1) : Encrypted(t[k]) => t[k].seq < t[j].seq
             /\ Encrypted(w[1]) => w[1].seq < t[j].seq
  <2>1. t[j] = w[j + 1] /\ j + 1 \in 1..Len(w)
    BY <1>1
  <2>2. /\ w[j + 1].seq <= tx /\ \A q \in got : q < w[j + 1].seq
        /\ \A k \in 1..((j + 1) - 1) : Encrypted(w[k]) => w[k].seq < w[j + 1].seq
    BY <1>2, <2>1 DEF Growing
  <2>3. \A k \in 1..(j - 1) : t[k] = w[k + 1] /\ k + 1 \in 1..((j + 1) - 1)
    BY <1>1
  <2>4. 1 \in 1..((j + 1) - 1)
    BY <1>1
  <2> QED  BY <2>1, <2>2, <2>3, <2>4
<1>3. Growing(t, got, tx)
  BY <1>2 DEF Growing
<1>4. ASSUME Encrypted(w[1])
      PROVE  w[1].seq \notin got /\ Growing(t, got \cup {w[1].seq}, tx)
  <2>1. w[1].seq <= tx /\ \A q \in got : q < w[1].seq
    BY <1>1, <1>4 DEF Growing
  <2>2. w[1].seq \in Nat
    <3>1. w[1] \in Frames
      BY SMTT(30), <1>1
    <3> QED  BY <3>1, FrameFields
  <2>3. w[1].seq \notin got
    BY <2>1, <2>2
  <2>4. \A q \in got \cup {w[1].seq} : q <= tx
    BY <2>1 DEF Growing
  <2>5. \A j \in 1..Len(t) : Encrypted(t[j]) => \A q \in got \cup {w[1].seq} : q < t[j].seq
    BY <1>2, <1>4
  <2>6. Growing(t, got \cup {w[1].seq}, tx)
    BY <1>2, <2>4, <2>5 DEF Growing
  <2> QED  BY <2>3, <2>6
<1> QED  BY <1>3, <1>4 DEF t

\* Nothing but data frames that are not encrypted.
AllPlain(w) == \A j \in 1..Len(w) : IsData(w[j]) /\ ~Encrypted(w[j])

\* On such a wire no handshake frame and no session matters.
LEMMA AllPlainWires ==
  ASSUME NEW w \in Seq(Frames), AllPlain(w), NEW h, NEW I, NEW R
  PROVE  /\ ~(I = "Active" /\ R = "HandshakeRespSent") => Up(w, h, I, R)
         /\ Down(w, h, I, R)
BY DEF AllPlain, Up, Down

\* When no session is active, and the one frame of the handshake is read or on
\* the other wire, a wire is such.
LEMMA WiresAllPlain ==
  ASSUME NEW w \in Seq(Frames), NEW h, NEW I, NEW R
  PROVE  /\ Up(w, h, I, R) /\ I # "Active" /\ R # "Uninitialized" => AllPlain(w)
         /\ Down(w, h, I, R) /\ R # "HandshakeRespSent" /\ R # "Active" => AllPlain(w)
         /\ Down(w, h, I, R) /\ I = "Active" /\ R # "Active" => AllPlain(w)
BY DEF AllPlain, Up, Down

\* A frame is read from such a wire, or a plain data frame is sent on it.
LEMMA AllPlainKept ==
  ASSUME NEW w \in Seq(Frames), AllPlain(w)
  PROVE  /\ w # <<>> => AllPlain(Tail(w))
         /\ \A f \in Frames : IsData(f) /\ ~Encrypted(f) => AllPlain(Append(w, f))
<1> HIDE DEF Frames, IsData, Encrypted
<1>1. ASSUME w # <<>>
      PROVE  AllPlain(Tail(w))
  <2>1. \A j \in 1..Len(Tail(w)) : Tail(w)[j] = w[j + 1] /\ j + 1 \in 1..Len(w)
    BY <1>1
  <2> QED  BY <2>1 DEF AllPlain
<1>2. ASSUME NEW f \in Frames, IsData(f), ~Encrypted(f)
      PROVE  AllPlain(Append(w, f))
  <2>1. \A j \in 1..Len(Append(w, f)) :
          \/ Append(w, f)[j] = f
          \/ j \in 1..Len(w) /\ Append(w, f)[j] = w[j]
    OBVIOUS
  <2> QED  BY <1>2, <2>1 DEF AllPlain
<1> QED  BY <1>1, <1>2

\* What the frame of index j of Up may be.
UpFrame(w, j, h, I, R) ==
  \/ /\ Is(w[j], "INIT", h) /\ R = "Uninitialized"
     /\ \A k \in 1..Len(w) : Is(w[k], "INIT", h) => k = j
  \/ /\ Is(w[j], "COMPLETE", h) /\ I = "Active" /\ R = "HandshakeRespSent"
     /\ \A k \in 1..Len(w) : Is(w[k], "COMPLETE", h) => k = j
  \/ /\ IsData(w[j])
     /\ Encrypted(w[j]) =>
          /\ w[j].by = <<h, "Initiator">> /\ I = "Active"
          /\ \/ R = "Active"
             \/ \E k \in 1..(j - 1) : Is(w[k], "COMPLETE", h)

\* Up, in terms of its frames.
LEMMA UpFrames ==
  ASSUME NEW w, NEW h, NEW I, NEW R
  PROVE  Up(w, h, I, R) <=>
           /\ \A j \in 1..Len(w) : UpFrame(w, j, h, I, R)
           /\ I = "Active" /\ R = "HandshakeRespSent" =>
                \E k \in 1..Len(w) : Is(w[k], "COMPLETE", h)
BY DEF Up, UpFrame

\* No data frame is a handshake frame, and no frame is of two kinds.
LEMMA Kinds ==
  \A f, h : /\ IsData(f) => ~Is(f, "INIT", h) /\ ~Is(f, "COMPLETE", h) /\ ~Is(f, "RESPONSE", h)
            /\ Is(f, "INIT", h) => ~Is(f, "COMPLETE", h)
BY DEF IsData, Is

\* A data frame is sent to the responder.
LEMMA UpAppend ==
  ASSUME NEW w \in Seq(Frames), NEW h, NEW I, NEW R, NEW f \in Frames, Up(w, h, I, R),
         IsData(f),
         Encrypted(f) =>
           f.by = <<h, "Initiator">> /\ I = "Active" /\ R \in {"HandshakeRespSent", "Active"}
  PROVE  Up(Append(w, f), h, I, R)
<1> HIDE DEF Frames, IsData, Encrypted, Is
<1> DEFINE t == Append(w, f)
<1>1. /\ Len(t) = Len(w) + 1 /\ t[Len(w) + 1] = f /\ Len(w) \in Nat
      /\ \A j \in 1..Len(w) : t[j] = w[j] /\ j \in 1..Len(t)
  OBVIOUS
<1> HIDE DEF t
<1>2. \A j \in 1..Len(t) : j \in 1..Len(w) \/ j = Len(w) + 1
  BY <1>1
<1>3. \A k \in 1..Len(t) :
        Is(t[k], "INIT", h) \/ Is(t[k], "COMPLETE", h) => k \in 1..Len(w) /\ t[k] = w[k]
  BY <1>1, <1>2, Kinds
<1>4. ASSUME NEW j \in 1..Len(w)
      PROVE  UpFrame(t, j, h, I, R)
  <2>1. UpFrame(w, j, h, I, R) /\ t[j] = w[j]
    BY <1>1, UpFrames
  <2>2. \A k \in 1..(j - 1) : t[k] = w[k]
    BY <1>1
  <2> QED  BY <2>1, <2>2, <1>3 DEF UpFrame
<1>5. UpFrame(t, Len(w) + 1, h, I, R)
  <2>1. CASE ~Encrypted(f)
    BY <2>1, <1>1 DEF UpFrame
  <2>2. CASE Encrypted(f)
    <3>1. R = "Active" \/ \E k \in 1..Len(w) : Is(w[k], "COMPLETE", h)
      BY <2>2 DEF Up
    <3>2. R = "Active" \/ \E k \in 1..((Len(w) + 1) - 1) : Is(t[k], "COMPLETE", h)
      BY <3>1, <1>1
    <3> QED  BY <2>2, <3>2, <1>1 DEF UpFrame
  <2> QED  BY <2>1, <2>2
<1>6. I = "Active" /\ R = "HandshakeRespSent" => \E k \in 1..Len(t) : Is(t[k], "COMPLETE", h)
  BY <1>1 DEF Up
<1>7. \A j \in 1..Len(t) : UpFrame(t, j, h, I, R)
  BY <1>2, <1>4, <1>5
<1>8. Up(t, h, I, R)
  BY <1>6, <1>7, UpFrames
<1> QED  BY <1>8 DEF t

\* The responder reads a data frame.
LEMMA UpTail ==
  ASSUME NEW w \in Seq(Frames), NEW h, NEW I, NEW R, Up(w, h, I, R), w # <<>>, IsData(w[1])
  PROVE  Up(Tail(w), h, I, R)
<1> HIDE DEF Frames, IsData, Encrypted, Is
<1> DEFINE t == Tail(w)
<1>1. /\ Len(t) = Len(w) - 1 /\ Len(w) \in Nat
      /\ \A j \in 1..Len(t) : t[j] = w[j + 1] /\ j + 1 \in 1..Len(w)
      /\ \A j \in 1..Len(w) : j # 1 => j - 1 \in 1..Len(t) /\ t[j - 1] = w[j]
  OBVIOUS
<1> HIDE DEF t
<1>2. \A k \in 1..Len(w) : Is(w[k], "COMPLETE", h) => k # 1
  BY Kinds
<1>3. ASSUME NEW j \in 1..Len(t)
      PROVE  UpFrame(t, j, h, I, R)
  <2>1. UpFrame(w, j + 1, h, I, R) /\ t[j] = w[j + 1]
    BY <1>1, UpFrames
  <2>2. CASE Is(w[j + 1], "INIT", h)
    <3>1. R = "Uninitialized" /\ \A k \in 1..Len(w) : Is(w[k], "INIT", h) => k = j + 1
      BY <2>1, <2>2, Kinds DEF UpFrame
    <3>2. ASSUME NEW k \in 1..Len(t), Is(t[k], "INIT", h)
          PROVE  k = j
      <4>1. k + 1 = j + 1
        BY <3>1, <3>2, <1>1
      <4> QED  BY SMTT(30), <4>1, <1>1
    <3> QED  BY <2>1, <2>2, <3>1, <3>2 DEF UpFrame
  <2>3. CASE Is(w[j + 1], "COMPLETE", h)
    <3>1. /\ I = "Active" /\ R = "HandshakeRespSent"
          /\ \A k \in 1..Len(w) : Is(w[k], "COMPLETE", h) => k = j + 1
      BY <2>1, <2>3, Kinds DEF UpFrame
    <3>2. ASSUME NEW k \in 1..Len(t), Is(t[k], "COMPLETE", h)
          PROVE  k = j
      <4>1. k + 1 = j + 1
        BY <3>1, <3>2, <1>1
      <4> QED  BY SMTT(30), <4>1, <1>1
    <3> QED  BY <2>1, <2>3, <3>1, <3>2 DEF UpFrame
  <2>4. CASE IsData(w[j + 1])
    <3>1. ASSUME NEW k \in 1..((j + 1) - 1), Is(w[k], "COMPLETE", h)
          PROVE  k - 1 \in 1..(j - 1) /\ Is(t[k - 1], "COMPLETE", h)
      <4>1. k \in 1..Len(w) /\ j \in Nat
        BY SMTT(30), <1>1
      <4>2. k # 1
        BY <4>1, <3>1, <1>2
      <4> QED  BY SMTT(30), <4>1, <4>2, <3>1, <1>1
    <3>2. Encrypted(w[j + 1]) =>
            /\ w[j + 1].by = <<h, "Initiator">> /\ I = "Active"
            /\ R = "Active" \/ \E k \in 1..((j + 1) - 1) : Is(w[k], "COMPLETE", h)
      BY <2>1, <2>4, Kinds DEF UpFrame
    <3> QED  BY <2>1, <2>4, <3>1, <3>2 DEF UpFrame
  <2> QED  BY <2>1, <2>2, <2>3, <2>4 DEF UpFrame
<1>4. I = "Active" /\ R = "HandshakeRespSent" => \E k \in 1..Len(t) : Is(t[k], "COMPLETE", h)
  <2> SUFFICES ASSUME I = "Active", R = "HandshakeRespSent"
               PROVE  \E k \in 1..Len(t) : Is(t[k], "COMPLETE", h)
    OBVIOUS
  <2>1. PICK k \in 1..Len(w) : Is(w[k], "COMPLETE", h)
    BY DEF Up
  <2>2. k - 1 \in 1..Len(t) /\ t[k - 1] = w[k]
    BY <2>1, <1>1, <1>2
  <2> QED  BY <2>1, <2>2
<1>5. Up(t, h, I, R)
  BY <1>3, <1>4, UpFrames
<1> QED  BY <1>5 DEF t

\* HANDSHAKE_INIT is sent, after plain frames, and read, after them.
LEMMA UpInit ==
  ASSUME NEW w \in Seq(Frames), NEW h \in Handshakes
  PROVE  /\ AllPlain(w) =>
              Up(Append(w, Plain("INIT", h)), h, "HandshakeInitSent", "Uninitialized")
         /\ Up(w, h, "HandshakeInitSent", "Uninitialized") /\ w # <<>> /\ Is(w[1], "INIT", h)
              => AllPlain(Tail(w))
<1> HIDE DEF Frames, IsData, Encrypted, Is, Handshakes
<1>1. ASSUME AllPlain(w)
      PROVE  Up(Append(w, Plain("INIT", h)), h, "HandshakeInitSent", "Uninitialized")
  <2> DEFINE f == Plain("INIT", h)
             t == Append(w, f)
  <2>1. f \in Frames /\ Is(f, "INIT", h)
    BY FrameFacts DEF Is
  <2>2. /\ Len(t) = Len(w) + 1 /\ t[Len(w) + 1] = f /\ Len(w) \in Nat
        /\ \A j \in 1..Len(w) : t[j] = w[j]
    BY <2>1
  <2> HIDE DEF f, t
  <2>3. \A j \in 1..Len(t) : j \in 1..Len(w) \/ j = Len(w) + 1
    BY <2>2
  <2>4. \A k \in 1..Len(t) : Is(t[k], "INIT", h) => k = Len(w) + 1
    BY <2>2, <2>3, <1>1, Kinds DEF AllPlain
  <2>5. \A j \in 1..Len(t) : UpFrame(t, j, h, "HandshakeInitSent", "Uninitialized")
    BY <2>1, <2>2, <2>3, <2>4, <1>1 DEF AllPlain, UpFrame
  <2>6. Up(t, h, "HandshakeInitSent", "Uninitialized")
    BY <2>5, UpFrames
  <2> QED  BY <2>6 DEF t, f
<1>2. ASSUME Up(w, h, "HandshakeInitSent", "Uninitialized"), w # <<>>, Is(w[1], "INIT", h)
      PROVE  AllPlain(Tail(w))
  <2>1. \A j \in 1..Len(Tail(w)) : Tail(w)[j] = w[j + 1] /\ j + 1 \in 1..Len(w) /\ j + 1 # 1
    BY <1>2
  <2>2. ASSUME NEW j \in 1..Len(w), j # 1
        PROVE  IsData(w[j]) /\ ~Encrypted(w[j])
    <3>1. UpFrame(w, j, h, "HandshakeInitSent", "Uninitialized") /\ 1 \in 1..Len(w)
      BY <1>2, UpFrames
    <3> QED  BY <3>1, <2>2, <1>2 DEF UpFrame
  <2> QED  BY <2>1, <2>2 DEF AllPlain
<1> QED  BY <1>1, <1>2

\* HANDSHAKE_COMPLETE is sent, after plain frames, and read: encrypted ones
\* follow it.
LEMMA UpComplete ==
  ASSUME NEW w \in Seq(Frames), NEW h \in Handshakes
  PROVE  /\ AllPlain(w) =>
              Up(Append(w, Plain("COMPLETE", h)), h, "Active", "HandshakeRespSent")
         /\ Up(w, h, "Active", "HandshakeRespSent") /\ w # <<>> /\ Is(w[1], "COMPLETE", h)
              => Up(Tail(w), h, "Active", "Active")
<1> HIDE DEF Frames, IsData, Encrypted, Is, Handshakes
<1>1. ASSUME AllPlain(w)
      PROVE  Up(Append(w, Plain("COMPLETE", h)), h, "Active", "HandshakeRespSent")
  <2> DEFINE f == Plain("COMPLETE", h)
             t == Append(w, f)
  <2>1. f \in Frames /\ Is(f, "COMPLETE", h)
    BY FrameFacts DEF Is
  <2>2. /\ Len(t) = Len(w) + 1 /\ t[Len(w) + 1] = f /\ Len(w) \in Nat
        /\ Len(w) + 1 \in 1..Len(t)
        /\ \A j \in 1..Len(w) : t[j] = w[j]
    BY <2>1
  <2> HIDE DEF f, t
  <2>3. \A j \in 1..Len(t) : j \in 1..Len(w) \/ j = Len(w) + 1
    BY <2>2
  <2>4. \A k \in 1..Len(t) : Is(t[k], "COMPLETE", h) => k = Len(w) + 1
    BY <2>2, <2>3, <1>1, Kinds DEF AllPlain
  <2>5. \A j \in 1..Len(t) : UpFrame(t, j, h, "Active", "HandshakeRespSent")
    BY <2>1, <2>2, <2>3, <2>4, <1>1 DEF AllPlain, UpFrame
  <2>6. Up(t, h, "Active", "HandshakeRespSent")
    BY <2>1, <2>2, <2>5, UpFrames
  <2> QED  BY <2>6 DEF t, f
<1>2. ASSUME Up(w, h, "Active", "HandshakeRespSent"), w # <<>>, Is(w[1], "COMPLETE", h)
      PROVE  Up(Tail(w), h, "Active", "Active")
  <2> DEFINE t == Tail(w)
  <2>1. \A j \in 1..Len(t) : t[j] = w[j + 1] /\ j + 1 \in 1..Len(w) /\ j + 1 # 1
    BY <1>2
  <2> HIDE DEF t
  <2>2. ASSUME NEW j \in 1..Len(w), j # 1
        PROVE  IsData(w[j]) /\ (Encrypted(w[j]) => w[j].by = <<h, "Initiator">>)
    <3>1. UpFrame(w, j, h, "Active", "HandshakeRespSent") /\ 1 \in 1..Len(w)
      BY <1>2, UpFrames
    <3> QED  BY <3>1, <2>2, <1>2 DEF UpFrame
  <2>3. \A j \in 1..Len(t) : UpFrame(t, j, h, "Active", "Active")
    BY <2>1, <2>2 DEF UpFrame
  <2>4. Up(t, h, "Active", "Active")
    BY <2>3, UpFrames
  <2> QED  BY <2>4 DEF t
<1> QED  BY <1>1, <1>2

\* A data frame is sent to the initiator, or it reads one.
LEMMA DownData ==
  ASSUME NEW w \in Seq(Frames), NEW h, NEW I, NEW R, Down(w, h, I, R)
  PROVE  /\ \A f \in Frames :
              /\ IsData(f)
              /\ Encrypted(f) => f.by = <<h, "Responder">> /\ R = "Active"
              => Down(Append(w, f), h, I, R)
         /\ w # <<>> => Down(Tail(w), h, I, R)
<1> HIDE DEF Frames, IsData, Encrypted, Is
<1>1. ASSUME NEW f \in Frames, IsData(f),
             Encrypted(f) => f.by = <<h, "Responder">> /\ R = "Active"
      PROVE  Down(Append(w, f), h, I, R)
  <2> DEFINE t == Append(w, f)
  <2>1. /\ Len(t) = Len(w) + 1 /\ t[Len(w) + 1] = f /\ Len(w) \in Nat
        /\ \A j \in 1..Len(w) : t[j] = w[j]
    OBVIOUS
  <2> HIDE DEF t
  <2>2. \A j \in 1..Len(t) : j \in 1..Len(w) \/ j = Len(w) + 1
    BY <2>1
  <2>3. \A k \in 1..Len(t) : Is(t[k], "RESPONSE", h) => k \in 1..Len(w) /\ t[k] = w[k]
    BY <2>1, <2>2, <1>1, Kinds
  <2>4. Down(t, h, I, R)
    BY <2>1, <2>2, <2>3, <1>1 DEF Down
  <2> QED  BY <2>4 DEF t
<1>2. ASSUME w # <<>>
      PROVE  Down(Tail(w), h, I, R)
  <2> DEFINE t == Tail(w)
  <2>1. \A j \in 1..Len(t) : t[j] = w[j + 1] /\ j + 1 \in 1..Len(w)
    BY <1>2
  <2>2. \A j, k \in 1..Len(t) : k + 1 = j + 1 => k = j
    BY SMTT(30)
  <2> HIDE DEF t
  <2>3. Down(t, h, I, R)
    BY <2>1, <2>2 DEF Down
  <2> QED  BY <2>3 DEF t
<1> QED  BY <1>1, <1>2

\* HANDSHAKE_RESPONSE is sent, after plain frames, and read, after them.
LEMMA DownResponse ==
  ASSUME NEW w \in Seq(Frames), NEW h \in Handshakes
  PROVE  /\ AllPlain(w) =>
              Down(Append(w, Plain("RESPONSE", h)), h, "HandshakeInitSent",
                   "HandshakeRespSent")
         /\ \A I, R : Down(w, h, I, R) /\ w # <<>> /\ Is(w[1], "RESPONSE", h)
              => /\ I = "HandshakeInitSent" /\ R = "HandshakeRespSent"
                 /\ AllPlain(Tail(w))
<1> HIDE DEF Frames, IsData, Encrypted, Is, Handshakes
<1>1. ASSUME AllPlain(w)
      PROVE  Down(Append(w, Plain("RESPONSE", h)), h, "HandshakeInitSent",
                  "HandshakeRespSent")
  <2> DEFINE f == Plain("RESPONSE", h)
             t == Append(w, f)
  <2>1. f \in Frames /\ Is(f, "RESPONSE", h)
    BY FrameFacts DEF Is
  <2>2. /\ Len(t) = Len(w) + 1 /\ t[Len(w) + 1] = f /\ Len(w) \in Nat
        /\ \A j \in 1..Len(w) : t[j] = w[j]
    BY <2>1
  <2> HIDE DEF f, t
  <2>3. \A j \in 1..Len(t) : j \in 1..Len(w) \/ j = Len(w) + 1
    BY <2>2
  <2>4. \A k \in 1..Len(t) : Is(t[k], "RESPONSE", h) => k = Len(w) + 1
    BY <2>2, <2>3, <1>1, Kinds DEF AllPlain
  <2>5. Down(t, h, "HandshakeInitSent", "HandshakeRespSent")
    BY <2>1, <2>2, <2>3, <2>4, <1>1 DEF AllPlain, Down
  <2> QED  BY <2>5 DEF t, f
<1>2. ASSUME NEW I, NEW R, Down(w, h, I, R), w # <<>>, Is(w[1], "RESPONSE", h)
      PROVE  /\ I = "HandshakeInitSent" /\ R = "HandshakeRespSent"
             /\ AllPlain(Tail(w))
  <2>1. \A j \in 1..Len(Tail(w)) : Tail(w)[j] = w[j + 1] /\ j + 1 \in 1..Len(w) /\ j + 1 # 1
    BY <1>2
  <2>2. 1 \in 1..Len(w)
    BY <1>2
  <2>3. /\ I = "HandshakeInitSent" /\ R = "HandshakeRespSent"
        /\ \A k \in 1..Len(w) : Is(w[k], "RESPONSE", h) => k = 1
    BY <2>2, <1>2, Kinds DEF Down
  <2>4. ASSUME NEW j \in 1..Len(w), j # 1
        PROVE  IsData(w[j]) /\ ~Encrypted(w[j])
    BY <2>3, <2>4, <1>2 DEF Down
  <2> QED  BY <2>1, <2>3, <2>4 DEF AllPlain
<1> QED  BY <1>1, <1>2

\* What belongs to handshake h: its ends, sessions and wires.
LEMMA SoloTypes ==
  ASSUME ChannelTypeOK, NEW h \in Handshakes
  PROVE  LET i  == h[1]
             r  == Other(h[1])
             si == <<h, "Initiator">>
             sr == <<h, "Responder">>
         IN  /\ i \in Endpoints /\ r \in Endpoints /\ i # r /\ Other(r) = i
             /\ \A e \in Endpoints : e = i \/ e = r
             /\ si \in Sessions /\ sr \in Sessions /\ si # sr
             /\ si # NoSession /\ sr # NoSession
             /\ wire[i] \in Seq(Frames) /\ wire[r] \in Seq(Frames)
             /\ seen[si] \in SUBSET Nat /\ seen[sr] \in SUBSET Nat
             /\ tx_seq[si] \in Nat /\ tx_seq[sr] \in Nat
<1> HIDE DEF Frames, Sessions, Handshakes
<1>1. h[1] \in Endpoints /\ <<h, "Initiator">> \in Sessions /\ <<h, "Responder">> \in Sessions
      /\ <<h, "Initiator">> # NoSession /\ <<h, "Responder">> # NoSession
  BY SessionFacts
<1>2. <<h, "Initiator">> # <<h, "Responder">>
  OBVIOUS
<1>3. Other(h[1]) \in Endpoints /\ Other(h[1]) # h[1] /\ Other(Other(h[1])) = h[1]
  BY <1>1, OtherFacts
<1>4. \A e \in Endpoints : e = h[1] \/ e = Other(h[1])
  BY <1>1 DEF Endpoints, Other
<1> HIDE DEF Endpoints
<1> QED  BY <1>1, <1>2, <1>3, <1>4 DEF ChannelTypeOK

\* The first handshake frame on a wire is one of handshake h, and the state of
\* its sessions is the one in which it is read.
LEMMA SoloReads ==
  ASSUME ChannelTypeOK, NEW h \in Handshakes, Solo(h), NEW e \in Endpoints,
         NEW g \in Handshakes, NEW t \in {"INIT", "RESPONSE", "COMPLETE"},
         Reads(e, Plain(t, g))
  PROVE  /\ g = h /\ wire[e] # <<>> /\ Is(wire[e][1], t, h)
         /\ \/ /\ t = "INIT" /\ e = Other(h[1])
               /\ state[<<h, "Initiator">>] = "HandshakeInitSent"
               /\ state[<<h, "Responder">>] = "Uninitialized"
            \/ /\ t = "RESPONSE" /\ e = h[1]
               /\ state[<<h, "Initiator">>] = "HandshakeInitSent"
               /\ state[<<h, "Responder">>] = "HandshakeRespSent"
            \/ /\ t = "COMPLETE" /\ e = Other(h[1])
               /\ state[<<h, "Initiator">>] = "Active"
               /\ state[<<h, "Responder">>] = "HandshakeRespSent"
<1> HIDE DEF Frames, Sessions, Handshakes
<1> DEFINE w == wire[e]
           I == state[<<h, "Initiator">>]
           R == state[<<h, "Responder">>]
<1>1. w # <<>> /\ w[1] = Plain(t, g) /\ w \in Seq(Frames)
  <2>1. wire[e] # <<>> /\ Plain(t, g) = Head(wire[e])
    BY DEF Reads
  <2>2. Head(wire[e]) = wire[e][1]
    BY <2>1, TakenWires
  <2> QED  BY <2>1, <2>2 DEF ChannelTypeOK
<1>2. 1 \in 1..Len(w)
  BY <1>1
<1>3. w[1].type = t /\ w[1].hs = g /\ ~IsData(w[1])
  <2>1. Plain(t, g).type = t /\ Plain(t, g).hs = g /\ ~IsData(Plain(t, g))
    BY SMTT(30), PlainFrame
  <2> HIDE DEF w
  <2> QED  BY <2>1, <1>1
<1>4. e = h[1] \/ e = Other(h[1])
  BY SoloTypes
<1>5. <<I, R>> \in Phases /\ Up(wire[Other(h[1])], h, I, R) /\ Down(wire[h[1]], h, I, R)
  BY DEF Solo
<1> HIDE DEF w, I, R, Endpoints
<1>6. ASSUME e = Other(h[1])
      PROVE  \/ t = "INIT" /\ g = h /\ R = "Uninitialized"
             \/ t = "COMPLETE" /\ g = h /\ I = "Active" /\ R = "HandshakeRespSent"
  <2>1. Up(w, h, I, R)
    BY <1>5, <1>6 DEF w
  <2>2. UpFrame(w, 1, h, I, R)
    BY <2>1, <1>2, UpFrames
  <2> QED  BY <2>2, <1>3 DEF UpFrame, Is
<1>7. ASSUME e = h[1]
      PROVE  t = "RESPONSE" /\ g = h /\ I = "HandshakeInitSent" /\ R = "HandshakeRespSent"
  <2>1. Down(w, h, I, R)
    BY <1>5, <1>7 DEF w
  <2> QED  BY <2>1, <1>2, <1>3 DEF Down, Is
<1>8. R = "Uninitialized" => I = "HandshakeInitSent"
  BY <1>5 DEF Phases
<1>9. g = h
  BY <1>4, <1>6, <1>7
<1>10. Is(w[1], t, h)
  BY <1>3, <1>9 DEF Is
<1> QED  BY <1>1, <1>4, <1>6, <1>7, <1>8, <1>9, <1>10 DEF w, I, R

\* The first handshake of a connection.
LEMMA QuietInitiates ==
  ASSUME ChannelTypeOK, Quiet, \A e \in Endpoints : open[e],
         NEW h \in Handshakes, InitiateHandshake(h)
  PROVE  Solo(h)'
<1> HIDE DEF Frames, Sessions, Handshakes
<1> DEFINE i  == h[1]
           r  == Other(h[1])
           si == <<h, "Initiator">>
           sr == <<h, "Responder">>
<1>1. /\ i \in Endpoints /\ r \in Endpoints /\ i # r
      /\ si \in Sessions /\ sr \in Sessions /\ si # sr
      /\ wire[i] \in Seq(Frames) /\ wire[r] \in Seq(Frames)
  BY SoloTypes
<1>2. Plain("INIT", h) \in Frames /\ ~Encrypted(Plain("INIT", h))
  BY FrameFacts
<1>3. /\ session' = [session EXCEPT ![i] = si]
      /\ state' = [state EXCEPT ![si] = "HandshakeInitSent"]
      /\ wire' = Sent(wire, i, Plain("INIT", h))
      /\ tx_seq' = tx_seq /\ seen' = seen
  BY DEF InitiateHandshake
<1>4. AllPlain(wire[i]) /\ AllPlain(wire[r])
  BY <1>1 DEF Quiet, AllPlain
<1>5. session[r] = NoSession /\ state[sr] = "Uninitialized"
      /\ tx_seq[si] = 0 /\ tx_seq[sr] = 0 /\ seen[si] = {} /\ seen[sr] = {}
  BY <1>1 DEF Quiet
<1>6. session'[i] = si /\ session'[r] = NoSession
      /\ state'[si] = "HandshakeInitSent" /\ state'[sr] = "Uninitialized"
  BY <1>1, <1>3, <1>5 DEF ChannelTypeOK
<1>7. wire'[i] = wire[i] /\ wire'[r] = Append(wire[r], Plain("INIT", h))
  <2>1. wire \in [Endpoints -> Seq(Frames)] /\ open[i] /\ open[Other(i)]
    BY <1>1 DEF ChannelTypeOK
  <2> DEFINE f == Plain("INIT", h)
  <2> HIDE DEF i, f, Endpoints
  <2>2. i \in Endpoints /\ f \in Frames
    BY <1>1, <1>2 DEF f
  <2>3. /\ Sent(wire, i, f)[i] = wire[i]
        /\ Sent(wire, i, f)[Other(i)] = Append(wire[Other(i)], f)
    BY SMTT(30), <2>1, <2>2, SentWires
  <2> QED  BY <2>3, <1>3 DEF i, f
<1> HIDE DEF i, r, si, sr, Endpoints
<1>8. Up(wire'[r], h, "HandshakeInitSent", "Uninitialized")
  BY <1>1, <1>4, <1>7, UpInit
<1>9. Down(wire'[i], h, "HandshakeInitSent", "Uninitialized")
  BY <1>1, <1>4, <1>7, AllPlainWires
<1>10. \A w : AllPlain(w) => Growing(w, {}, 0)
  BY DEF AllPlain, Growing
<1>11. Growing(wire'[i], seen'[si], tx_seq'[sr])
  BY <1>3, <1>4, <1>5, <1>7, <1>10
<1>12. Growing(wire'[r], seen'[sr], tx_seq'[si])
  <2>1. Growing(wire[r], {}, 0)
    BY <1>4, <1>10
  <2>2. Growing(Append(wire[r], Plain("INIT", h)), {}, 0)
    BY <2>1, <1>1, <1>2, GrowingAppend
  <2> QED  BY <2>2, <1>3, <1>5, <1>7
<1>13. <<state'[si], state'[sr]>> \in Phases
  BY <1>6 DEF Phases
<1> QED  BY <1>6, <1>8, <1>9, <1>11, <1>12, <1>13 DEF Solo, i, r, si, sr

\* The responder answers HANDSHAKE_INIT.
LEMMA SoloReceivesInit ==
  ASSUME ChannelTypeOK, \A e \in Endpoints : open[e],
         NEW h \in Handshakes, Solo(h), NEW e \in Endpoints, ReceiveInit(e)
  PROVE  Solo(h)' /\ open' = open
<1> HIDE DEF Frames, Sessions, Handshakes
<1> DEFINE i  == h[1]
           r  == Other(h[1])
           si == <<h, "Initiator">>
           sr == <<h, "Responder">>
<1>1. /\ i \in Endpoints /\ r \in Endpoints /\ i # r /\ Other(r) = i
      /\ si \in Sessions /\ sr \in Sessions /\ si # sr
      /\ wire[i] \in Seq(Frames) /\ wire[r] \in Seq(Frames)
      /\ seen[si] \in SUBSET Nat /\ seen[sr] \in SUBSET Nat
      /\ tx_seq[si] \in Nat /\ tx_seq[sr] \in Nat
  BY SoloTypes
<1>2. PICK g \in Handshakes :
        /\ Reads(e, Plain("INIT", g))
        /\ session' = [session EXCEPT ![e] = <<g, "Responder">>]
        /\ state' = [state EXCEPT ![<<g, "Responder">>] = "HandshakeRespSent"]
        /\ wire' = Sent(Taken(e), e, Plain("RESPONSE", g))
        /\ open' = open /\ tx_seq' = tx_seq /\ seen' = seen
  BY DEF ReceiveInit, ProcessHandshakeInit
<1>3. /\ g = h /\ e = r /\ wire[r] # <<>> /\ Is(wire[r][1], "INIT", h)
      /\ state[si] = "HandshakeInitSent" /\ state[sr] = "Uninitialized"
  BY <1>2, SoloReads
<1>4. Plain("RESPONSE", h) \in Frames /\ ~Encrypted(Plain("RESPONSE", h))
  BY FrameFacts
<1>5. session'[i] = session[i] /\ session'[r] = sr
      /\ state'[si] = "HandshakeInitSent" /\ state'[sr] = "HandshakeRespSent"
  BY <1>1, <1>2, <1>3 DEF ChannelTypeOK
<1>6. /\ Taken(r) \in [Endpoints -> Seq(Frames)]
      /\ Taken(r)[r] = Tail(wire[r]) /\ Taken(r)[i] = wire[i]
  BY <1>1, <1>3, TakenWires
<1>7. wire'[r] = Tail(wire[r]) /\ wire'[i] = Append(wire[i], Plain("RESPONSE", h))
  <2>1. open[r] /\ open[Other(r)]
    BY <1>1
  <2>0. r \in Endpoints /\ Taken(r) \in [Endpoints -> Seq(Frames)]
    BY <1>1, <1>6
  <2> HIDE DEF i, r, Endpoints
  <2>2. \A f \in Frames :
           /\ Sent(Taken(r), r, f)[r] = Taken(r)[r]
           /\ Sent(Taken(r), r, f)[Other(r)] =
                Append(Taken(r)[Other(r)], f)
    BY SMTT(30), <2>0, <2>1, SentWires
  <2> QED  BY <2>2, <1>4, <1>1, <1>2, <1>3, <1>6
<1>8. /\ session[i] = si
      /\ Up(wire[r], h, "HandshakeInitSent", "Uninitialized")
      /\ Down(wire[i], h, "HandshakeInitSent", "Uninitialized")
      /\ Growing(wire[r], seen[sr], tx_seq[si])
      /\ Growing(wire[i], seen[si], tx_seq[sr])
  BY <1>3 DEF Solo
<1> HIDE DEF i, r, si, sr, Endpoints
<1>9. AllPlain(Tail(wire[r])) /\ Tail(wire[r]) \in Seq(Frames)
  <2> DEFINE w == wire[r]
  <2>1. w \in Seq(Frames) /\ w # <<>> /\ Is(w[1], "INIT", h)
    BY <1>1, <1>3
  <2>2. Up(w, h, "HandshakeInitSent", "Uninitialized")
    BY <1>8
  <2> HIDE DEF w
  <2>3. AllPlain(Tail(w))
    BY <2>1, <2>2, UpInit
  <2>4. Tail(w) \in Seq(Frames)
    BY <2>1
  <2> QED  BY <2>3, <2>4 DEF w
<1>10. Up(wire'[r], h, "HandshakeInitSent", "HandshakeRespSent")
  BY <1>7, <1>9, AllPlainWires
<1>11. AllPlain(wire[i])
  BY <1>1, <1>8, WiresAllPlain
<1>12. Down(wire'[i], h, "HandshakeInitSent", "HandshakeRespSent")
  BY <1>1, <1>7, <1>11, DownResponse
<1>13. Growing(wire'[r], seen'[sr], tx_seq'[si])
  BY ZenonT(30), <1>1, <1>2, <1>3, <1>7, <1>8, GrowingTail
<1>14. Growing(wire'[i], seen'[si], tx_seq'[sr])
  <2>1. Growing(Append(wire[i], Plain("RESPONSE", h)), seen[si], tx_seq[sr])
    BY <1>1, <1>4, <1>8, GrowingAppend
  <2> QED  BY <2>1, <1>2, <1>7
<1>15. <<state'[si], state'[sr]>> \in Phases
  BY <1>5 DEF Phases
<1> QED  BY <1>2, <1>5, <1>8, <1>10, <1>12, <1>13, <1>14, <1>15 DEF Solo, i, r, si, sr

\* The initiator answers HANDSHAKE_RESPONSE, or has given the handshake up.
LEMMA SoloReceivesResponse ==
  ASSUME ChannelTypeOK, \A e \in Endpoints : open[e],
         NEW h \in Handshakes, Solo(h), NEW e \in Endpoints,
         ReceiveResponse(e) \/ ReceiveLateResponse(e)
  PROVE  Solo(h)' /\ open' = open
<1> HIDE DEF Frames, Sessions, Handshakes
<1> DEFINE i  == h[1]
           r  == Other(h[1])
           si == <<h, "Initiator">>
           sr == <<h, "Responder">>
<1>1. /\ i \in Endpoints /\ r \in Endpoints /\ i # r /\ Other(r) = i
      /\ si \in Sessions /\ sr \in Sessions /\ si # sr
      /\ wire[i] \in Seq(Frames) /\ wire[r] \in Seq(Frames)
      /\ seen[si] \in SUBSET Nat /\ seen[sr] \in SUBSET Nat
      /\ tx_seq[si] \in Nat /\ tx_seq[sr] \in Nat
  BY SoloTypes
<1>2. PICK g \in Handshakes :
        /\ Reads(e, Plain("RESPONSE", g))
        /\ open' = open /\ tx_seq' = tx_seq /\ seen' = seen /\ session' = session
        /\ \/ state' = state /\ wire' = Taken(e)
           \/ /\ state' = [state EXCEPT ![<<g, "Initiator">>] =
                             ProcessHandshakeResponse(<<g, "Initiator">>)]
              /\ wire' = IF ProcessHandshakeResponse(<<g, "Initiator">>) = "Active"
                         THEN Sent(Taken(e), e, Plain("COMPLETE", g)) ELSE Taken(e)
  BY DEF ReceiveResponse, ReceiveLateResponse, ChannelTypeOK, sessionVars
<1>3. /\ g = h /\ e = i /\ wire[i] # <<>> /\ Is(wire[i][1], "RESPONSE", h)
      /\ state[si] = "HandshakeInitSent" /\ state[sr] = "HandshakeRespSent"
  BY <1>2, SoloReads
<1>4. Plain("COMPLETE", h) \in Frames /\ ~Encrypted(Plain("COMPLETE", h))
  BY FrameFacts
<1>5. ProcessHandshakeResponse(si) = "Active"
  BY <1>3 DEF ProcessHandshakeResponse
<1>6. /\ Taken(i) \in [Endpoints -> Seq(Frames)]
      /\ Taken(i)[i] = Tail(wire[i]) /\ Taken(i)[r] = wire[r]
  BY <1>1, <1>3, TakenWires
<1>7. /\ session[i] = si /\ session[r] = sr
      /\ Up(wire[r], h, "HandshakeInitSent", "HandshakeRespSent")
      /\ Down(wire[i], h, "HandshakeInitSent", "HandshakeRespSent")
      /\ Growing(wire[r], seen[sr], tx_seq[si])
      /\ Growing(wire[i], seen[si], tx_seq[sr])
  BY <1>3 DEF Solo
<1>8. AllPlain(Tail(wire[i])) /\ Tail(wire[i]) \in Seq(Frames)
  <2> DEFINE w == wire[i]
  <2>1. w \in Seq(Frames) /\ w # <<>> /\ Is(w[1], "RESPONSE", h)
    BY <1>1, <1>3
  <2>2. Down(w, h, "HandshakeInitSent", "HandshakeRespSent")
    BY <1>7
  <2> HIDE DEF w
  <2>3. AllPlain(Tail(w))
    BY <2>1, <2>2, DownResponse
  <2>4. Tail(w) \in Seq(Frames)
    BY <2>1
  <2> QED  BY <2>3, <2>4 DEF w
<1>9. Growing(Tail(wire[i]), seen[si], tx_seq[sr])
  BY <1>1, <1>3, <1>7, GrowingTail
<1>10. CASE state' = state /\ wire' = Taken(e)
  <2>1. wire'[i] = Tail(wire[i]) /\ wire'[r] = wire[r]
    BY <1>3, <1>6, <1>10
  <2> HIDE DEF i, r, si, sr, Endpoints
  <2>2. Down(wire'[i], h, "HandshakeInitSent", "HandshakeRespSent")
    BY <2>1, <1>8, AllPlainWires
  <2>3. <<state'[si], state'[sr]>> \in Phases
    BY <1>3, <1>10 DEF Phases
  <2> QED  BY <1>2, <1>3, <1>7, <1>9, <1>10, <2>1, <2>2, <2>3 DEF Solo, i, r, si, sr
<1>11. CASE /\ state' = [state EXCEPT ![<<g, "Initiator">>] =
                           ProcessHandshakeResponse(<<g, "Initiator">>)]
            /\ wire' = IF ProcessHandshakeResponse(<<g, "Initiator">>) = "Active"
                       THEN Sent(Taken(e), e, Plain("COMPLETE", g)) ELSE Taken(e)
  <2>1. wire' = Sent(Taken(i), i, Plain("COMPLETE", h))
    BY <1>3, <1>5, <1>11
  <2>2. wire'[i] = Tail(wire[i]) /\ wire'[r] = Append(wire[r], Plain("COMPLETE", h))
    <3>1. open[i] /\ open[Other(i)]
      BY <1>1
    <3>0. i \in Endpoints /\ Taken(i) \in [Endpoints -> Seq(Frames)]
      BY <1>1, <1>6
    <3> HIDE DEF i, Endpoints
    <3>2. \A f \in Frames :
           /\ Sent(Taken(i), i, f)[i] = Taken(i)[i]
             /\ Sent(Taken(i), i, f)[Other(i)] =
                  Append(Taken(i)[Other(i)], f)
      BY SMTT(30), <3>0, <3>1, SentWires
    <3> QED  BY <3>2, <1>4, <2>1, <1>6 DEF i
  <2>3. state'[si] = "Active" /\ state'[sr] = "HandshakeRespSent"
    BY <1>1, <1>3, <1>5, <1>11 DEF ChannelTypeOK
  <2> HIDE DEF i, r, si, sr, Endpoints
  <2>4. AllPlain(wire[r])
    BY <1>1, <1>7, WiresAllPlain
  <2>5. Up(wire'[r], h, "Active", "HandshakeRespSent")
    BY <2>2, <2>4, <1>1, UpComplete
  <2>6. Down(wire'[i], h, "Active", "HandshakeRespSent")
    BY <2>2, <1>8, AllPlainWires
  <2>7. Growing(wire'[r], seen'[sr], tx_seq'[si])
    <3>1. Growing(Append(wire[r], Plain("COMPLETE", h)), seen[sr], tx_seq[si])
      BY <1>1, <1>4, <1>7, GrowingAppend
    <3> QED  BY <3>1, <1>2, <2>2
  <2>8. Growing(wire'[i], seen'[si], tx_seq'[sr])
    BY <1>2, <1>9, <2>2
  <2>9. <<state'[si], state'[sr]>> \in Phases
    BY <2>3 DEF Phases
  <2>10. session'[i] = si /\ session'[r] = sr
    BY <1>2, <1>7
  <2> QED  BY <1>2, <2>3, <2>5, <2>6, <2>7, <2>8, <2>9, <2>10 DEF Solo, i, r, si, sr
<1> QED  BY <1>2, <1>10, <1>11

\* HANDSHAKE_COMPLETE is the one that the responder waits for.
LEMMA SoloReceivesComplete ==
  ASSUME ChannelTypeOK, NEW h \in Handshakes, Solo(h), NEW e \in Endpoints,
         ReceiveComplete(e) \/ ReceiveWrongComplete(e)
  PROVE  Solo(h)' /\ open' = open
<1> HIDE DEF Frames, Sessions, Handshakes
<1> DEFINE i  == h[1]
           r  == Other(h[1])
           si == <<h, "Initiator">>
           sr == <<h, "Responder">>
<1>1. /\ i \in Endpoints /\ r \in Endpoints /\ i # r /\ Other(r) = i
      /\ \A d \in Endpoints : d = i \/ d = r
      /\ si \in Sessions /\ sr \in Sessions /\ si # sr
      /\ si # NoSession /\ sr # NoSession
      /\ wire[i] \in Seq(Frames) /\ wire[r] \in Seq(Frames)
      /\ seen[si] \in SUBSET Nat /\ seen[sr] \in SUBSET Nat
      /\ tx_seq[si] \in Nat /\ tx_seq[sr] \in Nat
  BY SoloTypes
<1>2. PICK g \in Handshakes :
        /\ Reads(e, Plain("COMPLETE", g))
        /\ \/ ReceiveWrongComplete(e) /\
              (session[e] # NoSession => ProcessHandshakeComplete(session[e], g) = "Failed")
           \/ /\ state' = [state EXCEPT ![session[e]] = "Active"]
              /\ wire' = Taken(e)
              /\ open' = open /\ session' = session /\ tx_seq' = tx_seq /\ seen' = seen
  BY DEF ReceiveComplete, ReceiveWrongComplete
<1>3. /\ g = h /\ e = r /\ wire[r] # <<>> /\ Is(wire[r][1], "COMPLETE", h)
      /\ state[si] = "Active" /\ state[sr] = "HandshakeRespSent"
  BY <1>2, SoloReads
<1>4. /\ session[i] = si /\ session[r] = sr
      /\ Up(wire[r], h, "Active", "HandshakeRespSent")
      /\ Down(wire[i], h, "Active", "HandshakeRespSent")
      /\ Growing(wire[r], seen[sr], tx_seq[si])
      /\ Growing(wire[i], seen[si], tx_seq[sr])
  BY <1>3 DEF Solo
<1>5. ProcessHandshakeComplete(sr, h) = "Active"
  BY <1>3 DEF ProcessHandshakeComplete
<1>6. /\ state' = [state EXCEPT ![sr] = "Active"]
      /\ wire' = Taken(r)
      /\ open' = open /\ session' = session /\ tx_seq' = tx_seq /\ seen' = seen
  BY <1>1, <1>2, <1>3, <1>4, <1>5
<1>7. wire'[r] = Tail(wire[r]) /\ wire'[i] = wire[i]
  BY <1>1, <1>3, <1>6, TakenWires
<1>8. state'[si] = "Active" /\ state'[sr] = "Active"
  BY <1>1, <1>3, <1>6 DEF ChannelTypeOK
<1> HIDE DEF i, r, si, sr, Endpoints
<1>9. Up(wire'[r], h, "Active", "Active")
  BY <1>1, <1>3, <1>4, <1>7, UpComplete
<1>10. AllPlain(wire[i])
  BY <1>1, <1>4, WiresAllPlain
<1>11. Down(wire'[i], h, "Active", "Active")
  BY <1>1, <1>7, <1>10, AllPlainWires
<1>12. Growing(wire'[r], seen'[sr], tx_seq'[si])
  BY <1>1, <1>3, <1>4, <1>6, <1>7, GrowingTail
<1>13. Growing(wire'[i], seen'[si], tx_seq'[sr])
  BY <1>4, <1>6, <1>7
<1>14. <<state'[si], state'[sr]>> \in Phases
  BY <1>8 DEF Phases
<1>15. session'[i] = si /\ session'[r] = sr
  BY <1>4, <1>6
<1> QED  BY <1>6, <1>8, <1>9, <1>11, <1>12, <1>13, <1>14, <1>15 DEF Solo, i, r, si, sr

\* The session that is attached opens the encrypted frame that comes next.
LEMMA SoloDecrypts ==
  ASSUME ChannelTypeOK, NEW h \in Handshakes, Solo(h), NEW e \in Endpoints,
         wire[e] # <<>>, IsData(wire[e][1]), Encrypted(wire[e][1])
  PROVE  /\ DecryptFrame(session[e], wire[e][1])
         /\ session[e] = IF e = h[1] THEN <<h, "Initiator">> ELSE <<h, "Responder">>
<1> HIDE DEF Frames, Sessions, Handshakes
<1> DEFINE i  == h[1]
           r  == Other(h[1])
           si == <<h, "Initiator">>
           sr == <<h, "Responder">>
<1>1. /\ i \in Endpoints /\ r \in Endpoints /\ i # r /\ Other(r) = i
      /\ \A d \in Endpoints : d = i \/ d = r
      /\ si \in Sessions /\ sr \in Sessions /\ si # sr
      /\ si # NoSession /\ sr # NoSession
      /\ wire[i] \in Seq(Frames) /\ wire[r] \in Seq(Frames)
      /\ seen[si] \in SUBSET Nat /\ seen[sr] \in SUBSET Nat
      /\ tx_seq[si] \in Nat /\ tx_seq[sr] \in Nat
  BY SoloTypes
<1>2. /\ <<state[si], state[sr]>> \in Phases
      /\ session[i] = si
      /\ session[r] = IF state[sr] = "Uninitialized" THEN NoSession ELSE sr
      /\ Up(wire[r], h, state[si], state[sr])
      /\ Down(wire[i], h, state[si], state[sr])
      /\ Growing(wire[r], seen[sr], tx_seq[si])
      /\ Growing(wire[i], seen[si], tx_seq[sr])
  BY DEF Solo
<1>3. 1 \in 1..Len(wire[e]) /\ ~(\E k \in 1..(1 - 1) : TRUE)
  BY DEF ChannelTypeOK
<1>4. state[sr] = "Active" => state[si] = "Active"
  BY <1>2 DEF Phases
<1>5. Decrypts(si, sr) /\ Decrypts(sr, si)
  BY DEF Decrypts, RxKey, TxKey
<1> HIDE DEF i, r, si, sr, Endpoints, IsData, Encrypted, NoSession
<1>6. ASSUME e = r
      PROVE  DecryptFrame(session[e], wire[e][1]) /\ session[e] = sr
  <2>1. UpFrame(wire[r], 1, h, state[si], state[sr])
    BY <1>2, <1>3, <1>6, UpFrames
  <2>2. wire[r][1].by = si /\ state[sr] = "Active"
    BY <2>1, <1>3, <1>6, Kinds DEF UpFrame, si
  <2>3. wire[r][1].seq \notin seen[sr]
    BY <1>1, <1>2, <1>6, GrowingTail
  <2> QED  BY <2>2, <2>3, <1>1, <1>2, <1>5, <1>6 DEF DecryptFrame, IsActive
<1>7. ASSUME e = i
      PROVE  DecryptFrame(session[e], wire[e][1]) /\ session[e] = si
  <2>1. wire[i][1].by = sr /\ state[sr] = "Active"
    BY <1>2, <1>3, <1>7, Kinds DEF Down, sr
  <2>2. wire[i][1].seq \notin seen[si]
    BY <1>1, <1>2, <1>7, GrowingTail
  <2> QED  BY <2>1, <2>2, <1>1, <1>2, <1>4, <1>5, <1>7 DEF DecryptFrame, IsActive
<1> QED  BY <1>1, <1>6, <1>7 DEF i, r, si, sr

\* A data frame is read, and none is rejected.
LEMMA SoloReceivesData ==
  ASSUME ChannelTypeOK, NEW h \in Handshakes, Solo(h), NEW e \in Endpoints,
         ReceiveData(e) \/ RejectData(e)
  PROVE  Solo(h)' /\ open' = open
<1> HIDE DEF Frames, Sessions, Handshakes
<1> DEFINE i  == h[1]
           r  == Other(h[1])
           si == <<h, "Initiator">>
           sr == <<h, "Responder">>
<1>1. /\ i \in Endpoints /\ r \in Endpoints /\ i # r /\ Other(r) = i
      /\ \A d \in Endpoints : d = i \/ d = r
      /\ si \in Sessions /\ sr \in Sessions /\ si # sr
      /\ si # NoSession /\ sr # NoSession
      /\ wire[i] \in Seq(Frames) /\ wire[r] \in Seq(Frames)
      /\ seen[si] \in SUBSET Nat /\ seen[sr] \in SUBSET Nat
      /\ tx_seq[si] \in Nat /\ tx_seq[sr] \in Nat
  BY SoloTypes
<1>2. /\ <<state[si], state[sr]>> \in Phases
      /\ session[i] = si
      /\ session[r] = IF state[sr] = "Uninitialized" THEN NoSession ELSE sr
      /\ Up(wire[r], h, state[si], state[sr])
      /\ Down(wire[i], h, state[si], state[sr])
      /\ Growing(wire[r], seen[sr], tx_seq[si])
      /\ Growing(wire[i], seen[si], tx_seq[sr])
  BY DEF Solo
<1>3. wire[e] # <<>> /\ Head(wire[e]).type = "DATA"
  BY DEF ReceiveData, RejectData
<1>4. IsData(wire[e][1]) /\ Head(wire[e]) = wire[e][1]
  BY <1>3, TakenWires DEF IsData
<1>5. Encrypted(wire[e][1]) => DecryptFrame(session[e], wire[e][1])
  BY <1>3, <1>4, SoloDecrypts
<1>6. ~RejectData(e)
  BY <1>4, <1>5 DEF RejectData, Encrypted
<1>7. /\ open' = open /\ session' = session /\ state' = state /\ tx_seq' = tx_seq
      /\ wire' = Taken(e)
      /\ \/ ~Encrypted(wire[e][1]) /\ seen' = seen
         \/ /\ Encrypted(wire[e][1])
            /\ seen' = [seen EXCEPT ![session[e]] = @ \cup {wire[e][1].seq}]
  BY <1>4, <1>6 DEF ReceiveData, Encrypted
<1>8. wire'[e] = Tail(wire[e]) /\ wire'[Other(e)] = wire[Other(e)]
  BY <1>3, <1>7, TakenWires
<1>9. /\ Encrypted(wire[e][1]) => session[e] = IF e = i THEN si ELSE sr
  BY <1>3, <1>4, SoloDecrypts
<1>10. seen \in [Sessions -> SUBSET Nat]
  BY DEF ChannelTypeOK
<1>11. Other(i) = r
  OBVIOUS
<1> HIDE DEF i, r, si, sr, Endpoints, IsData, Encrypted, NoSession
<1>12. ASSUME e = r
       PROVE  /\ Up(wire'[r], h, state'[si], state'[sr])
              /\ Down(wire'[i], h, state'[si], state'[sr])
              /\ Growing(wire'[r], seen'[sr], tx_seq'[si])
              /\ Growing(wire'[i], seen'[si], tx_seq'[sr])
  <2>1. wire'[r] = Tail(wire[r]) /\ wire'[i] = wire[i]
    BY <1>1, <1>8, <1>12
  <2>2. Up(Tail(wire[r]), h, state[si], state[sr])
    BY <1>1, <1>2, <1>3, <1>4, <1>12, UpTail
  <2>3. /\ Growing(Tail(wire[r]), seen[sr], tx_seq[si])
        /\ Encrypted(wire[r][1]) =>
             Growing(Tail(wire[r]), seen[sr] \cup {wire[r][1].seq}, tx_seq[si])
    BY <1>1, <1>2, <1>3, <1>12, GrowingTail
  <2>4. \/ ~Encrypted(wire[r][1]) /\ seen'[sr] = seen[sr] /\ seen'[si] = seen[si]
        \/ /\ Encrypted(wire[r][1]) /\ seen'[sr] = seen[sr] \cup {wire[r][1].seq}
           /\ seen'[si] = seen[si]
    BY <1>1, <1>7, <1>9, <1>10, <1>12
  <2> QED  BY <1>2, <1>7, <2>1, <2>2, <2>3, <2>4
<1>13. ASSUME e = i
       PROVE  /\ Up(wire'[r], h, state'[si], state'[sr])
              /\ Down(wire'[i], h, state'[si], state'[sr])
              /\ Growing(wire'[r], seen'[sr], tx_seq'[si])
              /\ Growing(wire'[i], seen'[si], tx_seq'[sr])
  <2>1. wire'[i] = Tail(wire[i]) /\ wire'[r] = wire[r]
    BY <1>1, <1>8, <1>11, <1>13
  <2>2. Down(Tail(wire[i]), h, state[si], state[sr])
    BY <1>1, <1>2, <1>3, <1>13, DownData
  <2>3. /\ Growing(Tail(wire[i]), seen[si], tx_seq[sr])
        /\ Encrypted(wire[i][1]) =>
             Growing(Tail(wire[i]), seen[si] \cup {wire[i][1].seq}, tx_seq[sr])
    BY <1>1, <1>2, <1>3, <1>13, GrowingTail
  <2>4. \/ ~Encrypted(wire[i][1]) /\ seen'[si] = seen[si] /\ seen'[sr] = seen[sr]
        \/ /\ Encrypted(wire[i][1]) /\ seen'[si] = seen[si] \cup {wire[i][1].seq}
           /\ seen'[sr] = seen[sr]
    BY <1>1, <1>7, <1>9, <1>10, <1>13
  <2> QED  BY <1>2, <1>7, <2>1, <2>2, <2>3, <2>4
<1>14. /\ Up(wire'[r], h, state'[si], state'[sr])
       /\ Down(wire'[i], h, state'[si], state'[sr])
       /\ Growing(wire'[r], seen'[sr], tx_seq'[si])
       /\ Growing(wire'[i], seen'[si], tx_seq'[sr])
  BY <1>1, <1>12, <1>13
<1>15. /\ <<state'[si], state'[sr]>> \in Phases
       /\ session'[i] = si
       /\ session'[r] = IF state'[sr] = "Uninitialized" THEN NoSession ELSE sr
  BY <1>2, <1>7
<1> QED  BY <1>7, <1>14, <1>15 DEF Solo, i, r, si, sr

\* A data frame is sent, encrypted as soon as the session is active.
LEMMA SoloSendsData ==
  ASSUME ChannelTypeOK, \A e \in Endpoints : open[e],
         NEW h \in Handshakes, Solo(h), NEW e \in Endpoints, SendData(e)
  PROVE  Solo(h)' /\ open' = open
<1> HIDE DEF Frames, Sessions, Handshakes
<1> DEFINE i  == h[1]
           r  == Other(h[1])
           si == <<h, "Initiator">>
           sr == <<h, "Responder">>
<1>1. /\ i \in Endpoints /\ r \in Endpoints /\ i # r /\ Other(r) = i
      /\ \A d \in Endpoints : d = i \/ d = r
      /\ si \in Sessions /\ sr \in Sessions /\ si # sr
      /\ si # NoSession /\ sr # NoSession
      /\ wire[i] \in Seq(Frames) /\ wire[r] \in Seq(Frames)
      /\ seen[si] \in SUBSET Nat /\ seen[sr] \in SUBSET Nat
      /\ tx_seq[si] \in Nat /\ tx_seq[sr] \in Nat
  BY SoloTypes
<1>2. /\ <<state[si], state[sr]>> \in Phases
      /\ session[i] = si
      /\ session[r] = IF state[sr] = "Uninitialized" THEN NoSession ELSE sr
      /\ Up(wire[r], h, state[si], state[sr])
      /\ Down(wire[i], h, state[si], state[sr])
      /\ Growing(wire[r], seen[sr], tx_seq[si])
      /\ Growing(wire[i], seen[si], tx_seq[sr])
  BY DEF Solo
<1>3. wire \in [Endpoints -> Seq(Frames)] /\ tx_seq \in [Sessions -> Nat] /\ sent[e] + 1 \in Nat
  BY SMTT(30) DEF ChannelTypeOK
<1>4. /\ open' = open /\ session' = session /\ state' = state /\ seen' = seen
      /\ \/ /\ IsActive(session[e])
            /\ tx_seq' = [tx_seq EXCEPT ![session[e]] = @ + 1]
            /\ wire' = Sent(wire, e, Data(sent[e] + 1, session[e], tx_seq[session[e]] + 1))
         \/ /\ ~IsActive(session[e])
            /\ tx_seq' = tx_seq
            /\ wire' = Sent(wire, e, Data(sent[e] + 1, NoSession, 0))
  BY DEF SendData
<1>5. /\ open[e] /\ open[Other(e)]
  BY OtherFacts
<1>6. \A f \in Frames : /\ Sent(wire, e, f)[e] = wire[e]
                        /\ Sent(wire, e, f)[Other(e)] = Append(wire[Other(e)], f)
  <2> SUFFICES ASSUME NEW f \in Frames
               PROVE  /\ Sent(wire, e, f)[e] = wire[e]
                      /\ Sent(wire, e, f)[Other(e)] = Append(wire[Other(e)], f)
    OBVIOUS
  <2>1. wire \in [Endpoints -> Seq(Frames)] /\ open[e] /\ open[Other(e)]
    BY <1>3, <1>5
  <2> HIDE DEF Frames, Endpoints
  <2> QED  BY SMTT(30), <2>1, SentWires
<1>7. state[si] = "Active" => state[sr] \in {"HandshakeRespSent", "Active"}
  BY <1>2 DEF Phases
<1>8. Other(i) = r
  OBVIOUS
<1> HIDE DEF i, r, si, sr, Endpoints, IsData, NoSession
<1>9. ASSUME NEW s \in Sessions, tx_seq[s] \in Nat
      PROVE  LET f == Data(sent[e] + 1, s, tx_seq[s] + 1)
             IN  /\ f \in Frames /\ IsData(f) /\ f.by = s /\ Encrypted(f)
                 /\ f.seq = tx_seq[s] + 1
  <2>1. tx_seq[s] + 1 \in Nat
    BY <1>9
  <2>2. s \in Sessions \cup {NoSession} /\ sent[e] + 1 \in Nat
    BY <1>3
  <2> DEFINE n == sent[e] + 1
             q == tx_seq[s] + 1
             f == Data(n, s, q)
  <2> HIDE DEF n, q, Sessions
  <2>3. n \in Nat /\ q \in Nat
    BY <2>1, <2>2 DEF n, q
  <2>4. f \in Frames /\ IsData(f) /\ f.by = s /\ f.seq = q
    BY SMTT(30), <2>2, <2>3, DataFrame
  <2>5. Encrypted(f)
    BY <2>4, NoSessionIsNone DEF Encrypted
  <2> QED  BY <2>4, <2>5 DEF n, q
<1>10. LET f == Data(sent[e] + 1, NoSession, 0)
       IN  f \in Frames /\ IsData(f) /\ ~Encrypted(f)
  BY <1>3, PlainData
<1> HIDE DEF Encrypted
<1>11. ASSUME e = i
       PROVE  /\ Up(wire'[r], h, state[si], state[sr])
              /\ wire'[i] = wire[i] /\ tx_seq'[sr] = tx_seq[sr]
              /\ Growing(wire'[r], seen[sr], tx_seq'[si])
  <2>1. ASSUME IsActive(si)
        PROVE  /\ Up(wire'[r], h, state[si], state[sr])
               /\ wire'[i] = wire[i] /\ tx_seq'[sr] = tx_seq[sr]
               /\ Growing(wire'[r], seen[sr], tx_seq'[si])
    <3> DEFINE f == Data(sent[e] + 1, si, tx_seq[si] + 1)
    <3>1. /\ f \in Frames /\ IsData(f) /\ f.by = si /\ Encrypted(f) /\ f.seq = tx_seq[si] + 1
      BY <1>1, <1>9
    <3>2. tx_seq'[si] = tx_seq[si] + 1 /\ tx_seq'[sr] = tx_seq[sr] /\ wire' = Sent(wire, e, f)
      BY <1>1, <1>2, <1>3, <1>4, <1>11, <2>1
    <3> HIDE DEF f
    <3>3. wire'[i] = wire[i] /\ wire'[r] = Append(wire[r], f)
      BY <3>1, <3>2, <1>6, <1>8, <1>11
    <3>4. Up(Append(wire[r], f), h, state[si], state[sr])
      BY <3>1, <2>1, <1>1, <1>2, <1>7, UpAppend DEF IsActive, si
    <3>5. Growing(Append(wire[r], f), seen[sr], tx_seq[si] + 1)
      BY <3>1, <1>1, <1>2, GrowingAppend
    <3> QED  BY <3>2, <3>3, <3>4, <3>5
  <2>2. ASSUME ~IsActive(si)
        PROVE  /\ Up(wire'[r], h, state[si], state[sr])
               /\ wire'[i] = wire[i] /\ tx_seq'[sr] = tx_seq[sr]
               /\ Growing(wire'[r], seen[sr], tx_seq'[si])
    <3> DEFINE f == Data(sent[e] + 1, NoSession, 0)
    <3>1. f \in Frames /\ IsData(f) /\ ~Encrypted(f)
      BY <1>10
    <3>2. tx_seq' = tx_seq /\ wire' = Sent(wire, e, f)
      BY <1>2, <1>4, <1>11, <2>2
    <3> HIDE DEF f
    <3>3. wire'[i] = wire[i] /\ wire'[r] = Append(wire[r], f)
      BY <3>1, <3>2, <1>6, <1>8, <1>11
    <3>4. Up(Append(wire[r], f), h, state[si], state[sr])
      BY <3>1, <1>1, <1>2, UpAppend
    <3>5. Growing(Append(wire[r], f), seen[sr], tx_seq[si])
      BY <3>1, <1>1, <1>2, GrowingAppend
    <3> QED  BY <3>2, <3>3, <3>4, <3>5
  <2> QED  BY <2>1, <2>2
<1>12. ASSUME e = r
       PROVE  /\ Down(wire'[i], h, state[si], state[sr])
              /\ wire'[r] = wire[r] /\ tx_seq'[si] = tx_seq[si]
              /\ Growing(wire'[i], seen[si], tx_seq'[sr])
  <2>1. ASSUME IsActive(session[r])
        PROVE  /\ Down(wire'[i], h, state[si], state[sr])
               /\ wire'[r] = wire[r] /\ tx_seq'[si] = tx_seq[si]
               /\ Growing(wire'[i], seen[si], tx_seq'[sr])
    <3> DEFINE f == Data(sent[e] + 1, sr, tx_seq[sr] + 1)
    <3>0. session[r] = sr /\ state[sr] = "Active"
      BY <2>1, <1>2 DEF IsActive
    <3>1. /\ f \in Frames /\ IsData(f) /\ f.by = sr /\ Encrypted(f) /\ f.seq = tx_seq[sr] + 1
      BY <1>1, <1>9
    <3>2. tx_seq'[sr] = tx_seq[sr] + 1 /\ tx_seq'[si] = tx_seq[si] /\ wire' = Sent(wire, e, f)
      BY <3>0, <1>1, <1>3, <1>4, <1>12, <2>1
    <3> HIDE DEF f
    <3>3. wire'[r] = wire[r] /\ wire'[i] = Append(wire[i], f)
      BY <3>1, <3>2, <1>1, <1>6, <1>12
    <3>4. Down(Append(wire[i], f), h, state[si], state[sr])
      BY <3>0, <3>1, <1>1, <1>2, DownData DEF sr
    <3>5. Growing(Append(wire[i], f), seen[si], tx_seq[sr] + 1)
      BY <3>1, <1>1, <1>2, GrowingAppend
    <3> QED  BY <3>2, <3>3, <3>4, <3>5
  <2>2. ASSUME ~IsActive(session[r])
        PROVE  /\ Down(wire'[i], h, state[si], state[sr])
               /\ wire'[r] = wire[r] /\ tx_seq'[si] = tx_seq[si]
               /\ Growing(wire'[i], seen[si], tx_seq'[sr])
    <3> DEFINE f == Data(sent[e] + 1, NoSession, 0)
    <3>1. f \in Frames /\ IsData(f) /\ ~Encrypted(f)
      BY <1>10
    <3>2. tx_seq' = tx_seq /\ wire' = Sent(wire, e, f)
      BY <1>4, <1>12, <2>2
    <3> HIDE DEF f
    <3>3. wire'[r] = wire[r] /\ wire'[i] = Append(wire[i], f)
      BY <3>1, <3>2, <1>1, <1>6, <1>12
    <3>4. Down(Append(wire[i], f), h, state[si], state[sr])
      BY <3>1, <1>1, <1>2, DownData
    <3>5. Growing(Append(wire[i], f), seen[si], tx_seq[sr])
      BY <3>1, <1>1, <1>2, GrowingAppend
    <3> QED  BY <3>2, <3>3, <3>4, <3>5
  <2> QED  BY <2>1, <2>2
<1>13. /\ Up(wire'[r], h, state[si], state[sr])
       /\ Down(wire'[i], h, state[si], state[sr])
       /\ Growing(wire'[r], seen[sr], tx_seq'[si])
       /\ Growing(wire'[i], seen[si], tx_seq'[sr])
  <2>1. CASE e = i
    BY <2>1, <1>2, <1>11
  <2>2. CASE e = r
    BY <2>2, <1>2, <1>12
  <2> QED  BY <2>1, <2>2, <1>1
<1>14. /\ <<state'[si], state'[sr]>> \in Phases
       /\ session'[i] = si
       /\ session'[r] = IF state'[sr] = "Uninitialized" THEN NoSession ELSE sr
  BY <1>2, <1>4
<1>15. /\ Up(wire'[r], h, state'[si], state'[sr])
       /\ Down(wire'[i], h, state'[si], state'[sr])
       /\ Growing(wire'[r], seen'[sr], tx_seq'[si])
       /\ Growing(wire'[i], seen'[si], tx_seq'[sr])
  BY <1>4, <1>13
<1> QED  BY <1>4, <1>14, <1>15 DEF Solo, i, r, si, sr

\* The timers and a stuttering step leave the sessions and the wires alone.
LEMMA SoloAlone ==
  ASSUME NEW h, Solo(h),
         UNCHANGED <<open, wire, session, state, tx_seq, seen>>
  PROVE  Solo(h)' /\ open' = open
BY DEF Solo

\* Every step of a connection on which only h was started.
LEMMA SoloStep ==
  ASSUME ChannelTypeOK, [Next]_vars, \A e \in Endpoints : open[e],
         NEW h \in Handshakes, Solo(h),
         \A g \in Handshakes : ~InitiateHandshake(g)
  PROVE  Solo(h)' /\ open' = open
<1>1. ASSUME NEW e \in Endpoints, Receive(e)
      PROVE  Solo(h)' /\ open' = open
  BY <1>1, SoloReceivesInit, SoloReceivesResponse, SoloReceivesComplete, SoloReceivesData
  DEF Receive
<1>2. ASSUME NEW e \in Endpoints, SendData(e)
      PROVE  Solo(h)' /\ open' = open
  BY <1>2, SoloSendsData
<1>3. ASSUME NEW g \in Handshakes, TimerExpires(g) \/ TimerFires(g)
      PROVE  Solo(h)' /\ open' = open
  <2>1. UNCHANGED <<open, wire, session, state, tx_seq, seen>>
    BY <1>3 DEF TimerExpires, TimerFires, sessionVars
  <2> QED  BY <2>1, SoloAlone
<1>4. ASSUME UNCHANGED vars
      PROVE  Solo(h)' /\ open' = open
  <2>1. UNCHANGED <<open, wire, session, state, tx_seq, seen>>
    BY <1>4 DEF vars, sessionVars
  <2> QED  BY <2>1, SoloAlone
<1> QED  BY <1>1, <1>2, <1>3, <1>4 DEF Next

\* Before the first handshake there are only plain data frames.
LEMMA QuietStep ==
  ASSUME ChannelTypeOK, [Next]_vars, \A e \in Endpoints : open[e], Quiet,
         \A g \in Handshakes : ~InitiateHandshake(g)
  PROVE  Quiet' /\ open' = open
<1> HIDE DEF Frames, Sessions, Handshakes
<1>1. \A e \in Endpoints : AllPlain(wire[e]) /\ wire[e] \in Seq(Frames)
  BY DEF Quiet, AllPlain, ChannelTypeOK
<1>2. \A e \in Endpoints : session[e] = NoSession
  BY DEF Quiet
<1>3. ASSUME open' = open, session' = session, state' = state, tx_seq' = tx_seq, seen' = seen,
             \A e \in Endpoints : AllPlain(wire'[e])
      PROVE  Quiet' /\ open' = open
  BY <1>3 DEF Quiet, AllPlain
<1>4. ASSUME NEW e \in Endpoints, wire[e] # <<>>
      PROVE  /\ Head(wire[e]) = wire[e][1] /\ IsData(wire[e][1]) /\ ~Encrypted(wire[e][1])
             /\ \A d \in Endpoints : AllPlain(Taken(e)[d])
  <2>1. 1 \in 1..Len(wire[e])
    BY <1>1, <1>4
  <2>2. IsData(wire[e][1]) /\ ~Encrypted(wire[e][1])
    BY <2>1, <1>1 DEF AllPlain
  <2>3. /\ Taken(e)[e] = Tail(wire[e]) /\ Taken(e)[Other(e)] = wire[Other(e)]
        /\ Head(wire[e]) = wire[e][1]
    BY <1>4, TakenWires
  <2>4. AllPlain(Taken(e)[e])
    BY <2>3, <1>1, <1>4, AllPlainKept
  <2>5. AllPlain(Taken(e)[Other(e)])
    BY <2>3, <1>1, OtherFacts
  <2>6. \A d \in Endpoints : d = e \/ d = Other(e)
    BY DEF Endpoints, Other
  <2> QED  BY <2>2, <2>3, <2>4, <2>5, <2>6
<1>5. ASSUME NEW e \in Endpoints, NEW g \in Handshakes,
             NEW t \in {"INIT", "RESPONSE", "COMPLETE"}, Reads(e, Plain(t, g))
      PROVE  FALSE
  <2>1. ~IsData(Plain(t, g))
    BY PlainFrame
  <2>2. wire[e] # <<>> /\ Head(wire[e]) = Plain(t, g)
    BY <1>5 DEF Reads
  <2>3. IsData(Head(wire[e]))
    BY <2>2, <1>4
  <2> QED  BY <2>1, <2>2, <2>3
<1>6. ASSUME NEW e \in Endpoints, Receive(e)
      PROVE  Quiet' /\ open' = open
  <2>1. \A g \in Handshakes : /\ ~Reads(e, Plain("INIT", g)) /\ ~Reads(e, Plain("RESPONSE", g))
                              /\ ~Reads(e, Plain("COMPLETE", g))
    BY <1>5
  <2>2. pending \subseteq Handshakes
    BY DEF ChannelTypeOK
  <2>3. /\ ~ReceiveInit(e) /\ ~ReceiveResponse(e) /\ ~ReceiveLateResponse(e)
        /\ ~ReceiveComplete(e) /\ ~ReceiveWrongComplete(e)
    BY <2>1, <2>2
    DEF ReceiveInit, ReceiveResponse, ReceiveLateResponse, ReceiveComplete, ReceiveWrongComplete
  <2>4. ~RejectData(e)
    BY <1>4 DEF RejectData, Encrypted
  <2>5. ReceiveData(e)
    BY <1>6, <2>3, <2>4 DEF Receive
  <2>6. wire[e] # <<>> /\ wire' = Taken(e)
        /\ open' = open /\ session' = session /\ state' = state /\ tx_seq' = tx_seq
    BY <2>5 DEF ReceiveData
  <2>7. seen' = seen
    BY <2>5, <2>6, <1>4 DEF ReceiveData, Encrypted
  <2> QED  BY <2>6, <2>7, <1>3, <1>4
<1>7. ASSUME NEW e \in Endpoints, SendData(e)
      PROVE  Quiet' /\ open' = open
  <2> DEFINE f == Data(sent[e] + 1, NoSession, 0)
  <2>1. /\ open' = open /\ session' = session /\ state' = state /\ seen' = seen
        /\ tx_seq' = tx_seq /\ wire' = Sent(wire, e, f)
    BY <1>2, <1>7 DEF SendData, IsActive
  <2>2. f \in Frames /\ IsData(f) /\ ~Encrypted(f)
    <3>1. sent[e] + 1 \in Nat
      BY SMTT(30) DEF ChannelTypeOK
    <3> QED  BY <3>1, PlainData
  <2> HIDE DEF f
  <2>3. open[e] /\ open[Other(e)]
    BY OtherFacts
  <2>4. wire'[e] = wire[e] /\ wire'[Other(e)] = Append(wire[Other(e)], f)
    <3>1. wire \in [Endpoints -> Seq(Frames)]
      BY DEF ChannelTypeOK
    <3> HIDE DEF Endpoints
    <3> QED  BY SMTT(30), <3>1, <2>1, <2>2, <2>3, SentWires
  <2>5. Other(e) \in Endpoints
    BY OtherFacts
  <2>6. AllPlain(wire'[e]) /\ AllPlain(wire'[Other(e)])
    BY <2>2, <2>4, <2>5, <1>1, AllPlainKept
  <2>7. \A d \in Endpoints : d = e \/ d = Other(e)
    BY DEF Endpoints, Other
  <2>8. \A d \in Endpoints : AllPlain(wire'[d])
    BY <2>6, <2>7
  <2> QED  BY <2>1, <2>8, <1>3
<1>8. ASSUME NEW g \in Handshakes, TimerExpires(g) \/ TimerFires(g)
      PROVE  Quiet' /\ open' = open
  <2>1. UNCHANGED <<open, wire, session, state, tx_seq, seen>>
    BY <1>8 DEF TimerExpires, TimerFires, sessionVars
  <2> QED  BY <2>1, <1>1, <1>3
<1>9. ASSUME UNCHANGED vars
      PROVE  Quiet' /\ open' = open
  <2>1. UNCHANGED <<open, wire, session, state, tx_seq, seen>>
    BY <1>9 DEF vars, sessionVars
  <2> QED  BY <2>1, <1>1, <1>3
<1> QED  BY <1>6, <1>7, <1>8, <1>9 DEF Next

\* Every step keeps the invariant of a connection with one handshake.
LEMMA StepKeepsAlone ==
  ASSUME ChannelTypeOK, AloneInv, [Next]_vars
  PROVE  AloneInv'
<1> HIDE DEF Frames, Sessions, Handshakes, Endpoints
<1> SUFFICES ASSUME Alone'
             PROVE  /\ \A e \in Endpoints : open'[e]
                    /\ \A h \in Started' : Solo(h)'
                    /\ Started' = {} => Quiet'
  BY DEF AloneInv
<1>1. Started \subseteq Started'
  <2>1. \A h \in Handshakes : <<h, "Initiator">> \in Sessions
    BY SessionFacts
  <2> QED  BY <2>1, StepMovesOn DEF StatesMoveOn, Started
<1>2. Alone
  BY <1>1 DEF Alone
<1>3. /\ \A e \in Endpoints : open[e]
      /\ \A h \in Started : Solo(h)
      /\ Started = {} => Quiet
  BY <1>2 DEF AloneInv
<1>4. ASSUME NEW g \in Handshakes, InitiateHandshake(g)
      PROVE  /\ \A e \in Endpoints : open'[e]
             /\ \A h \in Started' : Solo(h)'
             /\ Started' # {}
  <2>1. open' = open /\ state[<<g, "Initiator">>] = "Uninitialized"
        /\ state' = [state EXCEPT ![<<g, "Initiator">>] = "HandshakeInitSent"]
    BY <1>4 DEF InitiateHandshake
  <2>2. state'[<<g, "Initiator">>] = "HandshakeInitSent"
    BY <2>1, SessionFacts DEF ChannelTypeOK
  <2>3. g \in Started' /\ g \notin Started
    BY <2>1, <2>2 DEF Started
  <2>4. \A h \in Started' : h = g
    BY <2>3 DEF Alone
  <2>5. Started = {}
    BY <1>1, <2>3, <2>4
  <2>6. Solo(g)'
    BY <1>3, <1>4, <2>5, QuietInitiates
  <2> QED  BY <1>3, <2>1, <2>3, <2>4, <2>6
<1>5. ASSUME \A g \in Handshakes : ~InitiateHandshake(g)
      PROVE  /\ \A e \in Endpoints : open'[e]
             /\ \A h \in Started' : Solo(h)'
             /\ Started' = {} => Quiet'
  <2>1. CASE Started = {}
    <3>1. Quiet' /\ open' = open
      BY <1>3, <1>5, <2>1, QuietStep
    <3>2. Started' = {}
      <4>1. \A h \in Handshakes : state'[<<h, "Initiator">>] = "Uninitialized"
        BY <3>1, SessionFacts DEF Quiet
      <4> QED  BY <4>1 DEF Started
    <3> QED  BY <3>1, <3>2, <1>3
  <2>2. CASE Started # {}
    <3>1. PICK h \in Started : h \in Handshakes /\ Solo(h)
      BY <2>2, <1>3 DEF Started
    <3>2. Solo(h)' /\ open' = open
      BY <3>1, <1>3, <1>5, SoloStep
    <3>3. h \in Started'
      BY <3>1, <1>1
    <3>4. \A g \in Started' : g = h
      BY <3>3 DEF Alone
    <3> QED  BY <3>2, <3>3, <3>4, <1>3
  <2> QED  BY <2>1, <2>2
<1> QED  BY <1>4, <1>5

\* The invariants of a connection with one handshake.
THEOREM AloneInvariant == Spec => [](ChannelTypeOK /\ AloneInv)
<1>1. Init => ChannelTypeOK /\ AloneInv
  <2> SUFFICES ASSUME Init
               PROVE  ChannelTypeOK /\ AloneInv
    OBVIOUS
  <2> HIDE DEF Frames, Sessions, Handshakes, Endpoints
  <2>1. Started = {}
    <3>1. \A h \in Handshakes : state[<<h, "Initiator">>] = "Uninitialized"
      BY SessionFacts DEF Init
    <3> QED  BY <3>1 DEF Started
  <2>2. \A e \in Endpoints : open[e] /\ Len(wire[e]) = 0
    BY DEF Init
  <2>3. Quiet
    BY <2>2 DEF Init, Quiet
  <2>4. AloneInv
    BY <2>1, <2>2, <2>3 DEF AloneInv
  <2> QED  BY <2>4, InitTypes
<1>2. ChannelTypeOK /\ AloneInv /\ [Next]_vars => (ChannelTypeOK /\ AloneInv)'
  BY StepKeepsTypes, StepKeepsAlone
<1> QED  BY <1>1, <1>2, PTL DEF Spec

\* No frame of an honest peer closes a connection on which one handshake was
\* started: not the HANDSHAKE frames, and not the first encrypted ones.
THEOREM NothingRejectedCorrect == Spec => []NothingRejected
<1>1. ChannelTypeOK /\ AloneInv => NothingRejected
  BY DEF AloneInv, NothingRejected
<1> QED  BY <1>1, AloneInvariant, PTL

\* With one handshake on the connection, the sessions attached at both ends
\* are its two, and each decrypts what the other encrypts.
AgreeAlone == Alone => SessionsAgree

\* The sessions agree for any number of frames, unless handshakes overlap.
THEOREM AgreeAloneCorrect == Spec => []AgreeAlone
<1>1. ASSUME ChannelTypeOK, AloneInv, Alone, IsActive(session["a"]), IsActive(session["b"])
      PROVE  Decrypts(session["a"], session["b"])
  <2> HIDE DEF Frames, Sessions, Handshakes
  <2>1. "a" \in Endpoints /\ "b" \in Endpoints
    BY DEF Endpoints
  <2>2. CASE Started = {}
    <3>1. session["a"] = NoSession
      BY <1>1, <2>1, <2>2 DEF AloneInv, Quiet
    <3> QED  BY <3>1, <1>1 DEF IsActive
  <2>3. CASE Started # {}
    <3>1. PICK h \in Started : h \in Handshakes /\ Solo(h)
      BY <1>1, <2>3 DEF AloneInv, Started
    <3> DEFINE si == <<h, "Initiator">>
               sr == <<h, "Responder">>
    <3>2. /\ session[h[1]] = si
          /\ session[Other(h[1])] = NoSession \/ session[Other(h[1])] = sr
      BY <3>1 DEF Solo
    <3>3. Decrypts(si, sr) /\ Decrypts(sr, si)
      BY DEF Decrypts, RxKey, TxKey
    <3>4. h[1] = "a" \/ h[1] = "b"
      BY <3>1, SessionFacts DEF Endpoints
    <3>5. Other("a") = "b" /\ Other("b") = "a"
      BY DEF Other
    <3> HIDE DEF si, sr
    <3>6. session["a"] # NoSession /\ session["b"] # NoSession
      BY <1>1 DEF IsActive
    <3>7. CASE h[1] = "a"
      BY <3>2, <3>3, <3>5, <3>6, <3>7
    <3>8. CASE h[1] = "b"
      BY <3>2, <3>3, <3>5, <3>6, <3>8
    <3> QED  BY <3>4, <3>7, <3>8
  <2> QED  BY <2>2, <2>3
<1>2. ChannelTypeOK /\ AloneInv => AgreeAlone
  BY <1>1 DEF AgreeAlone, SessionsAgree
<1> QED  BY <1>2, AloneInvariant, PTL

=============================================================================
