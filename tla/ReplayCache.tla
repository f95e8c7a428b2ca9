----------------------------- MODULE ReplayCache -----------------------------
(***************************************************************************)
(* security::ReplayCache (src/src/security/replay_cache.cpp): the highest  *)
(* sequence number and a circular bitmap of the window below it.           *)
(*                                                                         *)
(* A sequence number is a uint64_t, 0..MaxSeq.                             *)
(***************************************************************************)
EXTENDS Integers

CONSTANTS
  WindowSize,  \* window_size_
  MaxSeq       \* the largest value of the type of a sequence number

ASSUME WindowSizeAssumption == WindowSize \in Nat \ {0}
ASSUME MaxSeqAssumption == MaxSeq \in Nat

Seqs == 0..MaxSeq

VARIABLES
  initialized, highest_seq,  \* the members
  window_bitmap,             \* the slots that are set
  accepted,    \* the numbers that were accepted since the last reset
  answer,      \* the last call of update_and_check that returned
  looping      \* whether a call is in a loop that it does not leave

cacheVars == <<initialized, highest_seq, window_bitmap, accepted, answer, looping>>

Slot(seq) == seq % WindowSize
Slots == 0..WindowSize - 1

\* Mutant: the first of the slots that are passed is not cleared.
MovedSkipsFirst(seq) ==
  IF seq - highest_seq >= WindowSize THEN {}
  ELSE window_bitmap \ {Slot(s) : s \in highest_seq + 2..seq}

\* Mutant: a jump by a window or more does not clear the bitmap.
MovedKeepsOnJump(seq) ==
  IF seq - highest_seq >= WindowSize THEN window_bitmap
  ELSE window_bitmap \ {Slot(s) : s \in highest_seq + 1..seq}

\* The bitmap that is moved up to seq.
Moved(seq) ==
  IF seq - highest_seq >= WindowSize THEN {}
  ELSE window_bitmap \ {Slot(s) : s \in highest_seq + 1..seq}

\* Mutant: the highest number is fresh.
CheckFromHighest(seq) ==
  \/ ~initialized
  \/ seq >= highest_seq
  \/ /\ highest_seq - seq < WindowSize
     /\ Slot(seq) \notin window_bitmap

\* ReplayCache::check.
Check(seq) ==
  \/ ~initialized
  \/ seq > highest_seq
  \/ /\ highest_seq - seq < WindowSize
     /\ Slot(seq) \notin window_bitmap

-----------------------------------------------------------------------------

CacheInit ==
  /\ initialized = FALSE
  /\ highest_seq = 0
  /\ window_bitmap = {}
  /\ accepted = {}
  /\ answer = <<>>
  /\ looping = FALSE

Accept(seq, bitmap) ==
  /\ window_bitmap' = bitmap \cup {Slot(seq)}
  /\ accepted' = accepted \cup {seq}
  /\ answer' = <<seq, "accepted">>
  /\ UNCHANGED looping

\* ReplayCache::update_and_check, the first call.
UpdateFirst(seq) ==
  /\ ~looping
  /\ ~initialized
  /\ initialized' = TRUE
  /\ highest_seq' = seq
  /\ Accept(seq, window_bitmap)

\* A number above the highest moves the window.  The loop that clears slots
\* ends when s, which it counts up, is above seq.
UpdateAbove(seq) ==
  /\ ~looping
  /\ initialized
  /\ seq > highest_seq
  /\ seq < MaxSeq \/ seq - highest_seq >= WindowSize
  /\ highest_seq' = seq
  /\ Accept(seq, Moved(seq))
  /\ UNCHANGED initialized

\* No value of the type is above MaxSeq: s wraps to 0 and the loop goes on.
UpdateAboveLoops(seq) ==
  /\ ~looping
  /\ initialized
  /\ seq > highest_seq
  /\ seq = MaxSeq /\ seq - highest_seq < WindowSize
  /\ looping' = TRUE
  /\ window_bitmap' = {}
  /\ UNCHANGED <<initialized, highest_seq, accepted, answer>>

\* A number in the window whose slot is free.
UpdateWithin(seq) ==
  /\ ~looping
  /\ initialized
  /\ seq <= highest_seq
  /\ highest_seq - seq < WindowSize
  /\ Slot(seq) \notin window_bitmap
  /\ Accept(seq, window_bitmap)
  /\ UNCHANGED <<initialized, highest_seq>>

\* A number that is behind the window, or whose slot is taken.
UpdateRejects(seq) ==
  /\ ~looping
  /\ initialized
  /\ seq <= highest_seq
  /\ highest_seq - seq >= WindowSize \/ Slot(seq) \in window_bitmap
  /\ answer' = <<seq, "rejected">>
  /\ UNCHANGED <<initialized, highest_seq, window_bitmap, accepted, looping>>

\* ReplayCache::reset.
Reset ==
  /\ ~looping
  /\ initialized' = FALSE
  /\ highest_seq' = 0
  /\ window_bitmap' = {}
  /\ accepted' = {}
  /\ answer' = <<>>
  /\ UNCHANGED looping

Update(seq) ==
  \/ UpdateFirst(seq)
  \/ UpdateAbove(seq)
  \/ UpdateAboveLoops(seq)
  \/ UpdateWithin(seq)
  \/ UpdateRejects(seq)

\* A call that loops holds the mutex: no other call gets through.
CacheNext == Reset \/ \E seq \in Seqs : Update(seq)

CacheSpec == CacheInit /\ [][CacheNext]_cacheVars

-----------------------------------------------------------------------------

\* The types of the variables.
TypeOK ==
  /\ initialized \in BOOLEAN
  /\ highest_seq \in Seqs
  /\ window_bitmap \in SUBSET Slots
  /\ accepted \in SUBSET Seqs
  /\ answer \in (Seqs \X {"accepted", "rejected"}) \cup {<<>>}
  /\ looping \in BOOLEAN

\* The bitmap is the window of the accepted numbers: a slot is set exactly
\* when the number of the window that falls on it was accepted.
BitmapMatches ==
  ~looping =>
    /\ initialized <=> accepted # {}
    /\ \A s \in accepted : s <= highest_seq
    /\ initialized => highest_seq \in accepted
    /\ \A s \in 0..highest_seq :
         highest_seq - s < WindowSize => (Slot(s) \in window_bitmap <=> s \in accepted)

\* The bitmap and the highest number do what the set of all accepted numbers
\* would: update_and_check accepts a number once, and exactly the numbers
\* that are less than a window behind the highest.
Filter == INSTANCE SeqFilter WITH Window <- WindowSize
FilterSpec == Filter!FilterSpec

\* check(seq) foretells the answer of update_and_check(seq).
CheckForetells ==
  [][\A seq \in Seqs : Update(seq) /\ ~looping' =>
       (Check(seq) <=> answer' = <<seq, "accepted">>)]_cacheVars

=============================================================================
