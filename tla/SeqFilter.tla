------------------------------ MODULE SeqFilter ------------------------------
(***************************************************************************)
(* What the replay protection of a session promises, without a bitmap: a   *)
(* sequence number is accepted once, and only while it is less than a      *)
(* window behind the highest that was accepted.                            *)
(***************************************************************************)
EXTENDS Integers

CONSTANTS
  Window,    \* the size of the window
  Seqs       \* the sequence numbers that may arrive

VARIABLES
  accepted,  \* the numbers that were accepted since the last reset
  answer     \* the last call: its number and its answer

filterVars == <<accepted, answer>>

\* The numbers that are new: behind no accepted number by a window or more.
Fresh(seq) == seq \notin accepted /\ \A s \in accepted : s - seq < Window

FilterInit == accepted = {} /\ answer = <<>>

FilterAccept(seq) ==
  /\ Fresh(seq)
  /\ accepted' = accepted \cup {seq}
  /\ answer' = <<seq, "accepted">>

FilterReject(seq) ==
  /\ ~Fresh(seq)
  /\ answer' = <<seq, "rejected">>
  /\ UNCHANGED accepted

FilterReset == accepted' = {} /\ answer' = <<>>

FilterNext ==
  \/ \E seq \in Seqs : FilterAccept(seq) \/ FilterReject(seq)
  \/ FilterReset

FilterSpec == FilterInit /\ [][FilterNext]_filterVars

=============================================================================
