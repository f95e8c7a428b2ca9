------------------------------- MODULE KeyFile -------------------------------
(***************************************************************************)
(* The identity of a node on disk: Keypair::load, save and                 *)
(* load_or_generate (src/src/identity/keypair.cpp), with a process that    *)
(* may die between any two steps and files that may fail to be read or     *)
(* written.                                                                *)
(*                                                                         *)
(* A key pair is a number, the same for its public and its secret key.  A  *)
(* file is absent, truncated or holds a key.  `at' is where the program is *)
(* in load_or_generate, and "node" beyond it.                              *)
(***************************************************************************)
EXTENDS Integers

CONSTANT MaxKeys   \* bound on the key pairs that are generated

ASSUME MaxKeysAssumption == MaxKeys \in Nat

Absent == -2
Truncated == -1
NoKey == 0

VARIABLES
  at,         \* where load_or_generate is, "off" without a process
  pub, sec,   \* identity.pub and identity.key
  mypub, mysec,  \* keypair_
  generated,  \* the key pairs generated so far
  faulty,     \* history: whether a file could not be read or written
  used        \* history: the first identity that the node came up with

files == <<pub, sec>>
keyvars == <<at, files, mypub, mysec, generated, faulty, used>>

KeyInit ==
  /\ at = "off"
  /\ pub = Absent
  /\ sec = Absent
  /\ mypub = NoKey
  /\ mysec = NoKey
  /\ generated = 0
  /\ faulty = FALSE
  /\ used = NoKey

\* The node goes on with the key pair p, s.
ComeUp(p, s) ==
  /\ at' = "node"
  /\ mypub' = p
  /\ mysec' = s
  /\ used' = IF used = NoKey THEN p ELSE used

Boot ==
  /\ at = "off"
  /\ at' = "load"
  /\ UNCHANGED <<files, mypub, mysec, generated, faulty, used>>

\* Mutant: the two files are not compared.
LoadUnchecked ==
  /\ at = "load"
  /\ pub > NoKey /\ sec > NoKey
  /\ ComeUp(pub, sec)
  /\ UNCHANGED <<files, generated, faulty>>

\* Keypair::load with two whole files that match.
Load ==
  /\ at = "load"
  /\ pub > NoKey /\ sec > NoKey
  /\ pub = sec
  /\ ComeUp(pub, sec)
  /\ UNCHANGED <<files, generated, faulty>>

\* Keypair::load fails and load_or_generate generates: a file is missing,
\* short or does not match the other.
Generate ==
  /\ at = "load"
  /\ ~(pub > NoKey /\ sec > NoKey /\ pub = sec)
  /\ generated < MaxKeys
  /\ generated' = generated + 1
  /\ at' = "openPub"
  /\ UNCHANGED <<files, mypub, mysec, faulty, used>>

\* The same, with files that are there but cannot be read.
LoadFails ==
  /\ at = "load"
  /\ pub # Absent /\ sec # Absent
  /\ generated < MaxKeys
  /\ generated' = generated + 1
  /\ at' = "openPub"
  /\ faulty' = TRUE
  /\ UNCHANGED <<files, mypub, mysec, used>>

\* Keypair::save opens and truncates a file, writes it, and does the same
\* with the other.
OpenPub ==
  /\ at = "openPub"
  /\ pub' = Truncated
  /\ at' = "writePub"
  /\ UNCHANGED <<sec, mypub, mysec, generated, faulty, used>>

WritePub ==
  /\ at = "writePub"
  /\ pub' = generated
  /\ at' = "openKey"
  /\ UNCHANGED <<sec, mypub, mysec, generated, faulty, used>>

OpenKey ==
  /\ at = "openKey"
  /\ sec' = Truncated
  /\ at' = "writeKey"
  /\ UNCHANGED <<pub, mypub, mysec, generated, faulty, used>>

\* Mutant: the secret key is not flushed before the node goes on.
WriteKeyLater ==
  /\ at = "writeKey"
  /\ ComeUp(generated, generated)
  /\ UNCHANGED <<files, generated, faulty>>

WriteKey ==
  /\ at = "writeKey"
  /\ sec' = generated
  /\ ComeUp(generated, generated)
  /\ UNCHANGED <<pub, generated, faulty>>

\* A write that fails is not noticed: the file stays as it is.
KeyWriteFails ==
  /\ \/ at = "writePub" /\ at' = "openKey" /\ UNCHANGED <<mypub, mysec, used>>
     \/ at = "writeKey" /\ ComeUp(generated, generated)
  /\ faulty' = TRUE
  /\ UNCHANGED <<files, generated>>

\* A file that cannot be opened makes save throw, and the program ends.
OpenFails ==
  /\ at \in {"openPub", "openKey"}
  /\ at' = "off"
  /\ faulty' = TRUE
  /\ UNCHANGED <<files, mypub, mysec, generated, used>>

\* The process ends or dies, wherever it is.
Die ==
  /\ at # "off"
  /\ at' = "off"
  /\ mypub' = NoKey
  /\ mysec' = NoKey
  /\ UNCHANGED <<files, generated, faulty, used>>

KeyNext ==
  \/ Load
  \/ Generate
  \/ LoadFails
  \/ OpenPub
  \/ WritePub
  \/ OpenKey
  \/ WriteKey
  \/ KeyWriteFails
  \/ OpenFails

-----------------------------------------------------------------------------

\* "Each node has a persistent Ed25519 keypair: Created once at first startup"
\* (src/src/identity/keypair.hpp:5): as long as no file fails to be read or
\* written, the node always comes up with the identity it had first, however
\* often and wherever the process dies.
IdentityKept == at = "node" /\ ~faulty => mypub = used

\* The node never works with the public key of one pair and the secret key of
\* another, even when a process dies between the two writes that replace an
\* older pair, or when a write fails.
PairMatches == at = "node" => mypub = mysec

=============================================================================
