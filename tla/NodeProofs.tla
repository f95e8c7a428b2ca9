----------------------------- MODULE NodeProofs -----------------------------
(***************************************************************************)
(* Proofs about the program around the protocols: its key files and its    *)
(* life, and its connections.                                              *)
(*                                                                         *)
(* NodeLife, for any number of key pairs and connections: the identity of  *)
(* a node survives crashes, its two keys match, and closing the listener   *)
(* lets at most one more connection in.                                    *)
(*                                                                         *)
(* TcpConnection, for any frames and any split of the stream into reads    *)
(* and writes: frames come out whole and in order, and nothing that was    *)
(* sent is left in a queue nobody works on.                                *)
(***************************************************************************)
EXTENDS NodeLife, TcpConnection, TLAPS

\* The backends, in the order in which a leaf is given to them.
USE ZenonT(2), SMTT(10), ZenonT(20), SMTT(40)

-----------------------------------------------------------------------------
\* NodeLife and KeyFile

Places == {"off", "load", "openPub", "writePub", "openKey", "writeKey", "node"}

\* The program writes the files.
Saving == at \in {"openPub", "writePub", "openKey", "writeKey"}

KeyTypeOK ==
  /\ at \in Places
  /\ pub \in Int /\ sec \in Int /\ mypub \in Int /\ mysec \in Int
  /\ used \in Nat
  /\ generated \in Nat
  /\ Saving => generated > 0

\* Without a fault the files hold the identity in use from the moment that
\* there is one, and are not written again.
Kept ==
  ~faulty =>
    /\ used # NoKey => pub = used /\ sec = used /\ ~Saving
    /\ at = "node" => used # NoKey /\ mypub = used
    /\ at \in {"openKey", "writeKey"} => pub = generated

KeyInv == KeyTypeOK /\ Kept /\ PairMatches

\* What an end of the process keeps of the invariant.
LEMMA DieKeeps == KeyInv /\ Die => KeyInv'
BY DEF KeyInv, KeyTypeOK, Kept, PairMatches, Die, Places, Saving, files, NoKey

\* The steps of Boot and load_or_generate keep the invariant.
LEMMA KeyStep == KeyInv /\ (Boot \/ KeyNext) => KeyInv'
<1> SUFFICES ASSUME KeyInv, Boot \/ KeyNext PROVE KeyInv'
  OBVIOUS
<1> USE DEF KeyInv, KeyTypeOK, Kept, PairMatches, Places, Saving, files, NoKey
<1>1. CASE Boot
  BY <1>1 DEF Boot
<1>2. CASE Load
  BY <1>2 DEF Load, ComeUp
<1>3. CASE Generate
  BY <1>3 DEF Generate
<1>4. CASE LoadFails
  BY <1>4 DEF LoadFails
<1>5. CASE OpenPub
  BY <1>5 DEF OpenPub, Truncated
<1>6. CASE WritePub
  BY <1>6 DEF WritePub
<1>7. CASE OpenKey
  BY <1>7 DEF OpenKey, Truncated
<1>8. CASE WriteKey
  BY <1>8 DEF WriteKey, ComeUp
<1>9. CASE KeyWriteFails
  BY <1>9 DEF KeyWriteFails, ComeUp
<1>10. CASE OpenFails
  BY <1>10 DEF OpenFails
<1> QED
  BY <1>1, <1>2, <1>3, <1>4, <1>5, <1>6, <1>7, <1>8, <1>9, <1>10 DEF KeyNext

\* The steps that leave the identity alone.
LEMMA KeyFrame == KeyInv /\ UNCHANGED keyvars => KeyInv'
BY DEF KeyInv, KeyTypeOK, Kept, PairMatches, Places, Saving, keyvars, files

\* A step of the program is one of the identity, an end, or leaves it alone.
LEMMA Steps ==
  [NodeNext]_nodeVars => (Boot \/ KeyNext) \/ Die \/ UNCHANGED keyvars
<1> SUFFICES ASSUME [NodeNext]_nodeVars PROVE (Boot \/ KeyNext) \/ Die \/ UNCHANGED keyvars
  OBVIOUS
<1>1. CASE Main
  BY <1>1 DEF Main, Identity, Listen, Connect, Accepted, Disconnect, Enter, Run,
     AcceptFails, CheckRunning, AsyncAccept, LookUp, Lock, Unlock, RunReturns, End
<1>2. CASE PeerConnects \/ AcceptError \/ DurationExpires \/ Signal \/ Crash
  BY <1>2 DEF PeerConnects, AcceptError, DurationExpires, Signal, Crash
<1>3. CASE \E s \in Stoppers : Stop(s)
  BY <1>3 DEF Stop, StopRunning, StopAcceptor, StopLocks, StopTakes, StopCloses,
     StopErases, StopErased, StopLoop
<1>4. CASE UNCHANGED nodeVars
  BY <1>4 DEF nodeVars
<1> QED
  BY <1>1, <1>2, <1>3, <1>4 DEF NodeNext

\* The invariant of the identity, in every state of the program.
LEMMA KeyInvariant == NodeSpec => []KeyInv
<1>1. NodeInit => KeyInv
  BY DEF NodeInit, KeyInit, KeyInv, KeyTypeOK, Kept, PairMatches, Places, Saving,
     NoKey, Absent
<1>2. KeyInv /\ [NodeNext]_nodeVars => KeyInv'
  BY Steps, KeyStep, DieKeeps, KeyFrame
<1> QED
  BY <1>1, <1>2, PTL DEF NodeSpec

\* Keypair::load_or_generate gives the node the identity it had first, as long
\* as no file fails to be read or written, wherever its processes died.
THEOREM IdentityCorrect == NodeSpec => []IdentityKept
<1>1. KeyInv => IdentityKept
  BY DEF KeyInv, Kept, IdentityKept
<1> QED
  BY <1>1, KeyInvariant, PTL

\* Keypair::load_or_generate never gives the node a public key and a secret
\* key of two pairs.
THEOREM PairCorrect == NodeSpec => []PairMatches
<1>1. KeyInv => PairMatches
  BY DEF KeyInv
<1> QED
  BY <1>1, KeyInvariant, PTL

-----------------------------------------------------------------------------

\* The main thread is between the handler of an accept and its do_accept.
Between ==
  \/ pc \in {"check", "accept"}
  \/ pc \in {"lock", "unlock"} /\ task.then = "check"

\* There is one accept at a time, and after a late one there is none, nor will
\* there be: running_ is not set again.
OneAccept ==
  /\ Between => accept = "none"
  /\ pc \in {"lock", "unlock"} => task.then \in {"bootstrap", "loop", "check"}
  /\ at # "node" => pc = "none"
  /\ pc \in {"none", "listen"} => acceptor = "none" /\ accept = "none"
  /\ late # {} =>
       /\ ~running /\ pc \notin {"none", "listen", "accept"}
       /\ accept \in {"none", "failed"}
  /\ AtMostOneLate

\* The steps of the main thread keep it.
LEMMA MainKeeps == OneAccept /\ Main => OneAccept'
<1> SUFFICES ASSUME OneAccept, Main PROVE OneAccept'
  OBVIOUS
<1> USE DEF OneAccept, AtMostOneLate, Between, mainvars, listener, lists, stopvars
<1>1. CASE Identity
  <2>1. at # "node"
    BY <1>1 DEF Identity, Boot, KeyNext, Load, Generate, LoadFails, OpenPub,
       WritePub, OpenKey, WriteKey, KeyWriteFails, OpenFails
  <2> QED
    BY <1>1, <2>1 DEF Identity
<1>2. CASE Listen
  BY <1>2 DEF Listen, keyvars
<1>3. ASSUME NEW c \in Conns, Connect(c) PROVE OneAccept'
  BY <1>3 DEF Connect, Enter, keyvars
<1>4. ASSUME NEW c \in Conns, Accepted(c) PROVE OneAccept'
  <2>1. late = {}
    BY <1>4 DEF Accepted
  <2>2. late' = {} \/ (late' = {c} /\ ~running)
    BY <1>4, <2>1 DEF Accepted
  <2> QED
    BY <1>4, <2>2 DEF Accepted, Enter, keyvars
<1>5. ASSUME NEW c \in Conns, Disconnect(c) PROVE OneAccept'
  BY <1>5 DEF Disconnect, Enter, keyvars
<1>6. CASE Run
  BY <1>6 DEF Run, keyvars
<1>7. CASE AcceptFails
  BY <1>7 DEF AcceptFails, keyvars
<1>8. CASE CheckRunning
  BY <1>8 DEF CheckRunning, keyvars
<1>9. CASE AsyncAccept
  BY <1>9 DEF AsyncAccept, keyvars
<1>10. CASE LookUp
  BY <1>10 DEF LookUp, Enter, keyvars
<1>11. CASE Lock
  BY <1>11 DEF Lock, keyvars
<1>12. CASE Unlock
  BY <1>12 DEF Unlock, keyvars
<1>13. CASE RunReturns
  BY <1>13 DEF RunReturns, keyvars
<1>14. CASE End
  BY <1>14 DEF End, Gone, Die
<1> QED
  BY <1>1, <1>2, <1>3, <1>4, <1>5, <1>6, <1>7, <1>8, <1>9, <1>10, <1>11, <1>12,
     <1>13, <1>14 DEF Main

\* The steps of stop, of the peers and of the crash keep it.
LEMMA OthersKeep ==
  /\ OneAccept
  /\ \/ PeerConnects \/ AcceptError \/ DurationExpires \/ Signal \/ Crash
     \/ \E s \in Stoppers : Stop(s)
     \/ UNCHANGED nodeVars
  => OneAccept'
<1> SUFFICES ASSUME OneAccept,
                    \/ PeerConnects \/ AcceptError \/ DurationExpires \/ Signal \/ Crash
                    \/ \E s \in Stoppers : Stop(s)
                    \/ UNCHANGED nodeVars
             PROVE  OneAccept'
  OBVIOUS
<1> USE DEF OneAccept, AtMostOneLate, Between, mainvars, listener, lists, stopvars, keyvars
<1>1. CASE PeerConnects \/ AcceptError
  BY <1>1 DEF PeerConnects, AcceptError
<1>2. CASE DurationExpires \/ Signal
  BY SMTT(30), <1>2 DEF DurationExpires, Signal
<1>3. CASE Crash
  BY <1>3 DEF Crash, Gone, Die
<1>4. ASSUME NEW s \in Stoppers, Stop(s) PROVE OneAccept'
  <2>1. CASE StopRunning(s)
    BY <2>1 DEF StopRunning
  <2>2. CASE StopAcceptor(s)
    BY <2>2 DEF StopAcceptor
  <2>3. CASE StopLocks(s) \/ StopTakes(s) \/ StopErases(s) \/ StopErased(s)
    BY SMTT(30), <2>3 DEF StopLocks, StopTakes, StopErases, StopErased
  <2>4. CASE (\E c \in Conns : StopCloses(s, c)) \/ StopLoop(s)
    BY SMTT(30), <2>4 DEF StopCloses, StopLoop
  <2> QED
    BY <1>4, <2>1, <2>2, <2>3, <2>4 DEF Stop
<1>5. CASE UNCHANGED nodeVars
  BY <1>5 DEF nodeVars, lifevars
<1> QED
  BY <1>1, <1>2, <1>3, <1>4, <1>5

\* TcpListener::stop, called from another thread or from a signal handler while
\* the accept loop runs, lets at most one more connection in.
THEOREM LateCorrect == NodeSpec => []AtMostOneLate
<1>1. NodeInit => OneAccept
  BY DEF NodeInit, KeyInit, LifeInit, OneAccept, AtMostOneLate, Between
<1>2. OneAccept /\ [NodeNext]_nodeVars => OneAccept'
  BY MainKeeps, OthersKeep DEF NodeNext
<1>3. OneAccept => AtMostOneLate
  BY DEF OneAccept
<1> QED
  BY <1>1, <1>2, <1>3, PTL DEF NodeSpec

-----------------------------------------------------------------------------
\* TcpConnection and FrameParser

\* A byte of the stream, as FrameParser marks it.
Byte == [frame : Nat, pos : Nat, header : Frame]

\* The bytes that were sent and are in no frame that was delivered.
Stream == buffer \o incoming

\* The bytes of a frame.
Total(f) == HeaderSize + f.length

\* Every byte of s is one of a frame in sent.
Labelled(s, all) ==
  \A i \in 1..Len(s) :
    /\ s[i].frame \in 1..Len(all)
    /\ s[i].header = all[s[i].frame]
    /\ s[i].pos \in 1..Total(s[i].header)

\* Two bytes of one frame are as far apart as their positions are; bytes of
\* two frames have the rest of the first and the start of the second between
\* them.
Spaced(s) ==
  \A i, j \in 1..Len(s) : i < j =>
    \/ s[i].frame = s[j].frame /\ s[j].pos - s[i].pos = j - i
    \/ /\ s[i].frame < s[j].frame
       /\ j - i >= (Total(s[i].header) - s[i].pos) + s[j].pos

\* After the last byte of a frame comes the first one of the next.
Chained(s) ==
  \A i \in 1..(Len(s) - 1) :
    s[i].pos = Total(s[i].header) =>
      s[i + 1].frame = s[i].frame + 1 /\ s[i + 1].pos = 1

\* s starts with frame n.
StartsAt(s, n) == s # <<>> => s[1].frame = n /\ s[1].pos = 1

Contiguous(s, all, n) == Labelled(s, all) /\ Spaced(s) /\ Chained(s) /\ StartsAt(s, n)

\* s ends with the last of the frames, whole.
Complete(s, all, n) ==
  IF s = <<>> THEN n = Len(all) + 1
  ELSE s[Len(s)].frame = Len(all) /\ s[Len(s)].pos = Total(s[Len(s)].header)

\* The types of what a read touches.
StreamTypeOK ==
  /\ script \in Seq(Frame)
  /\ incoming \in Seq(Byte) /\ buffer \in Seq(Byte)
  /\ delivered \in Seq(Seq(Byte))
  /\ peerOpen \in BOOLEAN /\ is_open \in BOOLEAN
  /\ read \in {"none", "pending", "queued", "processing"}

\* The parser stands at the start of a frame, until a protocol error has
\* closed the connection.
Aligned ==
  is_open \/ read \in {"queued", "processing"} =>
    /\ Contiguous(Stream, script, Len(delivered) + 1)
    /\ peerOpen => Complete(Stream, script, Len(delivered) + 1)

\* process_incoming is left when no frame is complete.
Drained ==
  read = "pending" /\ is_open =>
    NextFrame(buffer).kind \in {"IncompleteHeader", "IncompletePayload"}

\* The inductive invariant of the stream.
StreamInv == StreamTypeOK /\ Aligned /\ Drained /\ FramesIntact


(***************************************************************************)
(* The write queue and the registration.                                   *)
(***************************************************************************)

\* The types of what a write touches.
WriteTypeOK ==
  /\ write_queue \in Seq(Nat) /\ written \in Seq(Nat)
  /\ writing \in BOOLEAN /\ writes \in Nat /\ sent \in Nat

\* Frame i is the i-th one that was queued.
Numbered ==
  /\ \A i \in 1..Len(written) : written[i] = i
  /\ \A i \in 1..Len(write_queue) : write_queue[i] = Len(written) + i

\* writing_ is set exactly while the queue has a frame; only then is a write
\* running; and while the socket is open every frame given to send() was queued.
WriteInv ==
  /\ WriteTypeOK
  /\ Numbered
  /\ writing <=> write_queue # <<>>
  /\ writes <= 1
  /\ writes = 1 => writing
  /\ is_open /\ peerOpen /\ writing => writes = 1
  /\ is_open => Len(written) + Len(write_queue) = sent

\* send() keeps the invariant, and leaves the socket as it is.
LEMMA SendKeepsQueue ==
  ASSUME WriteInv, Send, is_open' = is_open, peerOpen' = peerOpen
  PROVE  WriteInv'
<1>1. CASE is_open
  <2>1. /\ sent' = sent + 1 /\ written' = written
        /\ write_queue' = Append(write_queue, sent + 1)
        /\ writing' = TRUE
        /\ writes' = IF writing THEN writes ELSE writes + 1
    BY <1>1 DEF Send
  <2>2. Len(write_queue') = Len(write_queue) + 1
    BY <2>1 DEF WriteInv, WriteTypeOK
  <2>3. \A i \in 1..Len(write_queue) : write_queue'[i] = write_queue[i]
    BY <2>1 DEF WriteInv, WriteTypeOK
  <2>4. write_queue'[Len(write_queue) + 1] = sent + 1
    BY <2>1 DEF WriteInv, WriteTypeOK
  <2>5. WriteTypeOK'
    BY <2>1 DEF WriteInv, WriteTypeOK
  <2>6. Numbered'
    <3>1. \A i \in 1..Len(written') : written'[i] = i
      BY <2>1 DEF WriteInv, Numbered
    <3>2. ASSUME NEW i \in 1..Len(write_queue')
          PROVE  write_queue'[i] = Len(written') + i
      <4>1. CASE i = Len(write_queue) + 1
        <5>1. sent + 1 = Len(written) + (Len(write_queue) + 1)
          BY <1>1 DEF WriteInv, WriteTypeOK
        <5> QED  BY <4>1, <5>1, <2>1, <2>4
      <4>2. CASE i # Len(write_queue) + 1
        <5>1. i \in 1..Len(write_queue)
          BY <4>2, <2>2 DEF WriteInv, WriteTypeOK
        <5> QED  BY <5>1, <2>1, <2>3 DEF WriteInv, Numbered
      <4> QED  BY <4>1, <4>2
    <3> QED  BY <3>1, <3>2 DEF Numbered
  <2>7. write_queue' # <<>>
    BY <2>2, <2>5 DEF WriteInv, WriteTypeOK
  <2>8. writes' <= 1 /\ (peerOpen => writes' = 1)
    <3>1. CASE writing
      BY <3>1, <2>1, <1>1 DEF WriteInv
    <3>2. CASE ~writing
      <4>1. writes = 0
        BY <3>2 DEF WriteInv, WriteTypeOK
      <4> QED  BY <4>1, <3>2, <2>1
    <3> QED  BY <3>1, <3>2
  <2>9. Len(written') + Len(write_queue') = sent'
    BY <2>1, <2>2, <1>1 DEF WriteInv, WriteTypeOK
  <2> QED  BY <2>1, <2>5, <2>6, <2>7, <2>8, <2>9 DEF WriteInv
<1>2. CASE ~is_open
  <2>1. /\ written' = written /\ write_queue' = write_queue
        /\ writing' = writing /\ writes' = writes /\ sent' = sent + 1
    BY <1>2 DEF Send
  <2>2. WriteTypeOK' /\ Numbered'
    BY SMTT(30), <2>1 DEF WriteInv, WriteTypeOK, Numbered
  <2> QED  BY <1>2, <2>1, <2>2 DEF WriteInv
<1> QED  BY <1>1, <1>2

\* A step that leaves the queue alone keeps the invariant, whatever it closes.
LEMMA QueueAlone ==
  ASSUME WriteInv, UNCHANGED writeVars, is_open' => is_open, peerOpen' => peerOpen
  PROVE  WriteInv'
<1>1. /\ written' = written /\ write_queue' = write_queue
      /\ writing' = writing /\ writes' = writes /\ sent' = sent
  BY DEF writeVars
<1>2. WriteTypeOK' /\ Numbered'
  BY <1>1 DEF WriteInv, WriteTypeOK, Numbered
<1> QED  BY <1>1, <1>2 DEF WriteInv

\* The write handler pops the frame that was written, and no other.
LEMMA WriteCompletesKeepsQueue ==
  ASSUME WriteInv, WriteCompletes
  PROVE  WriteInv'
<1>1. /\ writes > 0 /\ is_open
      /\ written' = Append(written, Head(write_queue))
      /\ write_queue' = Tail(write_queue)
      /\ writing' = (write_queue' # <<>>)
      /\ writes' = IF write_queue' # <<>> THEN writes ELSE writes - 1
      /\ sent' = sent /\ is_open' = is_open /\ peerOpen' = peerOpen
  BY DEF WriteCompletes, readVars
<1>2. writes = 1 /\ write_queue # <<>>
  <2>1. writes \in Nat /\ writes <= 1
    BY DEF WriteInv, WriteTypeOK
  <2>2. writes = 1
    BY <2>1, <1>1
  <2> QED  BY <2>2 DEF WriteInv
<1>3. Len(write_queue) >= 1 /\ Len(write_queue') = Len(write_queue) - 1
  BY <1>1, <1>2 DEF WriteInv, WriteTypeOK
<1>4. \A i \in 1..Len(write_queue') : write_queue'[i] = write_queue[i + 1]
  BY <1>1, <1>2 DEF WriteInv, WriteTypeOK
<1>5. Head(write_queue) = write_queue[1] /\ write_queue[1] = Len(written) + 1
  BY SMTT(30), <1>3 DEF WriteInv, WriteTypeOK, Numbered
<1>6. Len(written') = Len(written) + 1
  BY <1>1, <1>5 DEF WriteInv, WriteTypeOK
<1>7. WriteTypeOK'
  BY <1>1, <1>2, <1>5 DEF WriteInv, WriteTypeOK
<1>8. Numbered'
  <2>1. ASSUME NEW i \in 1..Len(written')
        PROVE  written'[i] = i
    <3>1. CASE i = Len(written) + 1
      BY <3>1, <1>1, <1>5 DEF WriteInv, WriteTypeOK
    <3>2. CASE i # Len(written) + 1
      <4>1. i \in 1..Len(written)
        BY <3>2, <1>6 DEF WriteInv, WriteTypeOK
      <4>2. written'[i] = written[i]
        BY <4>1, <1>1 DEF WriteInv, WriteTypeOK
      <4> QED  BY <4>1, <4>2 DEF WriteInv, Numbered
    <3> QED  BY <3>1, <3>2
  <2>2. ASSUME NEW i \in 1..Len(write_queue')
        PROVE  write_queue'[i] = Len(written') + i
    <3>1. i + 1 \in 1..Len(write_queue)
      BY <1>3 DEF WriteInv, WriteTypeOK
    <3>2. write_queue[i + 1] = Len(written) + (i + 1)
      BY <3>1 DEF WriteInv, Numbered
    <3> QED  BY SMTT(30), <3>2, <1>4, <1>6 DEF WriteInv, WriteTypeOK
  <2> QED  BY <2>1, <2>2 DEF Numbered
<1>9. Len(written') + Len(write_queue') = sent'
  <2>1. Len(written) + Len(write_queue) = sent /\ sent' = sent
    BY <1>1 DEF WriteInv
  <2>2. Len(written) \in Nat /\ Len(write_queue) \in Nat
    BY DEF WriteInv, WriteTypeOK
  <2> QED  BY <2>1, <2>2, <1>3, <1>6
<1>10. writes' = IF write_queue' # <<>> THEN 1 ELSE 0
  BY <1>1, <1>2
<1>11. writes' <= 1 /\ (writes' = 1 <=> write_queue' # <<>>)
  BY <1>10
<1>12. writing' <=> write_queue' # <<>>
  BY <1>1
<1> QED  BY <1>7, <1>8, <1>9, <1>11, <1>12 DEF WriteInv

\* Every step of the connection keeps the invariant of the write queue.
LEMMA StepKeepsQueue ==
  ASSUME WriteInv, [Next]_vars
  PROVE  WriteInv'
<1>1. CASE SendFrame
  BY <1>1, SendKeepsQueue DEF SendFrame, readVars
<1>2. ASSUME NEW n \in 1..Len(incoming), ReadSome(n)
      PROVE  WriteInv'
  BY <1>2, QueueAlone DEF ReadSome
<1>2a. CASE ReadHandler
  BY <1>2a, QueueAlone DEF ReadHandler
<1>3. CASE ProcessFrame
  <2>1. peerOpen' = peerOpen
    BY <1>3 DEF ProcessFrame
  <2>2. \/ UNCHANGED <<writeVars, timerVars, is_open, registered>>
        \/ Send /\ UNCHANGED <<is_open, registered>>
        \/ Close /\ UNCHANGED <<writeVars, timerVars>>
    BY <1>3 DEF ProcessFrame
  <2>3. CASE UNCHANGED writeVars /\ (is_open' => is_open)
    BY <2>1, <2>3, QueueAlone
  <2>4. CASE Send /\ is_open' = is_open
    BY <2>1, <2>4, SendKeepsQueue
  <2>5. Close => (is_open' => is_open)
    BY DEF Close
  <2> QED  BY <2>2, <2>3, <2>4, <2>5
<1>4. CASE ProcessError
  BY <1>4, QueueAlone DEF ProcessError, Close
<1>5. CASE ProcessDone
  BY <1>5, QueueAlone DEF ProcessDone
<1>6. CASE ReadFails
  BY <1>6, QueueAlone DEF ReadFails, Disconnected
<1>7. CASE WriteCompletes
  BY <1>7, WriteCompletesKeepsQueue
<1>8. CASE WriteFails
  <2>1. /\ written' = written /\ write_queue' = write_queue
        /\ writing' = writing /\ sent' = sent /\ writes' = writes - 1 /\ writes > 0
        /\ is_open' = is_open /\ peerOpen' = peerOpen /\ ~(is_open /\ peerOpen)
    BY <1>8 DEF WriteFails, Disconnected, readVars
  <2>2. writes' = 0
    BY <2>1 DEF WriteInv, WriteTypeOK
  <2>3. WriteTypeOK' /\ Numbered'
    BY <2>1, <2>2 DEF WriteInv, WriteTypeOK, Numbered
  <2>4. writes' <= 1 /\ writes' # 1
    BY <2>2
  <2> QED  BY <2>1, <2>3, <2>4 DEF WriteInv
<1>9. CASE TimerExpires
  BY <1>9, QueueAlone DEF TimerExpires, readVars
<1>10. CASE TimerFires
  BY <1>10, QueueAlone DEF TimerFires, readVars, Close
<1>11. CASE CloseOutside
  BY <1>11, QueueAlone DEF CloseOutside, readVars, Close
<1>12. ASSUME NEW f \in Frames, PeerSends(f)
       PROVE  WriteInv'
  BY <1>12, QueueAlone DEF PeerSends
<1>13. CASE PeerCloses
  BY <1>13, QueueAlone DEF PeerCloses
<1>14. CASE UNCHANGED vars
  BY <1>14, QueueAlone DEF vars, readVars
<1> QED
  BY <1>1, <1>2, <1>2a, <1>3, <1>4, <1>5, <1>6, <1>7, <1>8, <1>9, <1>10, <1>11, <1>12,
     <1>13, <1>14 DEF Next

\* The invariant says what the write queue promises.
LEMMA QueueInvImplies ==
  ASSUME WriteInv
  PROVE  WriteQueueServed
<1> DEFINE all == written \o write_queue
<1>1. Len(all) = Len(written) + Len(write_queue)
  BY DEF WriteInv, WriteTypeOK
<1>2. ASSUME NEW i \in 1..Len(all)
      PROVE  all[i] = i
  <2>1. CASE i <= Len(written)
    <3>1. i \in 1..Len(written) /\ all[i] = written[i]
      BY <2>1, <1>1 DEF WriteInv, WriteTypeOK
    <3> QED  BY <3>1 DEF WriteInv, Numbered
  <2>2. CASE i > Len(written)
    <3>1. /\ i - Len(written) \in 1..Len(write_queue)
          /\ all[i] = write_queue[i - Len(written)]
      BY <2>2, <1>1 DEF WriteInv, WriteTypeOK
    <3>2. write_queue[i - Len(written)] = Len(written) + (i - Len(written))
      BY <3>1 DEF WriteInv, Numbered
    <3> HIDE DEF all
    <3> QED  BY <3>1, <3>2, <1>1 DEF WriteInv, WriteTypeOK
  <2>3. i <= Len(written) \/ i > Len(written)
    BY <1>1 DEF WriteInv, WriteTypeOK
  <2> QED  BY <2>1, <2>2, <2>3
<1>3. \A i \in 1..Len(all) : all[i] = i
  BY <1>2
<1> QED  BY <1>3 DEF WriteInv, WriteQueueServed

\* For any peer and any number of frames: frames leave in the order of send(),
\* one write at a time, and a queue that is not empty is being written.
THEOREM WriteQueueCorrect == Spec => []WriteQueueServed
<1>1. Init => WriteInv
  <2> SUFFICES ASSUME Init PROVE WriteInv
    OBVIOUS
  <2>1. /\ write_queue = <<>> /\ written = <<>> /\ writing = FALSE
        /\ writes = 0 /\ sent = 0
    BY DEF Init
  <2>2. WriteTypeOK /\ Numbered
    <3>1. Len(write_queue) = 0 /\ Len(written) = 0
      BY <2>1
    <3>2. WriteTypeOK
      <4>1. write_queue \in Seq(Nat) /\ written \in Seq(Nat)
        BY <2>1
      <4>2. writes \in Nat /\ sent \in Nat
        BY <2>1
      <4> QED  BY <4>1, <4>2, <2>1 DEF WriteTypeOK
    <3>3. 1..0 = {}
      OBVIOUS
    <3>4. Numbered
      BY <3>1, <3>3 DEF Numbered
    <3> QED  BY <3>2, <3>4
  <2>3. Len(written) + Len(write_queue) = sent /\ writes <= 1 /\ writes # 1
    BY <2>1
  <2> QED  BY <2>1, <2>2, <2>3 DEF WriteInv
<1> QED  BY <1>1, StepKeepsQueue, QueueInvImplies, PTL DEF Spec

\* A connection that connections_ holds is open and has a read that will end:
\* every path that closes the socket or ends the read loop takes it out.
THEOREM RegisteredCorrect == Spec => []RegisteredIsLive
<1>1. Init => RegisteredIsLive
  BY DEF Init, RegisteredIsLive
<1>2. RegisteredIsLive /\ [Next]_vars => RegisteredIsLive'
  <2> SUFFICES ASSUME RegisteredIsLive, [Next]_vars PROVE RegisteredIsLive'
    OBVIOUS
  <2> USE DEF RegisteredIsLive
  <2>1. CASE SendFrame
    BY <2>1 DEF SendFrame, readVars
  <2>2. ASSUME NEW n \in 1..Len(incoming), ReadSome(n)
        PROVE  RegisteredIsLive'
    BY <2>2 DEF ReadSome
  <2>2a. CASE ReadHandler
    BY <2>2a DEF ReadHandler
  <2>3. CASE ProcessFrame
    BY <2>3 DEF ProcessFrame, Close
  <2>4. CASE ProcessError
    BY <2>4 DEF ProcessError, Close
  <2>5. CASE ProcessDone
    BY <2>5 DEF ProcessDone
  <2>6. CASE ReadFails
    BY <2>6 DEF ReadFails, Disconnected
  <2>7. CASE WriteCompletes
    BY <2>7 DEF WriteCompletes, readVars
  <2>8. CASE WriteFails
    BY <2>8 DEF WriteFails, Disconnected
  <2>9. CASE TimerExpires
    BY <2>9 DEF TimerExpires, readVars
  <2>10. CASE TimerFires
    BY <2>10 DEF TimerFires, readVars, Close
  <2>11. CASE CloseOutside
    BY <2>11 DEF CloseOutside, Close
  <2>12. ASSUME NEW f \in Frames, PeerSends(f)
         PROVE  RegisteredIsLive'
    BY <2>12 DEF PeerSends
  <2>13. CASE PeerCloses
    BY <2>13 DEF PeerCloses
  <2>14. CASE UNCHANGED vars
    BY <2>14 DEF vars, readVars
  <2> QED
    BY <2>1, <2>2, <2>2a, <2>3, <2>4, <2>5, <2>6, <2>7, <2>8, <2>9, <2>10, <2>11, <2>12, <2>13,
       <2>14 DEF Next
<1> QED  BY <1>1, <1>2, PTL DEF Spec

(***************************************************************************)
(* The stream of bytes and the parser.                                     *)
(***************************************************************************)

\* The first bytes of a stream that is contiguous are contiguous: what has not
\* left a peer that closes is cut off at the end.
LEMMA ContiguousPrefix ==
  ASSUME NEW s \in Seq(Byte), NEW t \in Seq(Byte), NEW all \in Seq(Frame), NEW n \in Nat,
         Contiguous(s, all, n), Len(t) <= Len(s), \A i \in 1..Len(t) : t[i] = s[i]
  PROVE  Contiguous(t, all, n)
<1>1. \A i \in 1..Len(t) : i \in 1..Len(s)
  OBVIOUS
<1>2. Labelled(t, all)
  BY <1>1 DEF Contiguous, Labelled
<1>3. Spaced(t)
  BY <1>1 DEF Contiguous, Spaced
<1>4. Chained(t)
  <2> SUFFICES ASSUME NEW i \in 1..(Len(t) - 1), t[i].pos = Total(t[i].header)
               PROVE  t[i + 1].frame = t[i].frame + 1 /\ t[i + 1].pos = 1
    BY DEF Chained
  <2>1. i \in 1..Len(t) /\ i + 1 \in 1..Len(t) /\ i \in 1..(Len(s) - 1)
    OBVIOUS
  <2>2. t[i] = s[i] /\ t[i + 1] = s[i + 1]
    BY <2>1
  <2> QED  BY <2>1, <2>2 DEF Contiguous, Chained
<1>5. StartsAt(t, n)
  <2> SUFFICES ASSUME t # <<>> PROVE t[1].frame = n /\ t[1].pos = 1
    BY DEF StartsAt
  <2>1. 1 \in 1..Len(t) /\ s # <<>>
    OBVIOUS
  <2> QED  BY <2>1 DEF Contiguous, StartsAt
<1> QED  BY <1>2, <1>3, <1>4, <1>5 DEF Contiguous

\* The frame at the front: when the stream is at least as long as the header
\* there says, that many bytes are the frame.
LEMMA FrameInFront ==
  ASSUME NEW s \in Seq(Byte), NEW all \in Seq(Frame), NEW n \in Nat,
         Contiguous(s, all, n), s # <<>>
  PROVE  /\ n \in 1..Len(all)
         /\ s[1].header = all[n] /\ s[1].pos = 1 /\ all[n] \in Frame
         /\ \A i \in 1..Len(s) : i <= Total(all[n]) =>
              s[i] = [frame |-> n, pos |-> i, header |-> all[n]]
<1>1. 1 \in 1..Len(s)
  OBVIOUS
<1>2. s[1].frame = n /\ s[1].pos = 1
  BY DEF Contiguous, StartsAt
<1>3. n \in 1..Len(all) /\ s[1].header = all[n]
  BY <1>1, <1>2 DEF Contiguous, Labelled
<1>4. all[n] \in Frame
  BY <1>3
<1>5. ASSUME NEW i \in 1..Len(s), i <= Total(all[n])
      PROVE  s[i] = [frame |-> n, pos |-> i, header |-> all[n]]
  <2>1. s[i] \in Byte /\ s[i].pos >= 1 /\ s[i].pos \in Nat
    <3>1. s[i] \in Byte
      OBVIOUS
    <3>2. s[i].pos \in Nat
      BY <3>1 DEF Byte
    <3>3. s[i].pos >= 1
      BY DEF Contiguous, Labelled
    <3> QED  BY <3>1, <3>2, <3>3
  <2>2. s[i].frame = n /\ s[i].pos = i
    <3>1. CASE i = 1
      BY <3>1, <1>2
    <3>2. CASE i # 1
      <4>1. 1 < i
        BY <3>2
      <4>2. \/ s[1].frame = s[i].frame /\ s[i].pos - s[1].pos = i - 1
            \/ i - 1 >= (Total(s[1].header) - s[1].pos) + s[i].pos
        BY <1>1, <4>1 DEF Contiguous, Spaced
      <4>3. Total(all[n]) \in Nat
        BY SMTT(30), <1>4, ParserAssumption DEF Total, Frame
      <4>4. ~(i - 1 >= (Total(all[n]) - 1) + s[i].pos)
        BY <4>3, <2>1, <1>5
      <4>5. s[1].frame = s[i].frame /\ s[i].pos - s[1].pos = i - 1
        BY <4>2, <4>4, <1>2, <1>3
      <4> QED  BY <4>5, <1>2, <2>1
    <3> QED  BY <3>1, <3>2
  <2>3. s[i].header = all[n]
    BY <2>2 DEF Contiguous, Labelled
  <2>4. s[i] = [frame |-> s[i].frame, pos |-> s[i].pos, header |-> s[i].header]
    BY <2>1 DEF Byte
  <2> QED  BY <2>2, <2>3, <2>4
<1> QED  BY <1>2, <1>3, <1>4, <1>5

\* What is left when the frame at the front is taken is contiguous again, and
\* whole if the stream was.
LEMMA ContiguousRest ==
  ASSUME NEW s \in Seq(Byte), NEW t \in Seq(Byte), NEW all \in Seq(Frame), NEW n \in Nat,
         Contiguous(s, all, n), s # <<>>,
         NEW k \in Nat, k = Total(all[n]), k <= Len(s), Len(t) = Len(s) - k,
         \A i \in 1..Len(t) : t[i] = s[i + k]
  PROVE  /\ Contiguous(t, all, n + 1)
         /\ Complete(s, all, n) => Complete(t, all, n + 1)
<1>1. \A i \in 1..Len(t) : i + k \in 1..Len(s)
  OBVIOUS
<1>2. Labelled(t, all)
  BY <1>1 DEF Contiguous, Labelled
<1>3. Spaced(t)
  <2> SUFFICES ASSUME NEW i \in 1..Len(t), NEW j \in 1..Len(t), i < j
               PROVE  \/ t[i].frame = t[j].frame /\ t[j].pos - t[i].pos = j - i
                      \/ /\ t[i].frame < t[j].frame
                         /\ j - i >= (Total(t[i].header) - t[i].pos) + t[j].pos
    BY DEF Spaced
  <2>1. i + k \in 1..Len(s) /\ j + k \in 1..Len(s) /\ i + k < j + k
    BY <1>1
  <2>2. \/ /\ s[i + k].frame = s[j + k].frame
           /\ s[j + k].pos - s[i + k].pos = (j + k) - (i + k)
        \/ /\ s[i + k].frame < s[j + k].frame
           /\ (j + k) - (i + k) >= (Total(s[i + k].header) - s[i + k].pos) + s[j + k].pos
    BY <2>1 DEF Contiguous, Spaced
  <2>3. (j + k) - (i + k) = j - i
    OBVIOUS
  <2> QED  BY <2>2, <2>3
<1>4. Chained(t)
  <2> SUFFICES ASSUME NEW i \in 1..(Len(t) - 1), t[i].pos = Total(t[i].header)
               PROVE  t[i + 1].frame = t[i].frame + 1 /\ t[i + 1].pos = 1
    BY DEF Chained
  <2>1. i \in 1..Len(t) /\ i + 1 \in 1..Len(t) /\ i + k \in 1..(Len(s) - 1)
    OBVIOUS
  <2>2. t[i] = s[i + k] /\ t[i + 1] = s[(i + k) + 1]
    <3>1. t[i] = s[i + k]
      BY <2>1
    <3>2. t[i + 1] = s[(i + 1) + k]
      BY <2>1
    <3>3. (i + 1) + k = (i + k) + 1
      BY SMTT(30)
    <3> QED  BY <3>1, <3>2, <3>3
  <2> QED  BY <2>1, <2>2 DEF Contiguous, Chained
<1>5. k \in 1..Len(s) /\ n \in 1..Len(all)
  <2>1. all[n] \in Frame /\ n \in 1..Len(all)
    BY FrameInFront
  <2>2. all[n].length \in Nat
    BY <2>1 DEF Frame
  <2>3. k >= 1
    BY SMTT(30), <2>2, ParserAssumption DEF Total
  <2> QED  BY <2>1, <2>3
<1>6. s[k] = [frame |-> n, pos |-> k, header |-> all[n]]
  BY SMTT(30), <1>5, FrameInFront
<1>7. StartsAt(t, n + 1)
  <2> SUFFICES ASSUME t # <<>> PROVE t[1].frame = n + 1 /\ t[1].pos = 1
    BY DEF StartsAt
  <2>1. 1 \in 1..Len(t) /\ k \in 1..(Len(s) - 1)
    BY <1>5
  <2>2. t[1] = s[k + 1]
    BY SMTT(30), <2>1
  <2>3. s[k].pos = Total(s[k].header) /\ s[k].frame = n
    BY SMTT(30), <1>6
  <2> QED  BY <2>1, <2>2, <2>3 DEF Contiguous, Chained
<1>8. ASSUME Complete(s, all, n)
      PROVE  Complete(t, all, n + 1)
  <2>1. s[Len(s)].frame = Len(all) /\ s[Len(s)].pos = Total(s[Len(s)].header)
    BY <1>8 DEF Complete
  <2>2. CASE t = <<>>
    <3>1. k = Len(s)
      BY <2>2
    <3>2. n = Len(all)
      BY <3>1, <2>1, <1>6
    <3> QED  BY <2>2, <3>2 DEF Complete
  <2>3. CASE t # <<>>
    <3>1. t[Len(t)] = s[Len(s)]
      BY <2>3
    <3> QED  BY <3>1, <2>1, <2>3 DEF Complete
  <2> QED  BY <2>2, <2>3
<1> QED  BY <1>2, <1>3, <1>4, <1>7, <1>8 DEF Contiguous

\* A frame on the wire is its bytes, in order.
LEMMA SerializeIsSeq ==
  ASSUME NEW n \in Nat, NEW f \in Frame
  PROVE  /\ Serialize(n, f) \in Seq(Byte)
         /\ Len(Serialize(n, f)) = Total(f) /\ Total(f) \in Nat /\ Total(f) >= 1
         /\ \A k \in 1..Total(f) :
              Serialize(n, f)[k] = [frame |-> n, pos |-> k, header |-> f]
<1>1. Total(f) \in Nat /\ Total(f) >= 1
  <2>1. f.length \in Nat
    BY DEF Frame
  <2> QED  BY <2>1, ParserAssumption DEF Total
<1>2. Serialize(n, f) = [k \in 1..Total(f) |-> [frame |-> n, pos |-> k, header |-> f]]
  BY DEF Serialize, Total
<1>3. \A k \in 1..Total(f) : [frame |-> n, pos |-> k, header |-> f] \in Byte
  BY <1>1 DEF Byte
<1> HIDE DEF Serialize
<1>4. Serialize(n, f) \in Seq(Byte)
  BY <1>1, <1>2, <1>3
<1>5. Len(Serialize(n, f)) = Total(f)
  BY <1>1, <1>2
<1> QED  BY <1>1, <1>2, <1>4, <1>5

\* A frame that is sent continues a stream that was whole.
LEMMA ContiguousAppend ==
  ASSUME NEW s \in Seq(Byte), NEW all \in Seq(Frame), NEW n \in Nat, NEW f \in Frame,
         Contiguous(s, all, n), Complete(s, all, n)
  PROVE  /\ Contiguous(s \o Serialize(Len(all) + 1, f), Append(all, f), n)
         /\ Complete(s \o Serialize(Len(all) + 1, f), Append(all, f), n)
<1> DEFINE N == Len(all) + 1
           u == Serialize(N, f)
           w == s \o u
           more == Append(all, f)
           T == Total(f)
<1>0. /\ N \in Nat /\ T \in Nat /\ T >= 1 /\ u \in Seq(Byte) /\ Len(u) = T
      /\ \A k \in 1..T : u[k] = [frame |-> N, pos |-> k, header |-> f]
  <2>1. Len(all) + 1 \in Nat
    OBVIOUS
  <2> QED  BY <2>1, SerializeIsSeq
<1>1. w \in Seq(Byte) /\ Len(w) = Len(s) + T
  BY <1>0
<1>2. \A i \in 1..Len(s) : w[i] = s[i]
  BY <1>0
<1>3. ASSUME NEW i \in 1..Len(w), i > Len(s)
      PROVE  /\ i - Len(s) \in 1..T
             /\ w[i].frame = N /\ w[i].pos = i - Len(s) /\ w[i].header = f
  <2>1. i - Len(s) \in 1..T
    BY <1>1, <1>3, <1>0
  <2>2. w[i] = u[i - Len(s)]
    BY <1>0, <1>3, <2>1
  <2>3. u[i - Len(s)] = [frame |-> N, pos |-> i - Len(s), header |-> f]
    BY <2>1, <1>0
  <2> HIDE DEF w, u
  <2> QED  BY <2>1, <2>2, <2>3
<1>4. /\ Len(more) = N /\ more[N] = f
      /\ \A k \in 1..Len(all) : more[k] = all[k]
  OBVIOUS
<1>5. N = Len(all) + 1
  OBVIOUS
<1>6. T = Total(f)
  OBVIOUS
<1>7. s # <<>> => s[Len(s)].frame = Len(all) /\ s[Len(s)].pos = Total(s[Len(s)].header)
  BY DEF Complete
<1>8. s = <<>> => n = N
  BY DEF Complete
<1> HIDE DEF N, u, w, more, T
<1>9. ASSUME NEW i \in 1..Len(s)
      PROVE  /\ s[i].frame \in 1..Len(all) /\ s[i].header = all[s[i].frame]
             /\ s[i].pos \in 1..Total(s[i].header) /\ Total(s[i].header) \in Nat
  <2>1. /\ s[i].frame \in 1..Len(all) /\ s[i].header = all[s[i].frame]
        /\ s[i].pos \in 1..Total(s[i].header)
    BY DEF Contiguous, Labelled
  <2>2. s[i].header \in Frame
    BY <2>1
  <2> QED  BY <2>1, <2>2, SerializeIsSeq
<1>a. Len(s) \in Nat /\ Len(w) \in Nat /\ T \in Nat /\ Len(w) = Len(s) + T
  BY <1>0, <1>1
<1>b. \A i \in 1..Len(w) : i \in Nat /\ 1 <= i /\ (i <= Len(s) \/ i > Len(s))
  BY <1>a
<1>10. Labelled(w, more)
  <2> SUFFICES ASSUME NEW i \in 1..Len(w)
               PROVE  /\ w[i].frame \in 1..Len(more)
                      /\ w[i].header = more[w[i].frame]
                      /\ w[i].pos \in 1..Total(w[i].header)
    BY DEF Labelled
  <2>1. CASE i > Len(s)
    <3>1. /\ i - Len(s) \in 1..T
          /\ w[i].frame = N /\ w[i].pos = i - Len(s) /\ w[i].header = f
      BY <2>1, <1>3
    <3>2. N \in 1..Len(more)
      BY <1>0, <1>4, <1>5
    <3> QED  BY <3>1, <3>2, <1>4, <1>6
  <2>2. CASE i <= Len(s)
    <3>1. i \in 1..Len(s)
      BY <2>2, <1>a, <1>b
    <3>2. s[i].frame \in 1..Len(all) /\ s[i].header = all[s[i].frame]
      BY <3>1, <1>9
    <3>3. s[i].frame \in 1..N /\ more[s[i].frame] = all[s[i].frame]
      BY <3>2, <1>4, <1>5
    <3>4. w[i] = s[i] /\ s[i].pos \in 1..Total(s[i].header)
      BY <3>1, <1>2, <1>9
    <3> QED  BY <3>2, <3>3, <3>4, <1>4
  <2> QED  BY <2>1, <2>2, <1>b
<1>11. Spaced(w)
  <2> SUFFICES ASSUME NEW i \in 1..Len(w), NEW j \in 1..Len(w), i < j
               PROVE  \/ w[i].frame = w[j].frame /\ w[j].pos - w[i].pos = j - i
                      \/ /\ w[i].frame < w[j].frame
                         /\ j - i >= (Total(w[i].header) - w[i].pos) + w[j].pos
    BY DEF Spaced
  <2>0. i \in Nat /\ j \in Nat /\ 1 <= i /\ 1 <= j /\ j <= Len(w)
    BY <1>a, <1>b
  <2> USE <2>0
  <2>1. CASE i > Len(s)
    <3>1. j > Len(s)
      BY <2>1, <1>a
    <3>2. (j - Len(s)) - (i - Len(s)) = j - i
      BY <1>a
    <3>3. w[i].frame = N /\ w[i].pos = i - Len(s)
      BY <2>1, <1>3
    <3>4. w[j].frame = N /\ w[j].pos = j - Len(s)
      BY <3>1, <1>3
    <3> QED  BY <3>2, <3>3, <3>4
  <2>2. CASE j <= Len(s)
    <3>1. i \in 1..Len(s) /\ j \in 1..Len(s)
      BY <2>2, <1>a
    <3>2. w[i] = s[i] /\ w[j] = s[j]
      BY <3>1, <1>2
    <3> QED  BY <3>1, <3>2 DEF Contiguous, Spaced
  <2>3. CASE i <= Len(s) /\ j > Len(s)
    <3>1. i \in 1..Len(s) /\ Len(s) \in 1..Len(s) /\ s # <<>> /\ w[i] = s[i]
      BY <2>3, <1>a, <1>2
    <3>2. w[j].frame = N /\ w[j].pos = j - Len(s)
      BY <2>3, <1>3
    <3>3. Len(s) - i >= Total(s[i].header) - s[i].pos
      <4>1. CASE i = Len(s)
        BY <4>1, <3>1, <1>7, <1>9
      <4>2. CASE i < Len(s)
        <5>1. CASE s[i].frame = s[Len(s)].frame /\ s[Len(s)].pos - s[i].pos = Len(s) - i
          <6>1. s[Len(s)].header = s[i].header
            BY <5>1, <3>1, <1>9
          <6> QED  BY SMTT(30), <5>1, <6>1, <3>1, <1>7, <1>9
        <5>2. CASE Len(s) - i >= (Total(s[i].header) - s[i].pos) + s[Len(s)].pos
          <6>1. s[Len(s)].pos \in Nat
            BY SMTT(30), <3>1, <1>9
          <6>2. s[i].pos \in Nat /\ Total(s[i].header) \in Nat
            BY SMTT(30), <3>1, <1>9
          <6> QED  BY <5>2, <6>1, <6>2, <3>1
        <5> QED  BY <5>1, <5>2, <4>2, <3>1 DEF Contiguous, Spaced
      <4> QED  BY <4>1, <4>2, <3>1
    <3>4. s[i].frame < N
      BY <3>1, <1>9, <1>5
    <3>5. j - i >= (Total(s[i].header) - s[i].pos) + (j - Len(s))
      <4>1. s[i].pos \in Nat /\ Total(s[i].header) \in Nat
        BY SMTT(30), <3>1, <1>9
      <4> QED  BY <4>1, <3>3, <1>a
    <3> QED  BY <3>1, <3>2, <3>4, <3>5
  <2> QED  BY <2>1, <2>2, <2>3, <1>a
<1>12. Chained(w)
  <2> SUFFICES ASSUME NEW i \in 1..(Len(w) - 1), w[i].pos = Total(w[i].header)
               PROVE  w[i + 1].frame = w[i].frame + 1 /\ w[i + 1].pos = 1
    BY DEF Chained
  <2>1. i \in 1..Len(w) /\ i + 1 \in 1..Len(w)
    BY <1>1, <1>0
  <2>2. CASE i > Len(s)
    <3>1. i - Len(s) = T
      BY <2>1, <2>2, <1>3, <1>6
    <3> QED  BY <3>1, <1>1, <1>0
  <2>3. CASE i = Len(s)
    <3>1. s # <<>> /\ Len(s) \in 1..Len(s) /\ i + 1 > Len(s) /\ (i + 1) - Len(s) = 1
      BY <2>3, <2>1
    <3>2. w[i].frame = Len(all)
      BY <3>1, <2>3, <1>2, <1>7
    <3>3. w[i + 1].frame = N /\ w[i + 1].pos = 1
      BY <3>1, <2>1, <1>3
    <3> QED  BY <3>2, <3>3, <1>5
  <2>4. CASE i < Len(s)
    <3>1. i \in 1..(Len(s) - 1) /\ i \in 1..Len(s) /\ i + 1 \in 1..Len(s)
      BY <2>4, <2>1
    <3>2. w[i] = s[i] /\ w[i + 1] = s[i + 1]
      BY <3>1, <1>2
    <3> QED  BY <3>1, <3>2 DEF Contiguous, Chained
  <2> QED  BY <2>2, <2>3, <2>4, <2>1
<1>13. StartsAt(w, n)
  <2>1. CASE s = <<>>
    <3>1. 1 \in 1..Len(w) /\ 1 > Len(s) /\ 1 - Len(s) = 1
      BY <2>1, <1>1, <1>0
    <3> QED  BY <3>1, <2>1, <1>3, <1>8 DEF StartsAt
  <2>2. CASE s # <<>>
    <3>1. 1 \in 1..Len(s) /\ w[1] = s[1]
      BY SMTT(30), <2>2, <1>2
    <3> QED  BY <3>1, <2>2 DEF Contiguous, StartsAt
  <2> QED  BY <2>1, <2>2
<1>14. Complete(w, more, n)
  <2>1. Len(w) \in 1..Len(w) /\ Len(w) > Len(s) /\ Len(w) - Len(s) = T /\ w # <<>>
    BY <1>1, <1>0
  <2>2. w[Len(w)].frame = N /\ w[Len(w)].pos = T /\ w[Len(w)].header = f
    BY <2>1, <1>3
  <2> QED  BY <2>1, <2>2, <1>4, <1>6 DEF Complete
<1>15. Contiguous(w, more, n)
  BY <1>10, <1>11, <1>12, <1>13 DEF Contiguous
<1> QED  BY <1>14, <1>15 DEF w, u, more, N

\* What next_frame found when it returns a frame.
LEMMA NextFrameFrame ==
  ASSUME NEW buf \in Seq(Byte), NextFrame(buf).kind = "Frame"
  PROVE  LET h == HeaderAt(Head(buf))
         IN  /\ buf # <<>> /\ h \in Frame
             /\ IsAcceptable(h)
             /\ Total(h) <= Len(buf)
             /\ NextFrame(buf).frame = SubSeq(buf, 1, Total(h))
             /\ NextFrame(buf).rest = SubSeq(buf, Total(h) + 1, Len(buf))
<1> DEFINE h == HeaderAt(Head(buf))
<1>1. /\ ~(Len(buf) < HeaderSize)
      /\ h.version = ExpectedVersion /\ ~(h.length > MaxPayload)
      /\ ~(Len(buf) < Total(h))
      /\ NextFrame(buf).frame = SubSeq(buf, 1, Total(h))
      /\ NextFrame(buf).rest = SubSeq(buf, Total(h) + 1, Len(buf))
  BY DEF NextFrame, Total
<1>2. buf # <<>> /\ Head(buf) \in Byte
  <2>1. Len(buf) \in Nat /\ ~(Len(buf) < HeaderSize)
    BY <1>1
  <2>2. Len(buf) # 0
    BY <2>1, ParserAssumption
  <2>3. buf # <<>>
    BY <2>2
  <2> QED  BY <2>3
<1>3. h \in Frame
  BY <1>2 DEF HeaderAt, Byte, Frame
<1> HIDE DEF h
<1>4. h.length \in Nat
  BY <1>3 DEF Frame
<1>5. h.length <= MaxPayload /\ Total(h) <= Len(buf)
  BY <1>1, <1>4, ParserAssumption DEF Total
<1>6. IsAcceptable(h)
  BY <1>1, <1>5 DEF IsAcceptable
<1> QED  BY <1>1, <1>2, <1>3, <1>5, <1>6 DEF h

\* What next_frame leaves after a protocol error: all but a header.
LEMMA NextFrameError ==
  ASSUME NEW buf, NextFrame(buf).kind \in {"UnsupportedVersion", "PayloadTooLarge"}
  PROVE  /\ ~(Len(buf) < HeaderSize)
         /\ NextFrame(buf).rest = SubSeq(buf, HeaderSize + 1, Len(buf))
BY DEF NextFrame

\* When next_frame waits for more: there is no header yet, or less than it says.
LEMMA NextFrameIncomplete ==
  ASSUME NEW buf, NextFrame(buf).kind \in {"IncompleteHeader", "IncompletePayload"}
  PROVE  Len(buf) < HeaderSize \/ Len(buf) < Total(HeaderAt(Head(buf)))
BY DEF NextFrame, Total

\* Nothing happens to the bytes, and no read starts or goes on.
StreamAlone ==
  /\ UNCHANGED <<script, incoming, buffer, delivered, peerOpen>>
  /\ is_open' \in BOOLEAN /\ (is_open' => is_open)
  /\ read' = read \/ read' = "none"

\* Such a step keeps the invariant of the stream.
LEMMA StreamAloneKeeps ==
  ASSUME StreamInv, StreamAlone
  PROVE  StreamInv'
<1>1. /\ script' = script /\ incoming' = incoming /\ buffer' = buffer
      /\ delivered' = delivered /\ peerOpen' = peerOpen
      /\ is_open' \in BOOLEAN /\ (is_open' => is_open)
      /\ read' = read \/ read' = "none"
  BY DEF StreamAlone
<1>2. StreamTypeOK'
  BY <1>1 DEF StreamInv, StreamTypeOK
<1>3. Stream' = Stream
  BY <1>1 DEF Stream
<1>4. Aligned'
  BY <1>1, <1>3 DEF StreamInv, Aligned
<1>5. Drained'
  BY <1>1 DEF StreamInv, Drained
<1>6. FramesIntact'
  BY <1>1 DEF StreamInv, FramesIntact
<1> QED  BY <1>2, <1>4, <1>5, <1>6 DEF StreamInv

\* Sequences with the same elements are equal.
LEMMA SameElements ==
  ASSUME NEW S, NEW s \in Seq(S), NEW t \in Seq(S), Len(s) = Len(t),
         \A i \in 1..Len(s) : s[i] = t[i]
  PROVE  s = t
OBVIOUS

\* What operator \o makes of two sequences.
LEMMA Joined ==
  ASSUME NEW S, NEW s \in Seq(S), NEW t \in Seq(S)
  PROVE  /\ s \o t \in Seq(S) /\ Len(s \o t) = Len(s) + Len(t)
         /\ \A i \in 1..Len(s) : (s \o t)[i] = s[i]
         /\ \A i \in (Len(s) + 1)..(Len(s) + Len(t)) : (s \o t)[i] = t[i - Len(s)]
OBVIOUS

\* The two parts of a sequence that is cut after its element m.
LEMMA CutInTwo ==
  ASSUME NEW S, NEW s \in Seq(S), NEW m \in 0..Len(s)
  PROVE  /\ SubSeq(s, 1, m) \in Seq(S) /\ Len(SubSeq(s, 1, m)) = m
         /\ \A i \in 1..m : SubSeq(s, 1, m)[i] = s[i]
         /\ SubSeq(s, m + 1, Len(s)) \in Seq(S)
         /\ Len(SubSeq(s, m + 1, Len(s))) = Len(s) - m
         /\ \A i \in 1..(Len(s) - m) : SubSeq(s, m + 1, Len(s))[i] = s[i + m]
OBVIOUS

\* Bytes that are moved from one end of a queue to the other.
LEMMA Regroup ==
  \A a, b, c \in Seq(Byte) :
    (a \o b) \o c = a \o (b \o c) /\ a \o (b \o c) = (a \o b) \o c
<1>1. ASSUME NEW a \in Seq(Byte), NEW b \in Seq(Byte), NEW c \in Seq(Byte)
      PROVE  (a \o b) \o c = a \o (b \o c)
  <2> HIDE DEF Byte
  <2> DEFINE l == (a \o b) \o c
             r == a \o (b \o c)
  <2>1. /\ l \in Seq(Byte) /\ Len(l) = Len(a) + Len(b) + Len(c)
        /\ r \in Seq(Byte) /\ Len(r) = Len(a) + Len(b) + Len(c)
    OBVIOUS
  <2>2. \A i \in 1..(Len(a) + Len(b) + Len(c)) : l[i] = r[i]
    OBVIOUS
  <2> HIDE DEF l, r
  <2>3. l = r
    BY <2>1, <2>2, SameElements
  <2> QED  BY <2>3 DEF l, r
<1> QED  BY <1>1, Zenon

\* The parser is fed with what was read: the stream is the same.
LEMMA ReadSomeKeeps ==
  ASSUME StreamInv, NEW n \in 1..Len(incoming), ReadSome(n)
  PROVE  StreamInv'
<1>1. /\ is_open /\ is_open' = is_open /\ read' = "queued"
      /\ buffer' = buffer \o SubSeq(incoming, 1, n)
      /\ incoming' = SubSeq(incoming, n + 1, Len(incoming))
      /\ script' = script /\ peerOpen' = peerOpen /\ delivered' = delivered
  BY DEF ReadSome
<1>2. buffer \in Seq(Byte) /\ incoming \in Seq(Byte)
  BY DEF StreamInv, StreamTypeOK
<1>3. /\ SubSeq(incoming, 1, n) \in Seq(Byte) /\ Len(SubSeq(incoming, 1, n)) = n
      /\ incoming' \in Seq(Byte) /\ Len(incoming') = Len(incoming) - n
      /\ \A i \in 1..n : SubSeq(incoming, 1, n)[i] = incoming[i]
      /\ \A i \in 1..(Len(incoming) - n) : incoming'[i] = incoming[i + n]
  BY SMTT(30), <1>1, <1>2, n \in 0..Len(incoming), CutInTwo
<1>4. SubSeq(incoming, 1, n) \o incoming' = incoming
  <2> DEFINE a == SubSeq(incoming, 1, n)
             b == incoming'
  <2>1. a \in Seq(Byte) /\ b \in Seq(Byte) /\ Len(a) = n /\ Len(b) = Len(incoming) - n
    BY <1>3
  <2>2. a \o b \in Seq(Byte) /\ Len(a \o b) = Len(incoming)
    <3> HIDE DEF a, b
    <3>1. a \o b \in Seq(Byte) /\ Len(a \o b) = Len(a) + Len(b)
      BY <2>1
    <3>2. Len(incoming) \in Nat /\ n + (Len(incoming) - n) = Len(incoming)
      BY <1>2
    <3> QED  BY <3>1, <3>2, <2>1
  <2>3. ASSUME NEW i \in 1..Len(incoming)
        PROVE  (a \o b)[i] = incoming[i]
    <3>1. CASE i <= n
      <4>1. a[i] = incoming[i]
        BY SMTT(30), <3>1, <1>3
      <4> HIDE DEF a, b
      <4>2. (a \o b)[i] = a[i]
        BY <3>1, <2>1
      <4> QED  BY <4>1, <4>2
    <3>2. CASE i > n
      <4>1. i - n \in 1..(Len(incoming) - n) /\ (i - n) + n = i
        BY <3>2, <1>2
      <4>2. b[i - n] = incoming[i]
        BY <4>1, <1>3
      <4> HIDE DEF a, b
      <4>3. (a \o b)[i] = b[i - n]
        BY <4>1, <3>2, <2>1
      <4> QED  BY <4>2, <4>3
    <3>3. i <= n \/ i > n
      BY <1>2
    <3> QED  BY <3>1, <3>2, <3>3
  <2> HIDE DEF a, b
  <2>4. a \o b = incoming
    BY <2>2, <2>3, <1>2, SameElements
  <2> QED  BY <2>4 DEF a, b
<1>5. Stream' = Stream
  <2>1. Stream' = (buffer \o SubSeq(incoming, 1, n)) \o incoming'
    BY <1>1 DEF Stream
  <2>2. (buffer \o SubSeq(incoming, 1, n)) \o incoming'
          = buffer \o (SubSeq(incoming, 1, n) \o incoming')
    BY <1>2, <1>3, Regroup, Zenon
  <2> QED  BY <2>1, <2>2, <1>4 DEF Stream
<1>6. StreamTypeOK'
  <2>1. buffer' \in Seq(Byte)
    BY <1>1, <1>2, <1>3
  <2> QED  BY <1>1, <1>3, <2>1 DEF StreamInv, StreamTypeOK
<1>7. Aligned'
  BY <1>1, <1>5 DEF StreamInv, Aligned
<1>8. Drained' /\ FramesIntact'
  BY <1>1 DEF StreamInv, Drained, FramesIntact
<1> QED  BY <1>6, <1>7, <1>8 DEF StreamInv

\* The handler of a read begins, on a socket that is open or closed.
LEMMA ReadHandlerKeeps ==
  ASSUME StreamInv, ReadHandler
  PROVE  StreamInv'
<1>1. /\ read = "queued" /\ read' = "processing"
      /\ script' = script /\ incoming' = incoming /\ buffer' = buffer
      /\ delivered' = delivered /\ peerOpen' = peerOpen /\ is_open' = is_open
  BY DEF ReadHandler
<1>2. StreamTypeOK'
  BY <1>1 DEF StreamInv, StreamTypeOK
<1>3. Stream' = Stream
  BY <1>1 DEF Stream
<1>4. Aligned'
  BY <1>1, <1>3 DEF StreamInv, Aligned
<1>5. Drained' /\ FramesIntact'
  BY <1>1 DEF StreamInv, Drained, FramesIntact
<1> QED  BY <1>2, <1>4, <1>5 DEF StreamInv

\* The loop of process_incoming is left: at a protocol error the connection is
\* closed, otherwise there is no frame in the buffer.
LEMMA ProcessEndKeeps ==
  ASSUME StreamInv, ProcessError \/ ProcessDone
  PROVE  StreamInv'
<1>1. CASE ProcessError
  <2>1. /\ is_open' = FALSE /\ read' = "pending"
        /\ NextFrame(buffer).kind \in {"UnsupportedVersion", "PayloadTooLarge"}
        /\ buffer' = NextFrame(buffer).rest
        /\ script' = script /\ incoming' = incoming /\ delivered' = delivered
        /\ peerOpen' = peerOpen
    BY <1>1 DEF ProcessError, Close
  <2>2. buffer' = SubSeq(buffer, HeaderSize + 1, Len(buffer))
    BY <2>1, NextFrameError
  <2>3. buffer' \in Seq(Byte)
    BY SMTT(30), <2>2, ParserAssumption DEF StreamInv, StreamTypeOK
  <2>4. StreamTypeOK'
    BY <2>1, <2>3 DEF StreamInv, StreamTypeOK
  <2>5. Aligned' /\ Drained'
    BY <2>1 DEF Aligned, Drained
  <2>6. FramesIntact'
    BY <2>1 DEF StreamInv, FramesIntact
  <2> QED  BY <2>4, <2>5, <2>6 DEF StreamInv
<1>2. CASE ProcessDone
  <2>1. /\ is_open' = is_open /\ read' = "pending" /\ read = "processing"
        /\ NextFrame(buffer).kind \in {"IncompleteHeader", "IncompletePayload"}
        /\ buffer' = buffer
        /\ script' = script /\ incoming' = incoming /\ delivered' = delivered
        /\ peerOpen' = peerOpen
    BY <1>2 DEF ProcessDone
  <2>2. StreamTypeOK'
    BY <2>1 DEF StreamInv, StreamTypeOK
  <2>3. Stream' = Stream
    BY <2>1 DEF Stream
  <2>4. Aligned'
    BY <2>1, <2>3 DEF StreamInv, Aligned
  <2>5. Drained'
    BY <2>1 DEF Drained
  <2>6. FramesIntact'
    BY <2>1 DEF StreamInv, FramesIntact
  <2> QED  BY <2>2, <2>4, <2>5, <2>6 DEF StreamInv
<1> QED  BY <1>1, <1>2

\* The next frame of the stream is taken from the buffer and delivered.
LEMMA ProcessFrameKeeps ==
  ASSUME StreamInv, ProcessFrame
  PROVE  StreamInv'
<1> DEFINE n == Len(delivered) + 1
           h == HeaderAt(Head(buffer))
           k == Total(h)
<1>1. /\ read = "processing" /\ read' = read
      /\ NextFrame(buffer).kind = "Frame"
      /\ buffer' = NextFrame(buffer).rest
      /\ delivered' = Append(delivered, NextFrame(buffer).frame)
      /\ script' = script /\ incoming' = incoming /\ peerOpen' = peerOpen
      /\ is_open' = is_open \/ is_open' = FALSE
  BY DEF ProcessFrame, Close
<1>2. /\ buffer \in Seq(Byte) /\ incoming \in Seq(Byte) /\ script \in Seq(Frame)
      /\ delivered \in Seq(Seq(Byte)) /\ is_open \in BOOLEAN
  BY DEF StreamInv, StreamTypeOK
<1>3. /\ buffer # <<>> /\ h \in Frame /\ IsAcceptable(h) /\ k <= Len(buffer)
      /\ NextFrame(buffer).frame = SubSeq(buffer, 1, k)
      /\ buffer' = SubSeq(buffer, k + 1, Len(buffer))
  BY <1>1, <1>2, NextFrameFrame
<1>4. Contiguous(Stream, script, n) /\ (peerOpen => Complete(Stream, script, n))
  BY <1>1 DEF StreamInv, Aligned
<1>5. k \in Nat /\ k >= 1
  <2>1. h.length \in Nat
    BY <1>3 DEF Frame
  <2> QED  BY <2>1, ParserAssumption DEF Total
<1>6. /\ Stream \in Seq(Byte) /\ Len(Stream) = Len(buffer) + Len(incoming) /\ Stream # <<>>
      /\ \A i \in 1..Len(buffer) : Stream[i] = buffer[i]
      /\ \A i \in (Len(buffer) + 1)..Len(Stream) : Stream[i] = incoming[i - Len(buffer)]
  BY <1>2, <1>3 DEF Stream
<1>7. n \in Nat
  BY <1>2
<1> HIDE DEF n
<1>8. /\ n \in 1..Len(script) /\ Stream[1].header = script[n] /\ Stream[1].pos = 1
      /\ script[n] \in Frame
      /\ \A i \in 1..Len(Stream) : i <= Total(script[n]) =>
           Stream[i] = [frame |-> n, pos |-> i, header |-> script[n]]
  BY <1>2, <1>4, <1>6, <1>7, FrameInFront
<1>9. Head(buffer) = Stream[1]
  <2>1. Head(buffer) = buffer[1] /\ 1 \in 1..Len(buffer)
    BY <1>2, <1>3
  <2> QED  BY <2>1, <1>6
<1>10. h = script[n]
  BY <1>8, <1>9 DEF HeaderAt
<1> HIDE DEF h
<1>11. k = Total(script[n])
  BY <1>10
<1> HIDE DEF k
<1>12. /\ buffer' \in Seq(Byte) /\ Len(buffer') = Len(buffer) - k
       /\ \A i \in 1..(Len(buffer) - k) : buffer'[i] = buffer[i + k]
  BY <1>2, <1>3, <1>5
<1>13. Stream' \in Seq(Byte) /\ Len(Stream') = Len(Stream) - k
  <2>1. Stream' = buffer' \o incoming
    BY <1>1 DEF Stream
  <2>2. Stream' \in Seq(Byte) /\ Len(Stream') = Len(buffer') + Len(incoming)
    <3> HIDE DEF Byte
    <3>1. buffer' \in Seq(Byte) /\ incoming \in Seq(Byte)
      BY <1>2, <1>12
    <3>2. \A s \in Seq(Byte) : s \o incoming \in Seq(Byte) /\ Len(s \o incoming) = Len(s) + Len(incoming)
      BY <3>1
    <3> QED  BY <3>1, <3>2, <2>1
  <2>3. Len(buffer) \in Nat /\ Len(incoming) \in Nat
    BY <1>2
  <2> QED  BY <2>2, <2>3, <1>5, <1>6, <1>12
<1>14. ASSUME NEW i \in 1..Len(Stream')
       PROVE  Stream'[i] = Stream[i + k]
  <2>1. Len(buffer) \in Nat /\ Len(incoming) \in Nat
    BY <1>2
  <2>2. CASE i <= Len(buffer')
    <3>1. i \in 1..(Len(buffer) - k) /\ i + k \in 1..Len(buffer)
      BY <2>1, <2>2, <1>5, <1>12
    <3>2. Stream'[i] = buffer'[i]
      BY <2>2, <1>1, <1>2, <1>12 DEF Stream
    <3> QED  BY <3>1, <3>2, <1>6, <1>12
  <2>3. CASE i > Len(buffer')
    <3>1. /\ i + k \in (Len(buffer) + 1)..Len(Stream)
          /\ (i + k) - Len(buffer) = i - Len(buffer')
          /\ i - Len(buffer') \in 1..Len(incoming)
      BY <2>1, <2>3, <1>5, <1>6, <1>12, <1>13
    <3>2. Stream'[i] = incoming[i - Len(buffer')]
      BY SMTT(30), <2>3, <3>1, <1>1, <1>2, <1>12 DEF Stream
    <3> QED  BY <3>1, <3>2, <1>6
  <2>4. i <= Len(buffer') \/ i > Len(buffer')
    BY <2>1, <1>5, <1>12
  <2> QED  BY <2>2, <2>3, <2>4
<1>15. k <= Len(Stream)
  BY <1>2, <1>3, <1>5, <1>6
<1>16. /\ Contiguous(Stream', script, n + 1)
       /\ Complete(Stream, script, n) => Complete(Stream', script, n + 1)
  BY <1>2, <1>4, <1>5, <1>6, <1>7, <1>11, <1>13, <1>14, <1>15, ContiguousRest
<1>17. SubSeq(buffer, 1, k) = Serialize(n, script[n])
  <2> DEFINE a == SubSeq(buffer, 1, k)
             b == Serialize(n, script[n])
  <2>1. a \in Seq(Byte) /\ Len(a) = k /\ \A i \in 1..k : a[i] = buffer[i]
    BY <1>2, <1>3, <1>5
  <2>2. script[n] \in Frame
    BY <1>8
  <2>3. /\ b \in Seq(Byte) /\ Len(b) = k
        /\ \A i \in 1..k : b[i] = [frame |-> n, pos |-> i, header |-> script[n]]
    BY <2>2, <1>7, <1>11, SerializeIsSeq
  <2> HIDE DEF a, b
  <2>4. ASSUME NEW i \in 1..k
        PROVE  a[i] = b[i]
    <3>1. i \in 1..Len(buffer) /\ i \in 1..Len(Stream) /\ i <= Total(script[n])
      BY <1>2, <1>3, <1>5, <1>6, <1>11
    <3> QED  BY <3>1, <1>6, <1>8, <2>1, <2>3
  <2>5. a = b
    BY <2>1, <2>3, <2>4, SameElements
  <2> QED  BY <2>5 DEF a, b
<1>18. /\ delivered' = Append(delivered, Serialize(n, script[n]))
       /\ n = Len(delivered) + 1 /\ Serialize(n, script[n]) \in Seq(Byte)
  <2>1. script[n] \in Frame
    BY <1>8
  <2> QED  BY <2>1, <1>1, <1>3, <1>7, <1>17, SerializeIsSeq DEF n
<1>19. /\ delivered' \in Seq(Seq(Byte)) /\ Len(delivered') = n
       /\ delivered'[n] = Serialize(n, script[n])
       /\ \A i \in 1..Len(delivered) : delivered'[i] = delivered[i]
  BY <1>2, <1>18
<1>20. StreamTypeOK'
  BY <1>1, <1>12, <1>19 DEF StreamInv, StreamTypeOK
<1>21. Aligned'
  BY <1>1, <1>4, <1>16, <1>19 DEF Aligned
<1>22. Drained'
  BY <1>1 DEF Drained
<1>23. FramesIntact'
  <2>1. Len(delivered') <= Len(script')
    <3>1. script' = script /\ Len(script) \in Nat
      BY <1>1, <1>2
    <3>2. n <= Len(script)
      BY <3>1, <1>8
    <3> QED  BY <3>1, <3>2, <1>19
  <2>2. ASSUME NEW i \in 1..Len(delivered')
        PROVE  delivered'[i] = Serialize(i, script'[i]) /\ IsAcceptable(script'[i])
    <3>1. CASE i = n
      BY <3>1, <1>1, <1>3, <1>10, <1>19
    <3>2. CASE i # n
      <4>1. i \in 1..Len(delivered)
        BY <3>2, <1>2, <1>18, <1>19
      <4> QED  BY <4>1, <1>1, <1>19 DEF StreamInv, FramesIntact
    <3> QED  BY <3>1, <3>2
  <2> QED  BY <2>1, <2>2 DEF FramesIntact
<1> QED  BY <1>20, <1>21, <1>22, <1>23 DEF StreamInv

\* A frame of the peer follows what it sent before.
LEMMA PeerSendsKeeps ==
  ASSUME StreamInv, NEW f \in Frames, PeerSends(f)
  PROVE  StreamInv'
<1> DEFINE u == Serialize(Len(script) + 1, f)
           n == Len(delivered) + 1
<1>1. /\ peerOpen /\ peerOpen' = peerOpen /\ is_open' = is_open /\ read' = read
      /\ script' = Append(script, f) /\ incoming' = incoming \o u
      /\ buffer' = buffer /\ delivered' = delivered
  BY DEF PeerSends
<1>2. /\ buffer \in Seq(Byte) /\ incoming \in Seq(Byte) /\ script \in Seq(Frame)
      /\ delivered \in Seq(Seq(Byte))
  BY DEF StreamInv, StreamTypeOK
<1>3. f \in Frame
  BY FramesAssumption
<1>4. Len(script) + 1 \in Nat /\ n \in Nat
  BY <1>2
<1>5. u \in Seq(Byte)
  BY <1>3, <1>4, SerializeIsSeq
<1>6. Stream' = Stream \o u
  <2> HIDE DEF u
  <2>1. Stream' = buffer \o (incoming \o u)
    BY <1>1 DEF Stream
  <2>2. buffer \o (incoming \o u) = (buffer \o incoming) \o u
    BY <1>2, <1>5, Regroup, Zenon
  <2> QED  BY <2>1, <2>2 DEF Stream
<1>7. Stream \in Seq(Byte)
  BY <1>2 DEF Stream
<1>8. StreamTypeOK'
  <2> HIDE DEF u
  <2>1. incoming' \in Seq(Byte)
    BY <1>1, <1>2, <1>5
  <2>2. script' \in Seq(Frame)
    BY <1>1, <1>2, <1>3
  <2> QED  BY <1>1, <2>1, <2>2 DEF StreamInv, StreamTypeOK
<1>9. ASSUME is_open \/ read \in {"queued", "processing"}
      PROVE  Contiguous(Stream', script', n) /\ Complete(Stream', script', n)
  <2>1. Contiguous(Stream, script, n) /\ Complete(Stream, script, n)
    BY <1>1, <1>9 DEF StreamInv, Aligned
  <2> HIDE DEF n
  <2>2. /\ Contiguous(Stream \o u, Append(script, f), n)
        /\ Complete(Stream \o u, Append(script, f), n)
    BY <2>1, <1>2, <1>3, <1>4, <1>7, ContiguousAppend
  <2> HIDE DEF u
  <2> QED  BY <2>2, <1>1, <1>6
<1>10. Aligned'
  BY <1>1, <1>9 DEF Aligned
<1>11. Drained'
  BY <1>1 DEF StreamInv, Drained
<1>12. FramesIntact'
  <2>1. Len(script') = Len(script) + 1 /\ \A i \in 1..Len(script) : script'[i] = script[i]
    BY <1>1, <1>2
  <2>2. Len(delivered) <= Len(script)
    BY DEF StreamInv, FramesIntact
  <2>3. Len(delivered') <= Len(script')
    BY <2>1, <2>2, <1>1, <1>2
  <2>4. ASSUME NEW i \in 1..Len(delivered)
        PROVE  delivered[i] = Serialize(i, script'[i]) /\ IsAcceptable(script'[i])
    <3>1. i \in 1..Len(script)
      BY <2>2, <1>2
    <3> QED  BY <3>1, <2>1 DEF StreamInv, FramesIntact
  <2> QED  BY <2>3, <2>4, <1>1 DEF FramesIntact
<1> QED  BY <1>8, <1>10, <1>11, <1>12 DEF StreamInv

\* The peer closes its end: the stream is cut, and need not end with a frame.
LEMMA PeerClosesKeeps ==
  ASSUME StreamInv, PeerCloses
  PROVE  StreamInv'
<1>1. /\ peerOpen' = FALSE /\ is_open' = is_open /\ read' = read
      /\ script' = script /\ buffer' = buffer /\ delivered' = delivered
  BY DEF PeerCloses
<1>2. /\ buffer \in Seq(Byte) /\ incoming \in Seq(Byte) /\ script \in Seq(Frame)
      /\ delivered \in Seq(Seq(Byte))
  BY DEF StreamInv, StreamTypeOK
<1>3. PICK m \in 0..Len(incoming) : incoming' = SubSeq(incoming, 1, m)
  BY DEF PeerCloses
<1>4. /\ incoming' \in Seq(Byte) /\ Len(incoming') = m
      /\ \A i \in 1..m : incoming'[i] = incoming[i]
  BY SMTT(30), <1>2, <1>3, CutInTwo
<1>5. /\ Stream \in Seq(Byte) /\ Len(Stream) = Len(buffer) + Len(incoming)
      /\ \A i \in 1..Len(buffer) : Stream[i] = buffer[i]
      /\ \A i \in (Len(buffer) + 1)..Len(Stream) : Stream[i] = incoming[i - Len(buffer)]
  BY SMTT(30), <1>2, Joined DEF Stream
<1>6. Stream' = buffer \o incoming'
  BY <1>1 DEF Stream
<1>7. /\ Stream' \in Seq(Byte) /\ Len(Stream') = Len(buffer) + m
      /\ \A i \in 1..Len(buffer) : Stream'[i] = buffer[i]
      /\ \A i \in (Len(buffer) + 1)..(Len(buffer) + m) :
           Stream'[i] = incoming'[i - Len(buffer)]
  BY SMTT(30), <1>6, <1>2, <1>4, Joined
<1>8. Len(buffer) \in Nat /\ Len(incoming) \in Nat
  BY <1>2
<1>9. ASSUME NEW i \in 1..Len(Stream')
      PROVE  Stream'[i] = Stream[i]
  <2>1. CASE i <= Len(buffer)
    <3>1. Stream'[i] = buffer[i]
      BY <2>1, <1>7, <1>8
    <3> QED  BY SMTT(30), <2>1, <3>1, <1>5, <1>7, <1>8
  <2>2. CASE i > Len(buffer)
    <3>1. i - Len(buffer) \in 1..m /\ i \in (Len(buffer) + 1)..Len(Stream)
      BY <2>2, <1>3, <1>5, <1>7, <1>8
    <3>2. Stream'[i] = incoming'[i - Len(buffer)]
      BY <2>2, <1>7, <1>8
    <3> QED  BY <3>1, <3>2, <1>4, <1>5
  <2>3. i <= Len(buffer) \/ i > Len(buffer)
    BY <1>7, <1>8
  <2> QED  BY <2>1, <2>2, <2>3
<1>10. Len(Stream') <= Len(Stream)
  BY <1>3, <1>5, <1>7, <1>8
<1>11. StreamTypeOK'
  BY <1>1, <1>4 DEF StreamInv, StreamTypeOK
<1>12. Aligned'
  <2> SUFFICES ASSUME is_open \/ read \in {"queued", "processing"}
               PROVE  Contiguous(Stream', script, Len(delivered) + 1)
    BY <1>1 DEF Aligned
  <2>1. Contiguous(Stream, script, Len(delivered) + 1)
    BY DEF StreamInv, Aligned
  <2>2. Len(delivered) + 1 \in Nat
    BY <1>2
  <2> QED  BY <2>1, <2>2, <1>2, <1>5, <1>7, <1>9, <1>10, ContiguousPrefix
<1>13. Drained' /\ FramesIntact'
  BY <1>1 DEF StreamInv, Drained, FramesIntact
<1> QED  BY <1>11, <1>12, <1>13 DEF StreamInv

\* Every step of the connection and of the peer keeps the invariant.
LEMMA StepKeepsStream ==
  ASSUME StreamInv, [Next]_vars
  PROVE  StreamInv'
<1>0. is_open \in BOOLEAN
  BY DEF StreamInv, StreamTypeOK
<1>1. CASE SendFrame
  <2>1. StreamAlone
    BY <1>0, <1>1 DEF SendFrame, readVars, StreamAlone
  <2> QED  BY <2>1, StreamAloneKeeps
<1>2. ASSUME NEW n \in 1..Len(incoming), ReadSome(n)
      PROVE  StreamInv'
  BY <1>2, ReadSomeKeeps
<1>2a. CASE ReadHandler
  BY <1>2a, ReadHandlerKeeps
<1>3. CASE ProcessFrame
  BY <1>3, ProcessFrameKeeps
<1>4. CASE ProcessError \/ ProcessDone
  BY <1>4, ProcessEndKeeps
<1>5. CASE ReadFails
  <2>1. StreamAlone
    BY <1>0, <1>5 DEF ReadFails, Disconnected, StreamAlone
  <2> QED  BY <2>1, StreamAloneKeeps
<1>6. CASE WriteCompletes
  <2>1. StreamAlone
    BY <1>0, <1>6 DEF WriteCompletes, readVars, StreamAlone
  <2> QED  BY <2>1, StreamAloneKeeps
<1>7. CASE WriteFails
  <2>1. StreamAlone
    BY <1>0, <1>7 DEF WriteFails, Disconnected, readVars, StreamAlone
  <2> QED  BY <2>1, StreamAloneKeeps
<1>8. CASE TimerExpires
  <2>1. StreamAlone
    BY <1>0, <1>8 DEF TimerExpires, readVars, StreamAlone
  <2> QED  BY <2>1, StreamAloneKeeps
<1>9. CASE TimerFires
  <2>1. StreamAlone
    BY <1>0, <1>9 DEF TimerFires, Close, readVars, StreamAlone
  <2> QED  BY <2>1, StreamAloneKeeps
<1>10. CASE CloseOutside
  <2>1. StreamAlone
    BY <1>0, <1>10 DEF CloseOutside, Close, readVars, StreamAlone
  <2> QED  BY <2>1, StreamAloneKeeps
<1>11. ASSUME NEW f \in Frames, PeerSends(f)
       PROVE  StreamInv'
  BY <1>11, PeerSendsKeeps
<1>12. CASE PeerCloses
  BY <1>12, PeerClosesKeeps
<1>13. CASE UNCHANGED vars
  <2>1. StreamAlone
    BY <1>0, <1>13 DEF vars, readVars, StreamAlone
  <2> QED  BY <2>1, StreamAloneKeeps
<1> QED
  BY <1>1, <1>2, <1>2a, <1>3, <1>4, <1>5, <1>6, <1>7, <1>8, <1>9, <1>10, <1>11, <1>12,
     <1>13 DEF Next

\* register_connection starts with an empty stream.
LEMMA InitStream ==
  ASSUME Init
  PROVE  StreamInv
<1>1. /\ script = <<>> /\ incoming = <<>> /\ buffer = <<>> /\ delivered = <<>>
      /\ peerOpen = TRUE /\ is_open = TRUE /\ read = "pending"
  BY DEF Init
<1>2. /\ script \in Seq(Frame) /\ Len(script) = 0
      /\ incoming \in Seq(Byte) /\ buffer \in Seq(Byte) /\ Len(buffer) = 0
      /\ delivered \in Seq(Seq(Byte)) /\ Len(delivered) = 0
  BY <1>1
<1>3. StreamTypeOK
  BY <1>1, <1>2 DEF StreamTypeOK
<1>4. Stream = <<>> /\ Len(Stream) = 0
  BY <1>1 DEF Stream
<1>5. 1..0 = {} /\ 1..(0 - 1) = {}
  OBVIOUS
<1>6. Contiguous(Stream, script, Len(delivered) + 1)
  <2>1. Labelled(Stream, script)
    BY <1>4, <1>5 DEF Labelled
  <2>2. Spaced(Stream)
    BY <1>4, <1>5 DEF Spaced
  <2>3. Chained(Stream)
    BY <1>4, <1>5 DEF Chained
  <2>4. StartsAt(Stream, Len(delivered) + 1)
    BY <1>4 DEF StartsAt
  <2> QED  BY <2>1, <2>2, <2>3, <2>4 DEF Contiguous
<1>7. Complete(Stream, script, Len(delivered) + 1)
  BY <1>2, <1>4 DEF Complete
<1>8. Drained
  <2>1. Len(buffer) < HeaderSize
    BY <1>2, ParserAssumption
  <2>2. NextFrame(buffer).kind = "IncompleteHeader"
    BY <2>1 DEF NextFrame
  <2> QED  BY <2>2 DEF Drained
<1>9. FramesIntact
  <2>1. Len(delivered) <= Len(script)
    BY <1>2
  <2> QED  BY <2>1, <1>2, <1>5 DEF FramesIntact
<1> QED  BY <1>3, <1>6, <1>7, <1>8, <1>9 DEF StreamInv, Aligned

\* When everything was read and nothing was cut off, a buffer in which no frame
\* is complete is empty: a stream that is whole and not empty has a first frame.
LEMMA NothingLeft ==
  ASSUME StreamInv
  PROVE  NothingStuck
<1> SUFFICES ASSUME read = "pending", is_open, peerOpen, incoming = <<>>
             PROVE  buffer = <<>> /\ Len(delivered) = Len(script)
  BY DEF NothingStuck
<1> DEFINE n == Len(delivered) + 1
<1>1. /\ buffer \in Seq(Byte) /\ script \in Seq(Frame) /\ delivered \in Seq(Seq(Byte))
  BY DEF StreamInv, StreamTypeOK
<1>2. Stream = buffer
  BY <1>1 DEF Stream
<1>3. Contiguous(buffer, script, n) /\ Complete(buffer, script, n)
  BY <1>2 DEF StreamInv, Aligned
<1>4. Len(buffer) < HeaderSize \/ Len(buffer) < Total(HeaderAt(Head(buffer)))
  BY NextFrameIncomplete DEF StreamInv, Drained
<1>5. n \in Nat /\ Len(delivered) \in Nat /\ Len(script) \in Nat /\ Len(buffer) \in Nat
  BY <1>1
<1>6. CASE buffer = <<>>
  <2>1. n = Len(script) + 1
    BY <1>3, <1>6 DEF Complete
  <2> QED  BY <2>1, <1>5, <1>6
<1>7. CASE buffer # <<>>
  <2> HIDE DEF n
  <2>1. /\ n \in 1..Len(script) /\ buffer[1].header = script[n] /\ buffer[1].pos = 1
        /\ buffer[1].frame = n /\ script[n] \in Frame
    BY <1>1, <1>3, <1>5, <1>7, FrameInFront DEF Contiguous, StartsAt
  <2>2. Head(buffer) = buffer[1] /\ 1 \in 1..Len(buffer) /\ Len(buffer) \in 1..Len(buffer)
    BY <1>1, <1>7
  <2>3. HeaderAt(Head(buffer)) = script[n]
    BY <2>1, <2>2 DEF HeaderAt
  <2>4. Total(script[n]) \in Nat /\ Total(script[n]) >= HeaderSize
    <3>1. script[n].length \in Nat
      BY <2>1 DEF Frame
    <3> QED  BY <3>1, ParserAssumption DEF Total
  <2>5. Len(buffer) < Total(script[n])
    BY <1>4, <1>5, <2>3, <2>4, ParserAssumption
  <2> DEFINE e == buffer[Len(buffer)]
  <2>6. e.frame = Len(script) /\ e.pos = Total(e.header)
    BY <1>3, <1>7 DEF Complete
  <2>7. e = [frame |-> n, pos |-> Len(buffer), header |-> script[n]]
    <3>1. \A i \in 1..Len(buffer) : i <= Total(script[n]) =>
            buffer[i] = [frame |-> n, pos |-> i, header |-> script[n]]
      BY <1>1, <1>3, <1>5, <1>7, FrameInFront
    <3>2. Len(buffer) <= Total(script[n])
      BY <2>4, <2>5, <1>5
    <3> QED  BY <3>1, <3>2, <2>2
  <2> HIDE DEF e
  <2>8. Len(buffer) = Total(script[n])
    BY <2>6, <2>7
  <2> QED  BY <2>4, <2>5, <2>8, <1>5
<1> QED  BY <1>6, <1>7

\* For frames of any sizes, cut into chunks in any way: what on_frame is given
\* are the peer's frames, whole, in order and acceptable.
THEOREM FramesIntactCorrect == Spec => []FramesIntact
<1>1. StreamInv => FramesIntact
  BY DEF StreamInv
<1> QED  BY <1>1, InitStream, StepKeepsStream, PTL DEF Spec

\* No frame that arrived whole waits in the parser for the next one to arrive.
THEOREM NothingStuckCorrect == Spec => []NothingStuck
BY InitStream, StepKeepsStream, NothingLeft, PTL DEF Spec

=============================================================================
