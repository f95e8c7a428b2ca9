---------------------------- MODULE TcpConnection ----------------------------
(***************************************************************************)
(* One transport::TcpConnection (src/src/transport/tcp_connection.cpp) as  *)
(* Node::register_connection (src/src/node.cpp) sets it up: the read loop  *)
(* and the frame parser, the write queue, the inactivity timer, and the    *)
(* disconnect handler, which takes the connection out of connections_.     *)
(*                                                                         *)
(* The peer's bytes come in chunks of any size.  The frame handler, which  *)
(* is Node::on_frame, may send a frame or close the connection; it runs in *)
(* the middle of process_incoming, so a read handler is several steps.     *)
(***************************************************************************)
EXTENDS FrameParser

CONSTANTS
  Frames,     \* the frames that the peer may send
  MaxFrames,  \* how many frames the peer sends
  MaxSends    \* how many frames the node sends

ASSUME FramesAssumption == Frames \subseteq Frame
ASSUME BoundsAssumption == MaxFrames \in Nat /\ MaxSends \in Nat

VARIABLES
  script,       \* the frames that the peer has sent
  incoming,     \* their bytes that have not been read
  peerOpen,     \* whether the peer has not closed its end
  is_open,      \* socket_.is_open()
  read,         \* the read: "none", "pending", "queued" or "processing"
  buffer,       \* buffer_ of the parser, and read_buf_ when a read is queued
  delivered,    \* the frames that the frame handler was given
  write_queue,  \* write_queue_, of the numbers of the frames
  writing,      \* writing_
  writes,       \* the write operations that have not completed
  sent,         \* how many frames were given to send()
  written,      \* the frames whose write completed
  timer,        \* whether io_timer_ waits
  expired,      \* whether a handler of io_timer_ that expired is queued
  registered    \* whether connections_ holds the connection

readVars == <<script, incoming, peerOpen, read, buffer, delivered>>
writeVars == <<write_queue, writing, writes, sent, written>>
timerVars == <<timer, expired>>
vars == <<readVars, writeVars, timerVars, is_open, registered>>

-----------------------------------------------------------------------------

\* register_connection: configured, reading and in connections_.
Init ==
  /\ script = <<>>
  /\ incoming = <<>>
  /\ peerOpen = TRUE
  /\ is_open = TRUE
  /\ read = "pending"
  /\ buffer = <<>>
  /\ delivered = <<>>
  /\ write_queue = <<>> /\ writing = FALSE /\ writes = 0
  /\ sent = 0 /\ written = <<>>
  /\ timer = TRUE /\ expired = FALSE
  /\ registered = TRUE

\* Mutant: the timer is cancelled and not started again.
ResetIoTimerOnlyCancels ==
  /\ timer' = (timer /\ ~is_open)
  /\ UNCHANGED expired

\* TcpConnection::reset_io_timer: a handler that is queued is not cancelled.
ResetIoTimer ==
  /\ timer' = (timer \/ is_open)
  /\ UNCHANGED expired

\* TcpConnection::close, and the disconnect handler that it calls.
Close == is_open' = FALSE /\ registered' = FALSE

\* The calls of disconnect_handler_ without close.
Disconnected == registered' = FALSE /\ UNCHANGED is_open

\* Mutant: a write is started although one is running.
SendWritesAtOnce ==
  /\ sent < MaxSends
  /\ sent' = sent + 1
  /\ IF is_open
     THEN /\ ResetIoTimer
          /\ write_queue' = Append(write_queue, sent + 1)
          /\ writing' = TRUE
          /\ writes' = writes + 1
     ELSE UNCHANGED <<timerVars, write_queue, writing, writes>>
  /\ UNCHANGED written

\* TcpConnection::send and the do_write that it starts.
Send ==
  /\ sent < MaxSends
  /\ sent' = sent + 1
  /\ IF is_open
     THEN /\ ResetIoTimer
          /\ write_queue' = Append(write_queue, sent + 1)
          /\ writing' = TRUE
          /\ writes' = IF writing THEN writes ELSE writes + 1
     ELSE UNCHANGED <<timerVars, write_queue, writing, writes>>
  /\ UNCHANGED written

Idle == read # "processing"

\* A frame that the node sends of its own accord.
SendFrame ==
  /\ Idle
  /\ Send
  /\ UNCHANGED <<readVars, is_open, registered>>

\* The read completes with n bytes: its handler is queued.
ReadSome(n) ==
  /\ read = "pending" /\ is_open
  /\ n <= Len(incoming)
  /\ buffer' = buffer \o SubSeq(incoming, 1, n)
  /\ incoming' = SubSeq(incoming, n + 1, Len(incoming))
  /\ read' = "queued"
  /\ UNCHANGED <<script, peerOpen, delivered, writeVars, timerVars, is_open, registered>>

\* The handler of the read, although the socket may be closed by now: the
\* parser is fed.
ReadHandler ==
  /\ read = "queued"
  /\ read' = "processing"
  /\ ResetIoTimer
  /\ UNCHANGED <<script, incoming, peerOpen, buffer, delivered, writeVars, is_open,
                 registered>>

\* Mutant: the loop is left after one frame.
ProcessOneFrame ==
  LET res == NextFrame(buffer)
  IN  /\ read = "processing"
      /\ res.kind = "Frame"
      /\ buffer' = res.rest
      /\ delivered' = Append(delivered, res.frame)
      /\ read' = "pending"
      /\ \/ UNCHANGED <<writeVars, timerVars, is_open, registered>>
         \/ Send /\ UNCHANGED <<is_open, registered>>
         \/ Close /\ UNCHANGED <<writeVars, timerVars>>
      /\ UNCHANGED <<script, incoming, peerOpen>>

\* process_incoming, one frame: it is given to the handler, which may answer
\* or close the connection; either way the loop goes on.
ProcessFrame ==
  LET res == NextFrame(buffer)
  IN  /\ read = "processing"
      /\ res.kind = "Frame"
      /\ buffer' = res.rest
      /\ delivered' = Append(delivered, res.frame)
      /\ \/ UNCHANGED <<writeVars, timerVars, is_open, registered>>
         \/ Send /\ UNCHANGED <<is_open, registered>>
         \/ Close /\ UNCHANGED <<writeVars, timerVars>>
      /\ UNCHANGED <<script, incoming, peerOpen, read>>

\* process_incoming, a protocol error: the connection is closed, the loop is
\* left, and do_read starts the next read, on the closed socket.
ProcessError ==
  LET res == NextFrame(buffer)
  IN  /\ read = "processing"
      /\ res.kind \in {"UnsupportedVersion", "PayloadTooLarge"}
      /\ buffer' = res.rest
      /\ read' = "pending"
      /\ Close
      /\ UNCHANGED <<script, incoming, peerOpen, delivered, writeVars, timerVars>>

\* process_incoming, no complete frame: the next read is started.
ProcessDone ==
  /\ read = "processing"
  /\ NextFrame(buffer).kind \in {"IncompleteHeader", "IncompletePayload"}
  /\ read' = "pending"
  /\ UNCHANGED <<script, incoming, peerOpen, buffer, delivered, writeVars, timerVars,
                 is_open, registered>>

\* Mutant: the disconnect handler is not called.
ReadFailsSilently ==
  /\ read = "pending"
  /\ ~is_open \/ (~peerOpen /\ incoming = <<>>)
  /\ read' = "none"
  /\ UNCHANGED <<script, incoming, peerOpen, buffer, delivered, writeVars, timerVars,
                 is_open, registered>>

\* The read fails: the peer closed its end, or the socket was closed.  The
\* read loop ends; the socket is left as it is.  operation_aborted skips the
\* handler, but then close has called it before.
ReadFails ==
  /\ read = "pending"
  /\ ~is_open \/ (~peerOpen /\ incoming = <<>>)
  /\ read' = "none"
  /\ Disconnected
  /\ UNCHANGED <<script, incoming, peerOpen, buffer, delivered, writeVars, timerVars>>

\* The write completes: the frame is popped and the next one is written.
WriteCompletes ==
  /\ Idle
  /\ writes > 0 /\ is_open
  /\ written' = Append(written, Head(write_queue))
  /\ write_queue' = Tail(write_queue)
  /\ writing' = (write_queue' # <<>>)
  /\ writes' = IF write_queue' # <<>> THEN writes ELSE writes - 1
  /\ UNCHANGED <<readVars, sent, timerVars, is_open, registered>>

\* The write fails: writing_ and the queue are left as they are.
WriteFails ==
  /\ Idle
  /\ writes > 0
  /\ ~is_open \/ ~peerOpen
  /\ writes' = writes - 1
  /\ Disconnected
  /\ UNCHANGED <<readVars, write_queue, writing, sent, written, timerVars>>

\* The inactivity timer expires: its handler is queued, at most one at a time.
TimerExpires ==
  /\ timer /\ ~expired
  /\ timer' = FALSE
  /\ expired' = TRUE
  /\ UNCHANGED <<readVars, writeVars, is_open, registered>>

\* The handler of the timer, although the timer was reset when it was queued.
TimerFires ==
  /\ Idle
  /\ expired
  /\ expired' = FALSE
  /\ IF is_open THEN Close ELSE UNCHANGED <<is_open, registered>>
  /\ UNCHANGED <<readVars, writeVars, timer>>

\* Node::stop, or any other close from outside the read handler.
CloseOutside ==
  /\ Idle
  /\ is_open
  /\ Close
  /\ UNCHANGED <<readVars, writeVars, timerVars>>

\* The peer sends a frame: its bytes follow those that are on their way.
PeerSends(f) ==
  /\ peerOpen
  /\ Len(script) < MaxFrames
  /\ script' = Append(script, f)
  /\ incoming' = incoming \o Serialize(Len(script) + 1, f)
  /\ UNCHANGED <<peerOpen, read, buffer, delivered, writeVars, timerVars, is_open,
                 registered>>

\* The peer closes its end: what has not left it never comes.
PeerCloses ==
  /\ peerOpen
  /\ peerOpen' = FALSE
  /\ \E n \in 0..Len(incoming) : incoming' = SubSeq(incoming, 1, n)
  /\ UNCHANGED <<script, read, buffer, delivered, writeVars, timerVars, is_open,
                 registered>>

Next ==
  \/ SendFrame
  \/ \E n \in 1..Len(incoming) : ReadSome(n)
  \/ ReadHandler \/ ProcessFrame \/ ProcessError \/ ProcessDone
  \/ ReadFails
  \/ WriteCompletes \/ WriteFails
  \/ TimerExpires \/ TimerFires
  \/ CloseOutside
  \/ \E f \in Frames : PeerSends(f)
  \/ PeerCloses

Spec == Init /\ [][Next]_vars

(***************************************************************************)
(* A read handler goes on, a failed read or write completes, the timer     *)
(* expires and its handler gets its turn.  Nothing is assumed of the peer. *)
(***************************************************************************)
Fairness ==
  /\ WF_vars(ReadHandler \/ ProcessFrame \/ ProcessError \/ ProcessDone)
  /\ WF_vars(ReadFails)
  /\ WF_vars(TimerExpires)
  /\ SF_vars(TimerFires)

FairSpec == Spec /\ Fairness

-----------------------------------------------------------------------------

\* However the bytes are cut into chunks, the frames that on_frame is given
\* are the peer's, whole and in order, and the parser accepts each of them.
FramesIntact ==
  /\ Len(delivered) <= Len(script)
  /\ \A i \in 1..Len(delivered) :
       delivered[i] = Serialize(i, script[i]) /\ IsAcceptable(script[i])

\* No frame is left in the parser: whenever all bytes of the peer were read
\* and the connection waits for more, every frame so far was delivered.
NothingStuck ==
  read = "pending" /\ is_open /\ peerOpen /\ incoming = <<>>
    => buffer = <<>> /\ Len(delivered) = Len(script)

\* A connection in connections_ is open and has a read that will end: a lookup
\* that takes it from there can get its answer.
RegisteredIsLive == registered => is_open /\ read # "none"

\* Frames are written in the order of send(), by one write operation at a
\* time, and while the peer is there a queue that is not empty has one.
WriteQueueServed ==
  /\ LET all == written \o write_queue IN \A i \in 1..Len(all) : all[i] = i
  /\ writes <= 1
  /\ writes = 1 => write_queue # <<>>
  /\ is_open /\ peerOpen /\ write_queue # <<>> => writes = 1

\* When the read loop has ended the socket is closed in the end, by the
\* inactivity timer if by nothing else.
EndedIsClosed == read = "none" ~> ~is_open

=============================================================================
