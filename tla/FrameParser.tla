----------------------------- MODULE FrameParser -----------------------------
(***************************************************************************)
(* transport::FrameParser (src/src/transport/frame.cpp) as operators on    *)
(* its buffer.                                                             *)
(*                                                                         *)
(* A frame is a version and the length of its payload; on the wire it is a *)
(* header of HeaderSize bytes and the payload.  A byte is the frame it is  *)
(* of and its position there.  The parser takes what is at the front of    *)
(* its buffer for a header: only the first byte of a frame reads as one.   *)
(***************************************************************************)
EXTENDS Naturals, Sequences

CONSTANTS
  HeaderSize,       \* FRAME_HEADER_SIZE
  MaxPayload,       \* max_payload_
  ExpectedVersion   \* expected_version_

ASSUME ParserAssumption ==
  /\ HeaderSize \in Nat \ {0} /\ MaxPayload \in Nat /\ ExpectedVersion \in Nat

Frame == [version : Nat, length : Nat]

\* Frame::serialize, of the i-th frame that a peer sends.
Serialize(i, f) ==
  [k \in 1..HeaderSize + f.length |-> [frame |-> i, pos |-> k, header |-> f]]

\* The header that a byte at the front of the buffer reads as.
HeaderAt(byte) ==
  IF byte.pos = 1 THEN byte.header ELSE [version |-> 0, length |-> 0]

\* Mutant: the length of a payload is not checked.
NextFrameAnyLength(buf) ==
  LET hdr == HeaderAt(Head(buf))
      total == HeaderSize + hdr.length
      Result(kind, frame, used) ==
        [kind |-> kind, frame |-> frame, rest |-> SubSeq(buf, used + 1, Len(buf))]
  IN  IF Len(buf) < HeaderSize THEN Result("IncompleteHeader", <<>>, 0)
      ELSE IF hdr.version # ExpectedVersion
      THEN Result("UnsupportedVersion", <<>>, HeaderSize)
      ELSE IF Len(buf) < total THEN Result("IncompletePayload", <<>>, 0)
      ELSE Result("Frame", SubSeq(buf, 1, total), total)

\* FrameParser::next_frame: the outcome, and the buffer it leaves.
NextFrame(buf) ==
  LET hdr == HeaderAt(Head(buf))
      total == HeaderSize + hdr.length
      Result(kind, frame, used) ==
        [kind |-> kind, frame |-> frame, rest |-> SubSeq(buf, used + 1, Len(buf))]
  IN  IF Len(buf) < HeaderSize THEN Result("IncompleteHeader", <<>>, 0)
      ELSE IF hdr.version # ExpectedVersion
      THEN Result("UnsupportedVersion", <<>>, HeaderSize)
      ELSE IF hdr.length > MaxPayload
      THEN Result("PayloadTooLarge", <<>>, HeaderSize)
      ELSE IF Len(buf) < total THEN Result("IncompletePayload", <<>>, 0)
      ELSE Result("Frame", SubSeq(buf, 1, total), total)

\* A frame that the parser accepts.
IsAcceptable(f) == f.version = ExpectedVersion /\ f.length <= MaxPayload

=============================================================================
