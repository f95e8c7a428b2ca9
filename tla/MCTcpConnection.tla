--------------------------- MODULE MCTcpConnection ---------------------------
(***************************************************************************)
(* TcpConnection with a peer that sends up to two frames of the expected   *)
(* or another version, with payloads up to one byte more than is allowed.  *)
(***************************************************************************)
EXTENDS TcpConnection

MCFrames == [version : {1, 2}, length : {0, MaxPayload, MaxPayload + 1}]

=============================================================================
