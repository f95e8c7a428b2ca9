---------------------------- MODULE SecureChannel ----------------------------
(***************************************************************************)
(* The AKE handshake and the encrypted frames of one connection between    *)
(* two nodes: Node::initiate_handshake and the HANDSHAKE cases of          *)
(* Node::on_frame (src/src/node.cpp), SecureSession                        *)
(* (src/src/security/secure_session.cpp), and the encryption in            *)
(* TcpConnection::send and process_incoming                                *)
(* (src/src/transport/tcp_connection.cpp).                                 *)
(*                                                                         *)
(* TCP delivers the frames of an endpoint in order.  A handshake is named  *)
(* by its initiator and a number, which stands for the request id, the     *)
(* session id, the nonces and the keys; signatures and NodeIDs are those   *)
(* of honest nodes and verify.  Each handshake has a session object at     *)
(* either end: the initiator's, which the response handler captures, and   *)
(* the responder's.  A connection uses the one that was attached last.     *)
(***************************************************************************)
EXTENDS Naturals, Sequences

CONSTANTS
  Initiators,     \* the endpoints that call initiate_handshake
  MaxHandshakes,  \* how often each does
  MaxData         \* how many other frames an endpoint sends

Endpoints == {"a", "b"}
Other(e) == IF e = "a" THEN "b" ELSE "a"

ASSUME ChannelAssumption ==
  /\ Initiators \subseteq Endpoints
  /\ MaxHandshakes \in Nat /\ MaxData \in Nat

Handshakes == Initiators \X (1..MaxHandshakes)
Sessions == Handshakes \X {"Initiator", "Responder"}
NoSession == <<>>

SessionState ==
  {"Uninitialized", "HandshakeInitSent", "HandshakeRespSent", "Active", "Failed"}

VARIABLES
  open,       \* whether the socket of an endpoint is open
  wire,       \* the frames on their way to an endpoint
  session,    \* secure_session_ of the connection at an endpoint
  state,      \* state_ of each session object
  tx_seq,     \* tx_seq_ of each session object
  seen,       \* what replay_cache_ of each session object has accepted
  pending,    \* the handshakes with a handler in pending_requests_
  timer,      \* the timers of the handshakes
  calls,      \* what the callback of each handshake was given
  raced,      \* history: the handshakes answered when the timer was queued
  sent,       \* how many data frames an endpoint has sent
  delivered   \* the data frames that on_frame was given at an endpoint

sessionVars == <<state, tx_seq, seen>>
rpcVars == <<pending, timer, calls, raced>>
vars == <<open, wire, session, sessionVars, rpcVars, sent, delivered>>

\* The frames: `by' is the session that encrypted the payload.
Plain(type, h) == [type |-> type, hs |-> h, by |-> NoSession, seq |-> 0]
Data(n, by, seq) == [type |-> "DATA", hs |-> n, by |-> by, seq |-> seq]

\* Frames in transit after e has sent f; a closed peer reads nothing.
Sent(w, e, f) ==
  IF open[e] /\ open[Other(e)] THEN [w EXCEPT ![Other(e)] = Append(@, f)] ELSE w

IsActive(s) == s # NoSession /\ state[s] = "Active"

\* process_handshake_init: state_ of a new session; an honest INIT passes.
ProcessHandshakeInit == "HandshakeRespSent"

\* process_handshake_response: state_ of session s after it.
ProcessHandshakeResponse(s) ==
  IF state[s] = "HandshakeInitSent" THEN "Active" ELSE "Failed"

\* process_handshake_complete of handshake h: state_ of session s after it.
\* A session_id other than its own, or any other state, fails the session.
ProcessHandshakeComplete(s, h) ==
  IF state[s] = "HandshakeRespSent" /\ s[1] = h THEN "Active" ELSE "Failed"

\* derive_session_keys: each handshake has a key for either direction, and
\* the two roles use them the opposite way round.
TxKey(s) == <<s[1], IF s[2] = "Initiator" THEN "key_a_to_b" ELSE "key_b_to_a">>
RxKey(s) == <<s[1], IF s[2] = "Initiator" THEN "key_b_to_a" ELSE "key_a_to_b">>

\* chacha20_poly1305_decrypt at session s opens what session by encrypted.
Decrypts(s, by) == RxKey(s) = TxKey(by)

\* decrypt_frame accepts f; the AEAD tag is checked after the replay cache.
DecryptFrame(s, f) == IsActive(s) /\ f.seq \notin seen[s] /\ Decrypts(s, f.by)

-----------------------------------------------------------------------------

Init ==
  /\ open = [e \in Endpoints |-> TRUE]
  /\ wire = [e \in Endpoints |-> <<>>]
  /\ session = [e \in Endpoints |-> NoSession]
  /\ state = [s \in Sessions |-> "Uninitialized"]
  /\ tx_seq = [s \in Sessions |-> 0]
  /\ seen = [s \in Sessions |-> {}]
  /\ pending = {}
  /\ timer = [h \in Handshakes |-> "off"]
  /\ calls = [h \in Handshakes |-> <<>>]
  /\ raced = {}
  /\ sent = [e \in Endpoints |-> 0]
  /\ delivered = [e \in Endpoints |-> <<>>]

\* Node::initiate_handshake and SecureSession::initiate_handshake.
InitiateHandshake(h) ==
  LET e == h[1]
      s == <<h, "Initiator">>
  IN  /\ open[e]
      /\ state[s] = "Uninitialized"
      /\ \A n \in 1..h[2] - 1 : state[<<<<e, n>>, "Initiator">>] # "Uninitialized"
      /\ session' = [session EXCEPT ![e] = s]
      /\ state' = [state EXCEPT ![s] = "HandshakeInitSent"]
      /\ pending' = pending \cup {h}
      /\ timer' = [timer EXCEPT ![h] = "armed"]
      /\ wire' = Sent(wire, e, Plain("INIT", h))
      /\ UNCHANGED <<open, tx_seq, seen, calls, raced, sent, delivered>>

\* The frame f is the next that e reads.
Reads(e, f) == wire[e] # <<>> /\ f = Head(wire[e])
Taken(e) == [wire EXCEPT ![e] = Tail(@)]

\* HANDSHAKE_INIT: process_handshake_init on a new session.
ReceiveInit(e) ==
  \E h \in Handshakes :
    LET s == <<h, "Responder">>
    IN  /\ Reads(e, Plain("INIT", h))
        /\ session' = [session EXCEPT ![e] = s]
        /\ state' = [state EXCEPT ![s] = ProcessHandshakeInit]
        /\ wire' = Sent(Taken(e), e, Plain("RESPONSE", h))
        /\ UNCHANGED <<open, tx_seq, seen, rpcVars, sent, delivered>>

\* Mutant: HANDSHAKE_COMPLETE is not sent.
ReceiveResponseNoComplete(e) ==
  \E h \in pending :
    LET s == <<h, "Initiator">>
        ok == ProcessHandshakeResponse(s) = "Active"
    IN  /\ Reads(e, Plain("RESPONSE", h))
        /\ raced' = IF timer[h] = "queued" THEN raced \cup {h} ELSE raced
        /\ pending' = pending \ {h}
        /\ timer' = [timer EXCEPT ![h] = IF @ = "queued" THEN @ ELSE "off"]
        /\ state' = [state EXCEPT ![s] = ProcessHandshakeResponse(s)]
        /\ wire' = Taken(e)
        /\ calls' = [calls EXCEPT ![h] = Append(@, ok)]
        /\ UNCHANGED <<open, session, tx_seq, seen, sent, delivered>>

\* Mutant: the timer is not cancelled.
ReceiveResponseKeepsTimer(e) ==
  \E h \in pending :
    LET s == <<h, "Initiator">>
        ok == ProcessHandshakeResponse(s) = "Active"
    IN  /\ Reads(e, Plain("RESPONSE", h))
        /\ raced' = IF timer[h] = "queued" THEN raced \cup {h} ELSE raced
        /\ pending' = pending \ {h}
        /\ state' = [state EXCEPT ![s] = ProcessHandshakeResponse(s)]
        /\ wire' = IF ok THEN Sent(Taken(e), e, Plain("COMPLETE", h)) ELSE Taken(e)
        /\ calls' = [calls EXCEPT ![h] = Append(@, ok)]
        /\ UNCHANGED <<open, session, tx_seq, seen, timer, sent, delivered>>

\* The handler of a pending handshake: process_handshake_response on the
\* session that it captured.  timer->cancel() does not stop a queued handler.
ReceiveResponse(e) ==
  \E h \in pending :
    LET s == <<h, "Initiator">>
        ok == ProcessHandshakeResponse(s) = "Active"
    IN  /\ Reads(e, Plain("RESPONSE", h))
        /\ raced' = IF timer[h] = "queued" THEN raced \cup {h} ELSE raced
        /\ pending' = pending \ {h}
        /\ timer' = [timer EXCEPT ![h] = IF @ = "queued" THEN @ ELSE "off"]
        /\ state' = [state EXCEPT ![s] = ProcessHandshakeResponse(s)]
        /\ wire' = IF ok THEN Sent(Taken(e), e, Plain("COMPLETE", h)) ELSE Taken(e)
        /\ calls' = [calls EXCEPT ![h] = Append(@, ok)]
        /\ UNCHANGED <<open, session, tx_seq, seen, sent, delivered>>

\* A response to a handshake that has timed out has no handler.
ReceiveLateResponse(e) ==
  \E h \in Handshakes \ pending :
    /\ Reads(e, Plain("RESPONSE", h))
    /\ wire' = Taken(e)
    /\ UNCHANGED <<open, session, sessionVars, rpcVars, sent, delivered>>

\* HANDSHAKE_COMPLETE of the handshake that the attached session waits for.
ReceiveComplete(e) ==
  \E h \in Handshakes :
    LET s == session[e]
    IN  /\ Reads(e, Plain("COMPLETE", h))
        /\ s # NoSession /\ ProcessHandshakeComplete(s, h) = "Active"
        /\ state' = [state EXCEPT ![s] = "Active"]
        /\ wire' = Taken(e)
        /\ UNCHANGED <<open, session, tx_seq, seen, rpcVars, sent, delivered>>

\* Any other: the attached session fails and the connection is closed.  The
\* frames that were read with this one, any prefix of the wire, still come.
ReceiveWrongComplete(e) ==
  \E h \in Handshakes :
    LET s == session[e]
    IN  /\ Reads(e, Plain("COMPLETE", h))
        /\ s # NoSession => ProcessHandshakeComplete(s, h) = "Failed"
        /\ state' = IF s = NoSession THEN state ELSE [state EXCEPT ![s] = "Failed"]
        /\ open' = [open EXCEPT ![e] = FALSE]
        /\ \E n \in 0..Len(wire[e]) - 1 :
             wire' = [wire EXCEPT ![e] = SubSeq(@, 2, n + 1)]
        /\ UNCHANGED <<session, tx_seq, seen, rpcVars, sent, delivered>>

\* Mutant: tx_seq_ is not incremented.
SendDataSameSeq(e) ==
  LET s == session[e]
      n == sent[e] + 1
  IN  /\ open[e]
      /\ sent[e] < MaxData
      /\ sent' = [sent EXCEPT ![e] = n]
      /\ wire' = Sent(wire, e, IF IsActive(s) THEN Data(n, s, tx_seq[s] + 1)
                               ELSE Data(n, NoSession, 0))
      /\ UNCHANGED <<open, session, state, tx_seq, seen, rpcVars, delivered>>

\* TcpConnection::send of any other frame: encrypt_frame when the attached
\* session is active.
SendData(e) ==
  LET s == session[e]
      n == sent[e] + 1
  IN  /\ open[e]
      /\ sent[e] < MaxData
      /\ sent' = [sent EXCEPT ![e] = n]
      /\ IF IsActive(s)
         THEN /\ tx_seq' = [tx_seq EXCEPT ![s] = @ + 1]
              /\ wire' = Sent(wire, e, Data(n, s, tx_seq[s] + 1))
         ELSE /\ wire' = Sent(wire, e, Data(n, NoSession, 0))
              /\ UNCHANGED tx_seq
      /\ UNCHANGED <<open, session, state, seen, rpcVars, delivered>>

\* process_incoming of a data frame: one that is not encrypted, or one that
\* decrypt_frame accepts, is given to on_frame.
ReceiveData(e) ==
  \E n \in 1..MaxData :
    LET s == session[e]
        f == Head(wire[e])
    IN  /\ wire[e] # <<>> /\ f.type = "DATA" /\ f.hs = n
        /\ \/ /\ f.by = NoSession
              /\ UNCHANGED seen
           \/ /\ f.by # NoSession
              /\ DecryptFrame(s, f)
              /\ seen' = [seen EXCEPT ![s] = @ \cup {f.seq}]
        /\ delivered' = [delivered EXCEPT ![e] = Append(@, n)]
        /\ wire' = Taken(e)
        /\ UNCHANGED <<open, session, state, tx_seq, rpcVars, sent>>

\* Mutant: a frame that is rejected is skipped.
RejectDataSkips(e) ==
  LET s == session[e]
      f == Head(wire[e])
  IN  /\ wire[e] # <<>> /\ f.type = "DATA" /\ f.by # NoSession
      /\ ~DecryptFrame(s, f)
      /\ seen' = IF IsActive(s) THEN [seen EXCEPT ![s] = @ \cup {f.seq}] ELSE seen
      /\ wire' = Taken(e)
      /\ UNCHANGED <<open, session, state, tx_seq, rpcVars, sent, delivered>>

\* An encrypted frame without an active session, that was seen before or that
\* the keys do not open closes the connection; nothing more is read.
RejectData(e) ==
  LET s == session[e]
      f == Head(wire[e])
  IN  /\ wire[e] # <<>> /\ f.type = "DATA" /\ f.by # NoSession
      /\ ~DecryptFrame(s, f)
      /\ seen' = IF IsActive(s) THEN [seen EXCEPT ![s] = @ \cup {f.seq}] ELSE seen
      /\ open' = [open EXCEPT ![e] = FALSE]
      /\ wire' = [wire EXCEPT ![e] = <<>>]
      /\ UNCHANGED <<session, state, tx_seq, rpcVars, sent, delivered>>

\* The time of a handshake is over: the handler of its timer is queued.
TimerExpires(h) ==
  /\ timer[h] = "armed"
  /\ timer' = [timer EXCEPT ![h] = "queued"]
  /\ UNCHANGED <<open, wire, session, sessionVars, pending, calls, raced, sent, delivered>>

\* The handler of the timer, whether the handshake is still pending or not.
TimerFires(h) ==
  /\ timer[h] = "queued"
  /\ timer' = [timer EXCEPT ![h] = "off"]
  /\ pending' = pending \ {h}
  /\ calls' = [calls EXCEPT ![h] = Append(@, FALSE)]
  /\ UNCHANGED <<open, wire, session, sessionVars, raced, sent, delivered>>

Receive(e) ==
  \/ ReceiveInit(e)
  \/ ReceiveResponse(e)
  \/ ReceiveLateResponse(e)
  \/ ReceiveComplete(e)
  \/ ReceiveWrongComplete(e)
  \/ ReceiveData(e)
  \/ RejectData(e)

Next ==
  \/ \E h \in Handshakes : InitiateHandshake(h) \/ TimerExpires(h) \/ TimerFires(h)
  \/ \E e \in Endpoints : Receive(e) \/ SendData(e)

Spec == Init /\ [][Next]_vars

\* Frames on the wire are read, timers expire and their handlers run.
Fairness ==
  /\ \A e \in Endpoints : WF_vars(Receive(e))
  /\ \A h \in Handshakes : WF_vars(TimerExpires(h)) /\ WF_vars(TimerFires(h))

FairSpec == Spec /\ Fairness

-----------------------------------------------------------------------------

\* The data frames that are delivered are, in order and without a gap, the
\* first that the peer sent, across the change from plain to encrypted.
DeliveredInOrder ==
  \A e \in Endpoints :
    /\ Len(delivered[e]) <= sent[Other(e)]
    /\ \A i \in 1..Len(delivered[e]) : delivered[e][i] = i

\* The handshakes started on the connection, and that there is at most one.
Started == {h \in Handshakes : state[<<h, "Initiator">>] # "Uninitialized"}
Alone == \A g, h \in Started : g = h

\* A handshake that succeeded for its initiator makes the session of the
\* responder active, although data frames follow HANDSHAKE_COMPLETE, unless
\* another handshake is started on the connection.
SuccessReachesPeer ==
  \A h \in Handshakes :
    (\E i \in 1..Len(calls[h]) : calls[h][i])
      ~> (state[<<h, "Responder">>] = "Active" \/ ~Alone)

\* As long as there is one handshake on the connection, no frame of an honest
\* peer closes it, the first encrypted ones and those sent around the handshake
\* included.  A second handshake, whether it overlaps the first or follows it,
\* replaces the session at once (src/src/node.cpp:1233), and a frame that the
\* peer encrypted for the old one is then rejected.
NothingRejected == Alone => \A e \in Endpoints : open[e]

\* The callback of a handshake runs at most once, unless its answer came when
\* the handler of its timer was queued: "handshake_success = ok;
\* handshake_done = true" (src/tests/integration/test_ake_integration.cpp:69)
\* takes what it is given for the result.
CallbackOnceInTime == \A h \in Handshakes \ raced : Len(calls[h]) <= 1

\* "A secure end-to-end encrypted session between two peers"
\* (src/src/security/secure_session.hpp:45): when the sessions attached at
\* both ends are active, each decrypts what the other encrypts.
SessionsAgree ==
  IsActive(session["a"]) /\ IsActive(session["b"])
    => Decrypts(session["a"], session["b"])

=============================================================================
