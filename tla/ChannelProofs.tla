---------------------------- MODULE ChannelProofs ---------------------------
(***************************************************************************)
(* SecureChannel, for any number of handshakes and frames, alone or        *)
(* crossing: the types of its state, that the callback of a handshake runs *)
(* at most once unless its timer was queued, and that data frames are      *)
(* delivered in order and without a gap.                                   *)
(***************************************************************************)
EXTENDS SecureChannel, TLAPS

\* The backends, in the order in which a leaf is given to them.
USE ZenonT(2), SMTT(10), ZenonT(20), SMTT(40)

\* The frames that the nodes send.
HandshakeFrames == {Plain(t, h) : t \in {"INIT", "RESPONSE", "COMPLETE"}, h \in Handshakes}
DataFrames == {Data(n, by, q) : n \in Nat, by \in Sessions \cup {NoSession}, q \in Nat}
Frames == HandshakeFrames \cup DataFrames

IsData(f) == f.type = "DATA"
Encrypted(f) == f.by # NoSession

\* The frames of w are numbered in order, from d + 1 and at most m, without a
\* gap.
InOrder(w, d, m) ==
  /\ \A i \in 1..Len(w) : IsData(w[i]) => w[i].hs \in (d + 1)..m
  /\ \A i, j \in 1..Len(w) :
       IsData(w[i]) /\ IsData(w[j]) /\ i < j => w[i].hs < w[j].hs
  /\ \A j \in 1..Len(w) : IsData(w[j]) =>
       \A n \in (d + 1)..w[j].hs : \E i \in 1..Len(w) : IsData(w[i]) /\ w[i].hs = n

\* None of the frames from d + 1 to m is missing.
Full(w, d, m) ==
  \A n \in (d + 1)..m : \E i \in 1..Len(w) : IsData(w[i]) /\ w[i].hs = n

ChannelTypeOK ==
  /\ open \in [Endpoints -> BOOLEAN]
  /\ wire \in [Endpoints -> Seq(Frames)]
  /\ session \in [Endpoints -> Sessions \cup {NoSession}]
  /\ state \in [Sessions -> SessionState]
  /\ tx_seq \in [Sessions -> Nat]
  /\ seen \in [Sessions -> SUBSET Nat]
  /\ pending \subseteq Handshakes
  /\ timer \in [Handshakes -> {"off", "armed", "queued"}]
  /\ calls \in [Handshakes -> Seq(BOOLEAN)]
  /\ raced \subseteq Handshakes
  /\ sent \in [Endpoints -> Nat]
  /\ delivered \in [Endpoints -> Seq(Nat)]

OrderInv ==
  \A e \in Endpoints :
    /\ Len(delivered[e]) <= sent[Other(e)]
    /\ \A i \in 1..Len(delivered[e]) : delivered[e][i] = i
    /\ InOrder(wire[e], Len(delivered[e]), sent[Other(e)])
    /\ open[e] /\ open[Other(e)] => Full(wire[e], Len(delivered[e]), sent[Other(e)])

\* A handshake that waits has a timer and was not answered; one whose timer is
\* on waits, unless an answer met the handler of the timer.
CallbackInv ==
  \A h \in Handshakes :
    /\ h \in pending => calls[h] = <<>> /\ timer[h] # "off" /\ h \notin raced
    /\ timer[h] # "off" => h \in pending \/ h \in raced
    /\ state[<<h, "Initiator">>] = "Uninitialized" =>
         calls[h] = <<>> /\ h \notin raced /\ h \notin pending
    /\ h \notin raced => Len(calls[h]) <= 1

(***************************************************************************)
(* Types.                                                                  *)
(***************************************************************************)

\* The two endpoints, and the one at the other end.
LEMMA OtherFacts ==
  \A e \in Endpoints : Other(e) \in Endpoints /\ Other(e) # e /\ Other(Other(e)) = e
BY DEF Endpoints, Other

\* The sessions of a handshake, and the endpoint that initiates it.
LEMMA SessionFacts ==
  ASSUME NEW h \in Handshakes
  PROVE  /\ <<h, "Initiator">> \in Sessions /\ <<h, "Responder">> \in Sessions
         /\ h[1] \in Endpoints
         /\ <<h, "Initiator">> # NoSession /\ <<h, "Responder">> # NoSession
<1>1. h[1] \in Endpoints
  BY ChannelAssumption DEF Handshakes
<1> HIDE DEF Handshakes
<1>2. <<h, "Initiator">> \in Sessions /\ <<h, "Responder">> \in Sessions
  BY DEF Sessions
<1>3. <<h, "Initiator">> # NoSession /\ <<h, "Responder">> # NoSession
  BY DEF NoSession
<1> QED  BY <1>1, <1>2, <1>3

\* No session object is the absent one.
LEMMA NoSessionIsNone == NoSession \notin Sessions
BY DEF NoSession, Sessions

\* The fields of the frames.
LEMMA FrameFacts ==
  /\ \A t \in {"INIT", "RESPONSE", "COMPLETE"}, h \in Handshakes :
       /\ Plain(t, h) \in Frames /\ Plain(t, h).type = t /\ Plain(t, h).hs = h
       /\ ~Encrypted(Plain(t, h)) /\ ~IsData(Plain(t, h))
  /\ \A n \in Nat, by \in Sessions \cup {NoSession}, q \in Nat :
       /\ Data(n, by, q) \in Frames /\ IsData(Data(n, by, q)) /\ Data(n, by, q).hs = n
       /\ Data(n, by, q).by = by /\ Data(n, by, q).seq = q
<1>1. ASSUME NEW t \in {"INIT", "RESPONSE", "COMPLETE"}, NEW h \in Handshakes
      PROVE  /\ Plain(t, h) \in Frames /\ Plain(t, h).type = t /\ Plain(t, h).hs = h
             /\ ~Encrypted(Plain(t, h)) /\ ~IsData(Plain(t, h))
  <2>1. Plain(t, h) \in HandshakeFrames
    BY DEF HandshakeFrames
  <2>2. Plain(t, h).type = t /\ Plain(t, h).hs = h /\ Plain(t, h).by = NoSession
    BY DEF Plain
  <2>3. t # "DATA"
    OBVIOUS
  <2> QED  BY <2>1, <2>2, <2>3 DEF Frames, Encrypted, IsData
<1>2. ASSUME NEW n \in Nat, NEW by \in Sessions \cup {NoSession}, NEW q \in Nat
      PROVE  /\ Data(n, by, q) \in Frames /\ IsData(Data(n, by, q))
             /\ Data(n, by, q).hs = n
             /\ Data(n, by, q).by = by /\ Data(n, by, q).seq = q
  <2>1. Data(n, by, q) \in DataFrames
    BY DEF DataFrames
  <2>2. /\ Data(n, by, q).type = "DATA" /\ Data(n, by, q).hs = n
        /\ Data(n, by, q).by = by /\ Data(n, by, q).seq = q
    BY DEF Data
  <2> QED  BY <2>1, <2>2 DEF Frames, IsData
<1> QED  BY SMTT(30), <1>1, <1>2

\* A handshake frame, and a data frame, given its fields.
LEMMA PlainFrame ==
  ASSUME NEW t \in {"INIT", "RESPONSE", "COMPLETE"}, NEW h \in Handshakes
  PROVE  /\ Plain(t, h) \in Frames /\ Plain(t, h).type = t /\ Plain(t, h).hs = h
         /\ ~Encrypted(Plain(t, h)) /\ ~IsData(Plain(t, h))
<1> HIDE DEF Frames, IsData, Handshakes
<1> QED  BY SMTT(30), FrameFacts

\* The same for the frame that carries number n under sequence number q.
LEMMA DataFrame ==
  ASSUME NEW n \in Nat, NEW by \in Sessions \cup {NoSession}, NEW q \in Nat
  PROVE  /\ Data(n, by, q) \in Frames /\ IsData(Data(n, by, q))
         /\ Data(n, by, q).hs = n
         /\ Data(n, by, q).by = by /\ Data(n, by, q).seq = q
<1> HIDE DEF Frames, IsData, Sessions, NoSession
<1> QED  BY SMTT(30), FrameFacts

\* A data frame that is not encrypted.
LEMMA PlainData ==
  ASSUME NEW n \in Nat
  PROVE  LET f == Data(n, NoSession, 0)
         IN  f \in Frames /\ IsData(f) /\ ~Encrypted(f)
<1> HIDE DEF Frames, Sessions, IsData, NoSession
<1>1. NoSession \in Sessions \cup {NoSession} /\ 0 \in Nat
  OBVIOUS
<1> DEFINE f == Data(n, NoSession, 0)
<1>2. f \in Frames /\ IsData(f) /\ f.by = NoSession
  BY SMTT(30), <1>1, DataFrame
<1> QED  BY <1>2 DEF Encrypted

\* What the fields of a frame can be.
LEMMA FrameFields ==
  ASSUME NEW f \in Frames
  PROVE  f.seq \in Nat /\ (IsData(f) => f.hs \in Nat)
<1>1. CASE f \in HandshakeFrames
  <2>1. PICK t \in {"INIT", "RESPONSE", "COMPLETE"}, h \in Handshakes : f = Plain(t, h)
    BY <1>1 DEF HandshakeFrames
  <2>2. f.seq = 0 /\ f.type = t
    BY <2>1 DEF Plain
  <2> QED  BY <2>2 DEF IsData
<1>2. CASE f \in DataFrames
  <2>1. PICK n \in Nat, by \in Sessions \cup {NoSession}, q \in Nat : f = Data(n, by, q)
    BY <1>2 DEF DataFrames
  <2>2. f.seq = q /\ f.hs = n
    BY <2>1 DEF Data
  <2> QED  BY <2>2
<1> QED  BY <1>1, <1>2 DEF Frames

\* Frames that are sent or read leave frames on the wires.
LEMMA WireTypes ==
  ASSUME NEW w \in [Endpoints -> Seq(Frames)], NEW e \in Endpoints
  PROVE  /\ \A f \in Frames : Sent(w, e, f) \in [Endpoints -> Seq(Frames)]
         /\ w[e] # <<>> => [w EXCEPT ![e] = Tail(@)] \in [Endpoints -> Seq(Frames)]
         /\ \A n \in 0..Len(w[e]) - 1 :
              [w EXCEPT ![e] = SubSeq(@, 2, n + 1)] \in [Endpoints -> Seq(Frames)]
         /\ [w EXCEPT ![e] = <<>>] \in [Endpoints -> Seq(Frames)]
<1> HIDE DEF Frames, Endpoints
<1>0. w[e] \in Seq(Frames) /\ Other(e) \in Endpoints /\ w[Other(e)] \in Seq(Frames)
  BY OtherFacts
<1>1. ASSUME NEW f \in Frames
      PROVE  Sent(w, e, f) \in [Endpoints -> Seq(Frames)]
  <2>1. Append(w[Other(e)], f) \in Seq(Frames)
    BY <1>0
  <2>2. [w EXCEPT ![Other(e)] = Append(@, f)] \in [Endpoints -> Seq(Frames)]
    BY <2>1, <1>0
  <2> QED  BY <2>2 DEF Sent
<1>2. w[e] # <<>> => Tail(w[e]) \in Seq(Frames)
  BY <1>0
<1>3. ASSUME NEW n \in 0..Len(w[e]) - 1
      PROVE  SubSeq(w[e], 2, n + 1) \in Seq(Frames)
  BY <1>0
<1>4. <<>> \in Seq(Frames)
  OBVIOUS
<1> QED  BY <1>1, <1>2, <1>3, <1>4

\* Every state of a session object is one of the enum.
LEMMA StateTypes ==
  /\ \A s : ProcessHandshakeResponse(s) \in SessionState
  /\ ProcessHandshakeInit \in SessionState
  /\ "HandshakeInitSent" \in SessionState
  /\ "Active" \in SessionState /\ "Failed" \in SessionState
BY DEF ProcessHandshakeResponse, ProcessHandshakeInit, SessionState

\* The variables keep their types in every step.
LEMMA StepKeepsTypes ==
  ASSUME ChannelTypeOK, [Next]_vars
  PROVE  ChannelTypeOK'
<1> USE DEF ChannelTypeOK
<1> HIDE DEF Frames, Endpoints, Sessions, Handshakes, NoSession
<1>1. ASSUME NEW h \in Handshakes, InitiateHandshake(h)
      PROVE  ChannelTypeOK'
  <2>1. h[1] \in Endpoints /\ <<h, "Initiator">> \in Sessions
    BY SessionFacts
  <2>2. wire' = Sent(wire, h[1], Plain("INIT", h))
    BY <1>1 DEF InitiateHandshake
  <2>3. wire' \in [Endpoints -> Seq(Frames)]
    BY <2>1, <2>2, FrameFacts, WireTypes
  <2>4. state' \in [Sessions -> SessionState]
    BY <2>1, <1>1, StateTypes DEF InitiateHandshake
  <2>5. session' \in [Endpoints -> Sessions \cup {NoSession}]
    BY <2>1, <1>1 DEF InitiateHandshake
  <2>6. pending' \subseteq Handshakes /\ timer' \in [Handshakes -> {"off", "armed", "queued"}]
    BY <1>1 DEF InitiateHandshake
  <2>7. UNCHANGED <<open, tx_seq, seen, calls, raced, sent, delivered>>
    BY <1>1 DEF InitiateHandshake
  <2> QED  BY <2>3, <2>4, <2>5, <2>6, <2>7
<1>2. ASSUME NEW h \in Handshakes, TimerExpires(h)
      PROVE  ChannelTypeOK'
  <2>1. timer' \in [Handshakes -> {"off", "armed", "queued"}]
    BY <1>2 DEF TimerExpires
  <2>2. UNCHANGED <<open, wire, session, state, tx_seq, seen, pending, calls, raced, sent,
                    delivered>>
    BY <1>2 DEF TimerExpires, sessionVars
  <2> QED  BY <2>1, <2>2
<1>3. ASSUME NEW h \in Handshakes, TimerFires(h)
      PROVE  ChannelTypeOK'
  <2>1. timer' \in [Handshakes -> {"off", "armed", "queued"}]
    BY <1>3 DEF TimerFires
  <2>2. pending' \subseteq Handshakes
    BY <1>3 DEF TimerFires
  <2>3. Append(calls[h], FALSE) \in Seq(BOOLEAN)
    BY SMTT(30)
  <2>4. calls' = [calls EXCEPT ![h] = Append(@, FALSE)]
    BY <1>3 DEF TimerFires
  <2>5. calls' \in [Handshakes -> Seq(BOOLEAN)]
    BY <2>3, <2>4
  <2>6. UNCHANGED <<open, wire, session, state, tx_seq, seen, raced, sent, delivered>>
    BY <1>3 DEF TimerFires, sessionVars
  <2> QED  BY <2>1, <2>2, <2>5, <2>6
<1>4. ASSUME NEW e \in Endpoints, ReceiveInit(e)
      PROVE  ChannelTypeOK'
  <2>1. PICK h \in Handshakes :
          /\ Reads(e, Plain("INIT", h))
          /\ session' = [session EXCEPT ![e] = <<h, "Responder">>]
          /\ state' = [state EXCEPT ![<<h, "Responder">>] = ProcessHandshakeInit]
          /\ wire' = Sent(Taken(e), e, Plain("RESPONSE", h))
    BY <1>4 DEF ReceiveInit
  <2>2. Taken(e) \in [Endpoints -> Seq(Frames)]
    BY <2>1, WireTypes DEF Taken, Reads
  <2>3. wire' \in [Endpoints -> Seq(Frames)]
    BY <2>1, <2>2, FrameFacts, WireTypes
  <2>4. state' \in [Sessions -> SessionState]
    BY <2>1, SessionFacts, StateTypes
  <2>5. session' \in [Endpoints -> Sessions \cup {NoSession}]
    BY <2>1, SessionFacts
  <2>6. UNCHANGED <<open, tx_seq, seen, pending, timer, calls, raced, sent, delivered>>
    BY <1>4 DEF ReceiveInit, rpcVars
  <2> QED  BY <2>3, <2>4, <2>5, <2>6
<1>5. ASSUME NEW e \in Endpoints, ReceiveResponse(e)
      PROVE  ChannelTypeOK'
  <2> DEFINE ok(h) == ProcessHandshakeResponse(<<h, "Initiator">>) = "Active"
  <2>1. PICK h \in pending :
          /\ Reads(e, Plain("RESPONSE", h))
          /\ raced' = IF timer[h] = "queued" THEN raced \cup {h} ELSE raced
          /\ pending' = pending \ {h}
          /\ timer' = [timer EXCEPT ![h] = IF @ = "queued" THEN @ ELSE "off"]
          /\ state' = [state EXCEPT ![<<h, "Initiator">>] =
                         ProcessHandshakeResponse(<<h, "Initiator">>)]
          /\ wire' = IF ok(h) THEN Sent(Taken(e), e, Plain("COMPLETE", h)) ELSE Taken(e)
          /\ calls' = [calls EXCEPT ![h] = Append(@, ok(h))]
    BY <1>5 DEF ReceiveResponse
  <2>2. Taken(e) \in [Endpoints -> Seq(Frames)]
    BY <2>1, WireTypes DEF Taken, Reads
  <2>3. h \in Handshakes
    OBVIOUS
  <2>4. Sent(Taken(e), e, Plain("COMPLETE", h)) \in [Endpoints -> Seq(Frames)]
    BY <2>2, <2>3, FrameFacts, WireTypes
  <2>5. wire' \in [Endpoints -> Seq(Frames)]
    BY <2>1, <2>2, <2>4
  <2>6. state' \in [Sessions -> SessionState]
    BY <2>1, <2>3, SessionFacts, StateTypes
  <2>7. pending' \subseteq Handshakes /\ raced' \subseteq Handshakes
    BY <2>1, <2>3
  <2>8. timer' \in [Handshakes -> {"off", "armed", "queued"}]
    BY <2>1, <2>3
  <2>9. Append(calls[h], ok(h)) \in Seq(BOOLEAN)
    <3>1. calls[h] \in Seq(BOOLEAN) /\ ok(h) \in BOOLEAN
      BY <2>3
    <3> HIDE DEF ok
    <3> QED  BY SMTT(30), <3>1
  <2>10. calls' \in [Handshakes -> Seq(BOOLEAN)]
    <3> HIDE DEF ok
    <3> QED  BY <2>1, <2>3, <2>9
  <2>11. UNCHANGED <<open, session, tx_seq, seen, sent, delivered>>
    BY <1>5 DEF ReceiveResponse
  <2> QED  BY <2>5, <2>6, <2>7, <2>8, <2>10, <2>11
<1>6. ASSUME NEW e \in Endpoints, ReceiveLateResponse(e)
      PROVE  ChannelTypeOK'
  <2>1. wire[e] # <<>> /\ wire' = Taken(e)
    BY <1>6 DEF ReceiveLateResponse, Reads
  <2>2. wire' \in [Endpoints -> Seq(Frames)]
    BY <2>1, WireTypes DEF Taken
  <2>3. UNCHANGED <<open, session, state, tx_seq, seen, pending, timer, calls, raced, sent,
                    delivered>>
    BY <1>6 DEF ReceiveLateResponse, sessionVars, rpcVars
  <2> QED  BY <2>2, <2>3
<1>7. ASSUME NEW e \in Endpoints, ReceiveComplete(e)
      PROVE  ChannelTypeOK'
  <2>1. /\ wire[e] # <<>> /\ wire' = Taken(e) /\ session[e] # NoSession
        /\ state' = [state EXCEPT ![session[e]] = "Active"]
    BY <1>7 DEF ReceiveComplete, Reads
  <2>2. wire' \in [Endpoints -> Seq(Frames)]
    BY <2>1, WireTypes DEF Taken
  <2>3. state' \in [Sessions -> SessionState]
    BY <2>1, StateTypes
  <2>4. UNCHANGED <<open, session, tx_seq, seen, pending, timer, calls, raced, sent,
                    delivered>>
    BY <1>7 DEF ReceiveComplete, rpcVars
  <2> QED  BY <2>2, <2>3, <2>4
<1>8. ASSUME NEW e \in Endpoints, ReceiveWrongComplete(e)
      PROVE  ChannelTypeOK'
  <2>1. /\ open' = [open EXCEPT ![e] = FALSE]
        /\ state' = IF session[e] = NoSession THEN state
                    ELSE [state EXCEPT ![session[e]] = "Failed"]
        /\ \E n \in 0..Len(wire[e]) - 1 :
             wire' = [wire EXCEPT ![e] = SubSeq(@, 2, n + 1)]
    BY <1>8 DEF ReceiveWrongComplete
  <2>2. wire' \in [Endpoints -> Seq(Frames)]
    BY SMTT(30), <2>1, WireTypes
  <2>3. [state EXCEPT ![session[e]] = "Failed"] \in [Sessions -> SessionState]
    BY StateTypes
  <2>4. state' \in [Sessions -> SessionState]
    BY <2>1, <2>3
  <2>5. open' \in [Endpoints -> BOOLEAN]
    BY <2>1
  <2>6. UNCHANGED <<session, tx_seq, seen, pending, timer, calls, raced, sent, delivered>>
    BY <1>8 DEF ReceiveWrongComplete, rpcVars
  <2> QED  BY <2>2, <2>4, <2>5, <2>6
<1>9. ASSUME NEW e \in Endpoints, ReceiveData(e)
      PROVE  ChannelTypeOK'
  <2>1. PICK n \in 1..MaxData :
          /\ wire[e] # <<>> /\ wire' = Taken(e)
          /\ delivered' = [delivered EXCEPT ![e] = Append(@, n)]
          /\ \/ seen' = seen
             \/ /\ IsActive(session[e])
                /\ seen' = [seen EXCEPT ![session[e]] = @ \cup {Head(wire[e]).seq}]
    BY <1>9 DEF ReceiveData, DecryptFrame
  <2>2. wire' \in [Endpoints -> Seq(Frames)]
    BY <2>1, WireTypes DEF Taken
  <2>3. Append(delivered[e], n) \in Seq(Nat)
    <3>1. n \in Nat
      BY SMTT(30), ChannelAssumption
    <3> QED  BY SMTT(30), <3>1
  <2>4. delivered' \in [Endpoints -> Seq(Nat)]
    BY <2>1, <2>3
  <2>5. Head(wire[e]).seq \in Nat
    <3>1. Head(wire[e]) \in Frames
      BY SMTT(30), <2>1
    <3> QED  BY <3>1, FrameFields
  <2>6. seen' \in [Sessions -> SUBSET Nat]
    <3>1. CASE IsActive(session[e])
      <4>1. session[e] \in Sessions
        BY <3>1 DEF IsActive
      <4>2. [seen EXCEPT ![session[e]] = @ \cup {Head(wire[e]).seq}]
              \in [Sessions -> SUBSET Nat]
        BY <4>1, <2>5
      <4> QED  BY <4>2, <2>1
    <3>2. CASE ~IsActive(session[e])
      BY <3>2, <2>1
    <3> QED  BY <3>1, <3>2
  <2>7. UNCHANGED <<open, session, state, tx_seq, pending, timer, calls, raced, sent>>
    BY <1>9 DEF ReceiveData, rpcVars
  <2> QED  BY <2>2, <2>4, <2>6, <2>7
<1>10. ASSUME NEW e \in Endpoints, RejectData(e)
       PROVE  ChannelTypeOK'
  <2>1. /\ wire[e] # <<>> /\ wire' = [wire EXCEPT ![e] = <<>>]
        /\ open' = [open EXCEPT ![e] = FALSE]
        /\ seen' = IF IsActive(session[e])
                   THEN [seen EXCEPT ![session[e]] = @ \cup {Head(wire[e]).seq}] ELSE seen
    BY <1>10 DEF RejectData
  <2>2. wire' \in [Endpoints -> Seq(Frames)]
    BY <2>1, WireTypes
  <2>3. Head(wire[e]).seq \in Nat
    <3>1. Head(wire[e]) \in Frames
      BY SMTT(30), <2>1
    <3> QED  BY <3>1, FrameFields
  <2>4. seen' \in [Sessions -> SUBSET Nat]
    <3>1. CASE IsActive(session[e])
      <4>1. session[e] \in Sessions
        BY <3>1 DEF IsActive
      <4>2. [seen EXCEPT ![session[e]] = @ \cup {Head(wire[e]).seq}]
              \in [Sessions -> SUBSET Nat]
        BY <4>1, <2>3
      <4> QED  BY <3>1, <4>2, <2>1
    <3>2. CASE ~IsActive(session[e])
      BY <3>2, <2>1
    <3> QED  BY <3>1, <3>2
  <2>5. open' \in [Endpoints -> BOOLEAN]
    BY <2>1
  <2>6. UNCHANGED <<session, state, tx_seq, pending, timer, calls, raced, sent, delivered>>
    BY <1>10 DEF RejectData, rpcVars
  <2> QED  BY <2>2, <2>4, <2>5, <2>6
<1>11. ASSUME NEW e \in Endpoints, SendData(e)
       PROVE  ChannelTypeOK'
  <2> DEFINE n == sent[e] + 1
             s == session[e]
  <2>1. /\ sent' = [sent EXCEPT ![e] = n]
        /\ \/ /\ IsActive(s) /\ tx_seq' = [tx_seq EXCEPT ![s] = @ + 1]
              /\ wire' = Sent(wire, e, Data(n, s, tx_seq[s] + 1))
           \/ /\ wire' = Sent(wire, e, Data(n, NoSession, 0))
              /\ tx_seq' = tx_seq
    BY <1>11 DEF SendData
  <2>2. n \in Nat /\ s \in Sessions \cup {NoSession}
    BY SMTT(30)
  <2> HIDE DEF n, s
  <2>3. IsActive(s) => s \in Sessions /\ tx_seq[s] + 1 \in Nat
    BY SMTT(30), <2>2 DEF IsActive
  <2>4. IsActive(s) => Data(n, s, tx_seq[s] + 1) \in Frames
    BY <2>2, <2>3, FrameFacts
  <2>5. Data(n, NoSession, 0) \in Frames
    BY <2>2, FrameFacts
  <2>6. wire' \in [Endpoints -> Seq(Frames)]
    <3>1. \A f \in Frames : Sent(wire, e, f) \in [Endpoints -> Seq(Frames)]
      BY WireTypes
    <3> QED  BY <2>1, <2>4, <2>5, <3>1
  <2>7. sent' \in [Endpoints -> Nat] /\ tx_seq' \in [Sessions -> Nat]
    BY <2>1, <2>2, <2>3
  <2>8. UNCHANGED <<open, session, state, seen, pending, timer, calls, raced, delivered>>
    BY <1>11 DEF SendData, rpcVars
  <2> QED  BY <2>6, <2>7, <2>8
<1>12. CASE UNCHANGED vars
  <2>1. UNCHANGED <<open, wire, session, state, tx_seq, seen, pending, timer, calls, raced,
                    sent, delivered>>
    BY <1>12 DEF vars, sessionVars, rpcVars
  <2> QED  BY <2>1
<1> QED
  BY <1>1, <1>2, <1>3, <1>4, <1>5, <1>6, <1>7, <1>8, <1>9, <1>10, <1>11, <1>12
     DEF Next, Receive

\* At the start the variables have their types.
LEMMA InitTypes ==
  ASSUME Init
  PROVE  ChannelTypeOK
<1> HIDE DEF Frames, Endpoints, Sessions, Handshakes
<1>1. "Uninitialized" \in SessionState
  BY DEF SessionState
<1>2. /\ open \in [Endpoints -> BOOLEAN] /\ wire \in [Endpoints -> Seq(Frames)]
      /\ session \in [Endpoints -> Sessions \cup {NoSession}]
  BY DEF Init
<1>3. /\ state \in [Sessions -> SessionState] /\ tx_seq \in [Sessions -> Nat]
      /\ seen \in [Sessions -> SUBSET Nat]
  BY <1>1 DEF Init
<1>4. /\ pending \subseteq Handshakes /\ raced \subseteq Handshakes
      /\ timer \in [Handshakes -> {"off", "armed", "queued"}]
      /\ calls \in [Handshakes -> Seq(BOOLEAN)]
  BY DEF Init
<1>5. sent \in [Endpoints -> Nat] /\ delivered \in [Endpoints -> Seq(Nat)]
  BY DEF Init
<1> QED  BY <1>2, <1>3, <1>4, <1>5 DEF ChannelTypeOK

(***************************************************************************)
(* The callbacks.                                                          *)
(***************************************************************************)

\* No session object goes back to its first state.
StatesMoveOn == \A s \in Sessions : state'[s] = "Uninitialized" => state[s] = "Uninitialized"

\* No step takes a session object back.
LEMMA StepMovesOn ==
  ASSUME ChannelTypeOK, [Next]_vars
  PROVE  StatesMoveOn
<1> HIDE DEF Frames, Endpoints, Sessions, Handshakes, NoSession
<1>0. state \in [Sessions -> SessionState]
  BY DEF ChannelTypeOK
<1>1. ASSUME NEW s0, NEW v, v # "Uninitialized", state' = [state EXCEPT ![s0] = v]
      PROVE  StatesMoveOn
  BY <1>0, <1>1 DEF StatesMoveOn
<1>2. CASE state' = state
  BY <1>2 DEF StatesMoveOn
<1>3. \A s : ProcessHandshakeResponse(s) # "Uninitialized"
  BY DEF ProcessHandshakeResponse
<1>4. ASSUME NEW h \in Handshakes, InitiateHandshake(h)
      PROVE  StatesMoveOn
  <2>1. state' = [state EXCEPT ![<<h, "Initiator">>] = "HandshakeInitSent"]
    BY <1>4 DEF InitiateHandshake
  <2> QED  BY <2>1, <1>1
<1>5. ASSUME NEW e \in Endpoints, ReceiveInit(e)
      PROVE  StatesMoveOn
  <2>1. PICK h \in Handshakes : state' = [state EXCEPT ![<<h, "Responder">>] = "HandshakeRespSent"]
    BY <1>5 DEF ReceiveInit, ProcessHandshakeInit
  <2> QED  BY <2>1, <1>1
<1>6. ASSUME NEW e \in Endpoints, ReceiveResponse(e)
      PROVE  StatesMoveOn
  <2>1. PICK h \in pending :
          state' = [state EXCEPT ![<<h, "Initiator">>] =
                      ProcessHandshakeResponse(<<h, "Initiator">>)]
    BY <1>6 DEF ReceiveResponse
  <2> QED  BY <2>1, <1>1, <1>3
<1>7. ASSUME NEW e \in Endpoints, ReceiveComplete(e)
      PROVE  StatesMoveOn
  <2>1. state' = [state EXCEPT ![session[e]] = "Active"]
    BY <1>7 DEF ReceiveComplete
  <2> QED  BY <2>1, <1>1
<1>8. ASSUME NEW e \in Endpoints, ReceiveWrongComplete(e)
      PROVE  StatesMoveOn
  <2>1. state' = state \/ state' = [state EXCEPT ![session[e]] = "Failed"]
    BY <1>8 DEF ReceiveWrongComplete
  <2> QED  BY <2>1, <1>1, <1>2
<1>9. ASSUME NEW e \in Endpoints,
             ReceiveLateResponse(e) \/ ReceiveData(e) \/ RejectData(e) \/ SendData(e)
      PROVE  StatesMoveOn
  <2>1. state' = state
    BY <1>9 DEF ReceiveLateResponse, ReceiveData, RejectData, SendData, sessionVars
  <2> QED  BY <2>1, <1>2
<1>10. ASSUME NEW h \in Handshakes, TimerExpires(h) \/ TimerFires(h)
       PROVE  StatesMoveOn
  <2>1. state' = state
    BY <1>10 DEF TimerExpires, TimerFires, sessionVars
  <2> QED  BY <2>1, <1>2
<1>11. CASE UNCHANGED vars
  <2>1. state' = state
    BY <1>11 DEF vars, sessionVars
  <2> QED  BY <2>1, <1>2
<1> QED
  BY <1>4, <1>5, <1>6, <1>7, <1>8, <1>9, <1>10, <1>11 DEF Next, Receive

\* What the invariant says of one handshake.
CallbackOf(h) ==
  /\ h \in pending => calls[h] = <<>> /\ timer[h] # "off" /\ h \notin raced
  /\ timer[h] # "off" => h \in pending \/ h \in raced
  /\ state[<<h, "Initiator">>] = "Uninitialized" =>
       calls[h] = <<>> /\ h \notin raced /\ h \notin pending
  /\ h \notin raced => Len(calls[h]) <= 1

\* The step leaves the request of h alone.
RequestAlone(h) ==
  /\ h \in pending' <=> h \in pending
  /\ h \in raced' <=> h \in raced
  /\ timer'[h] = timer[h]
  /\ calls'[h] = calls[h]
  /\ state'[<<h, "Initiator">>] = "Uninitialized" => state[<<h, "Initiator">>] = "Uninitialized"

\* Such a step keeps what the invariant says of h.
LEMMA RequestAloneKeeps ==
  ASSUME NEW h, CallbackOf(h), RequestAlone(h)
  PROVE  CallbackOf(h)'
BY DEF CallbackOf, RequestAlone

\* Every step keeps the invariant of the callbacks.
LEMMA StepKeepsCallbacks ==
  ASSUME ChannelTypeOK, CallbackInv, [Next]_vars
  PROVE  CallbackInv'
<1> HIDE DEF Frames, Endpoints, Sessions, Handshakes, NoSession
<1>1. \A g \in Handshakes : CallbackOf(g)
  BY DEF CallbackInv, CallbackOf
<1>2. SUFFICES ASSUME NEW g \in Handshakes PROVE CallbackOf(g)'
  BY DEF CallbackInv, CallbackOf
<1>3. CallbackOf(g)
  BY <1>1
<1>4. StatesMoveOn
  BY StepMovesOn
<1>5. /\ <<g, "Initiator">> \in Sessions
      /\ state'[<<g, "Initiator">>] = "Uninitialized" =>
           state[<<g, "Initiator">>] = "Uninitialized"
  BY <1>4, SessionFacts DEF StatesMoveOn
<1>6. /\ state \in [Sessions -> SessionState] /\ calls \in [Handshakes -> Seq(BOOLEAN)]
      /\ timer \in [Handshakes -> {"off", "armed", "queued"}] /\ calls[g] \in Seq(BOOLEAN)
      /\ pending \subseteq Handshakes
  BY DEF ChannelTypeOK
<1>7. ASSUME UNCHANGED rpcVars
      PROVE  CallbackOf(g)'
  <2>1. RequestAlone(g)
    BY <1>5, <1>7 DEF rpcVars, RequestAlone
  <2> QED  BY <2>1, <1>3, RequestAloneKeeps
<1>8. ASSUME NEW h \in Handshakes, InitiateHandshake(h)
      PROVE  CallbackOf(g)'
  <2>1. /\ pending' = pending \cup {h} /\ timer' = [timer EXCEPT ![h] = "armed"]
        /\ calls' = calls /\ raced' = raced
        /\ state' = [state EXCEPT ![<<h, "Initiator">>] = "HandshakeInitSent"]
        /\ state[<<h, "Initiator">>] = "Uninitialized"
    BY <1>8 DEF InitiateHandshake
  <2>2. CASE g = h
    <3>1. calls[g] = <<>> /\ g \notin raced
      BY <2>1, <2>2, <1>3 DEF CallbackOf
    <3>2. state'[<<g, "Initiator">>] = "HandshakeInitSent"
      BY <2>1, <2>2, <1>5, <1>6
    <3>3. g \in pending' /\ timer'[g] = "armed" /\ calls'[g] = <<>> /\ g \notin raced'
      BY <2>1, <2>2, <3>1, <1>6
    <3>4. Len(calls'[g]) <= 1
      BY <3>3
    <3> QED  BY <3>2, <3>3, <3>4 DEF CallbackOf
  <2>3. CASE g # h
    <3>1. RequestAlone(g)
      BY <2>1, <2>3, <1>5, <1>6 DEF RequestAlone
    <3> QED  BY <3>1, <1>3, RequestAloneKeeps
  <2> QED  BY <2>2, <2>3
<1>9. ASSUME NEW h \in Handshakes, TimerExpires(h)
      PROVE  CallbackOf(g)'
  <2>1. /\ pending' = pending /\ timer' = [timer EXCEPT ![h] = "queued"]
        /\ calls' = calls /\ raced' = raced /\ state' = state /\ timer[h] = "armed"
    BY <1>9 DEF TimerExpires, sessionVars
  <2>2. CASE g = h
    <3>1. timer[g] # "off" /\ timer'[g] # "off"
      BY <2>1, <2>2, <1>6
    <3> QED  BY <2>1, <3>1, <1>3 DEF CallbackOf
  <2>3. CASE g # h
    <3>1. RequestAlone(g)
      BY <2>1, <2>3, <1>5, <1>6 DEF RequestAlone
    <3> QED  BY <3>1, <1>3, RequestAloneKeeps
  <2> QED  BY <2>2, <2>3
<1>10. ASSUME NEW h \in Handshakes, TimerFires(h)
       PROVE  CallbackOf(g)'
  <2>1. /\ pending' = pending \ {h} /\ timer' = [timer EXCEPT ![h] = "off"]
        /\ calls' = [calls EXCEPT ![h] = Append(@, FALSE)]
        /\ raced' = raced /\ state' = state /\ timer[h] = "queued"
    BY <1>10 DEF TimerFires, sessionVars
  <2>2. CASE g = h
    <3>1. timer[g] # "off"
      BY <2>1, <2>2
    <3>2. state[<<g, "Initiator">>] # "Uninitialized"
      BY <3>1, <1>3 DEF CallbackOf
    <3>3. calls'[g] = Append(calls[g], FALSE)
      BY <2>1, <2>2, <1>6
    <3>4. g \notin raced => Len(calls'[g]) <= 1
      <4> SUFFICES ASSUME g \notin raced PROVE Len(calls'[g]) <= 1
        OBVIOUS
      <4>1. calls[g] = <<>>
        BY <3>1, <1>3 DEF CallbackOf
      <4> QED  BY <3>3, <4>1
    <3>5. g \notin pending' /\ timer'[g] = "off"
      BY <2>1, <2>2, <1>6
    <3> QED  BY <2>1, <3>2, <3>4, <3>5 DEF CallbackOf
  <2>3. CASE g # h
    <3>1. RequestAlone(g)
      BY <2>1, <2>3, <1>5, <1>6 DEF RequestAlone
    <3> QED  BY <3>1, <1>3, RequestAloneKeeps
  <2> QED  BY <2>2, <2>3
<1>11. ASSUME NEW e \in Endpoints, ReceiveResponse(e)
       PROVE  CallbackOf(g)'
  <2> DEFINE ok(h) == ProcessHandshakeResponse(<<h, "Initiator">>) = "Active"
  <2>1. PICK h \in pending :
          /\ raced' = IF timer[h] = "queued" THEN raced \cup {h} ELSE raced
          /\ pending' = pending \ {h}
          /\ timer' = [timer EXCEPT ![h] = IF @ = "queued" THEN @ ELSE "off"]
          /\ calls' = [calls EXCEPT ![h] = Append(@, ok(h))]
    BY <1>11 DEF ReceiveResponse
  <2> HIDE DEF ok
  <2>2. CASE g = h
    <3>1. calls[g] = <<>> /\ g \notin raced
      BY <2>2, <1>3 DEF CallbackOf
    <3>2. calls'[g] = Append(calls[g], ok(g))
      BY <2>1, <2>2, <1>6
    <3>3. Len(calls'[g]) <= 1
      BY <3>1, <3>2
    <3>4. g \notin pending'
      BY <2>1, <2>2
    <3>5. timer'[g] # "off" => g \in raced'
      BY <2>1, <2>2, <1>6
    <3>6. state'[<<g, "Initiator">>] # "Uninitialized"
      BY <2>2, <1>3, <1>5 DEF CallbackOf
    <3> QED  BY <3>3, <3>4, <3>5, <3>6 DEF CallbackOf
  <2>3. CASE g # h
    <3>1. h \in Handshakes
      BY <1>6
    <3>2. RequestAlone(g)
      BY <2>1, <2>3, <3>1, <1>5, <1>6 DEF RequestAlone
    <3> QED  BY <3>2, <1>3, RequestAloneKeeps
  <2> QED  BY <2>2, <2>3
<1>12. ASSUME NEW e \in Endpoints,
              \/ ReceiveInit(e) \/ ReceiveLateResponse(e) \/ ReceiveComplete(e)
              \/ ReceiveWrongComplete(e) \/ ReceiveData(e) \/ RejectData(e) \/ SendData(e)
       PROVE  UNCHANGED rpcVars
  BY <1>12 DEF ReceiveInit, ReceiveLateResponse, ReceiveComplete, ReceiveWrongComplete,
               ReceiveData, RejectData, SendData
<1>13. CASE UNCHANGED vars
  BY <1>7, <1>13 DEF vars
<1> QED
  BY <1>7, <1>8, <1>9, <1>10, <1>11, <1>12, <1>13 DEF Next, Receive

\* For any number of handshakes: the callback of one runs at most once, unless
\* its answer was handled when the handler of its timer was queued.
THEOREM CallbackOnceCorrect == Spec => []CallbackOnceInTime
<1>1. Init => ChannelTypeOK /\ CallbackInv
  <2> SUFFICES ASSUME Init PROVE ChannelTypeOK /\ CallbackInv
    OBVIOUS
  <2>1. ChannelTypeOK
    BY InitTypes
  <2>2. ASSUME NEW h \in Handshakes
        PROVE  /\ h \notin pending /\ timer[h] = "off" /\ calls[h] = <<>> /\ h \notin raced
               /\ Len(calls[h]) <= 1
    <3>1. h \notin pending /\ timer[h] = "off" /\ calls[h] = <<>> /\ h \notin raced
      BY DEF Init
    <3>2. Len(<<>>) <= 1
      OBVIOUS
    <3> QED  BY <3>1, <3>2
  <2>3. CallbackInv
    BY <2>2 DEF CallbackInv
  <2> QED  BY <2>1, <2>3
<1>2. ChannelTypeOK /\ CallbackInv /\ [Next]_vars => (ChannelTypeOK /\ CallbackInv)'
  BY StepKeepsTypes, StepKeepsCallbacks
<1>3. CallbackInv => CallbackOnceInTime
  BY DEF CallbackInv, CallbackOnceInTime
<1> QED  BY <1>1, <1>2, <1>3, PTL DEF Spec

(***************************************************************************)
(* The order of the data frames.                                           *)
(***************************************************************************)

\* t is a part of w, from its k-th frame on, that lacks no data frame before it.
LEMMA InOrderPart ==
  ASSUME NEW w \in Seq(Frames), NEW t \in Seq(Frames), NEW d \in Nat, NEW m \in Nat,
         InOrder(w, d, m),
         w # <<>>, ~IsData(w[1]),
         Len(t) < Len(w), \A i \in 1..Len(t) : t[i] = w[i + 1]
  PROVE  InOrder(t, d, m)
<1> USE DEF InOrder
<1> HIDE DEF Frames, IsData
<1>0. \A i \in 1..Len(t) : i + 1 \in 1..Len(w)
  BY SMTT(30)
<1>1. \A i \in 1..Len(t) : IsData(t[i]) => t[i].hs \in (d + 1)..m
  BY <1>0
<1>2. ASSUME NEW i \in 1..Len(t), NEW j \in 1..Len(t), IsData(t[i]), IsData(t[j]), i < j
      PROVE  t[i].hs < t[j].hs
  <2>1. t[i] = w[i + 1] /\ t[j] = w[j + 1] /\ i + 1 < j + 1
    BY SMTT(30), <1>2
  <2> QED  BY SMTT(30), <1>0, <1>2, <2>1
<1>3. ASSUME NEW j \in 1..Len(t), IsData(t[j]), NEW n \in (d + 1)..t[j].hs
      PROVE  \E i \in 1..Len(t) : IsData(t[i]) /\ t[i].hs = n
  <2>1. t[j] = w[j + 1] /\ j + 1 \in 1..Len(w)
    BY <1>0
  <2>2. PICK i \in 1..Len(w) : IsData(w[i]) /\ w[i].hs = n
    BY <2>1, <1>3
  <2>3. t[j].hs \in (d + 1)..m /\ n \in Nat
    BY SMTT(30), <1>1, <1>3
  <2>4. ~(j + 1 < i)
    <3> SUFFICES ASSUME j + 1 < i PROVE FALSE
      OBVIOUS
    <3>1. w[j + 1].hs < w[i].hs
      BY <2>1, <2>2, <1>3
    <3> QED  BY SMTT(30), <3>1, <2>1, <2>2, <2>3, <1>3
  <2>5. i # 1
    BY <2>2
  <2>6. i - 1 \in 1..Len(t) /\ (i - 1) + 1 = i
    BY SMTT(30), <2>4, <2>5
  <2>7. t[i - 1] = w[i]
    BY <2>6
  <2> QED  BY <2>2, <2>6, <2>7
<1> QED  BY <1>1, <1>2, <1>3

\* A frame that is not a data frame is read.
LEMMA FullTail ==
  ASSUME NEW w \in Seq(Frames), NEW d \in Nat, NEW m \in Nat,
         Full(w, d, m), w # <<>>, ~IsData(w[1])
  PROVE  Full(Tail(w), d, m)
<1> HIDE DEF Frames, IsData
<1> SUFFICES ASSUME NEW n \in (d + 1)..m
             PROVE  \E i \in 1..Len(Tail(w)) : IsData(Tail(w)[i]) /\ Tail(w)[i].hs = n
  BY DEF Full
<1>1. PICK i \in 1..Len(w) : IsData(w[i]) /\ w[i].hs = n
  BY DEF Full
<1>2. i # 1
  BY <1>1
<1>3. i - 1 \in 1..Len(Tail(w)) /\ Tail(w)[i - 1] = w[i]
  BY <1>2
<1> QED  BY <1>1, <1>3

\* The first data frame, when it is the first frame, is the one after those
\* that were delivered.
LEMMA FirstIsNext ==
  ASSUME NEW w \in Seq(Frames), NEW d \in Nat, NEW m \in Nat,
         InOrder(w, d, m), w # <<>>, IsData(w[1])
  PROVE  w[1].hs = d + 1 /\ d + 1 <= m
<1> USE DEF InOrder
<1> HIDE DEF Frames, IsData
<1>1. 1 \in 1..Len(w)
  BY SMTT(30)
<1>2. w[1].hs \in (d + 1)..m
  BY <1>1
<1>3. d + 1 \in (d + 1)..w[1].hs
  BY SMTT(30), <1>2
<1>4. PICK i \in 1..Len(w) : IsData(w[i]) /\ w[i].hs = d + 1
  BY <1>1, <1>3
<1>5. i = 1
  <2> SUFFICES ASSUME 1 < i PROVE FALSE
    BY SMTT(30)
  <2>1. w[1].hs < w[i].hs
    BY <1>1, <1>4
  <2> QED  BY <2>1, <1>2, <1>4
<1> QED  BY <1>2, <1>4, <1>5

\* The next data frame is read and delivered.
LEMMA InOrderTail ==
  ASSUME NEW w \in Seq(Frames), NEW d \in Nat, NEW m \in Nat,
         InOrder(w, d, m), w # <<>>, IsData(w[1])
  PROVE  InOrder(Tail(w), d + 1, m) /\ (Full(w, d, m) => Full(Tail(w), d + 1, m))
<1> DEFINE t == Tail(w)
<1> HIDE DEF Frames, IsData
<1>0. /\ t \in Seq(Frames) /\ Len(t) = Len(w) - 1
      /\ \A i \in 1..Len(t) : t[i] = w[i + 1] /\ i + 1 \in 1..Len(w)
  OBVIOUS
<1>1. w[1].hs = d + 1 /\ d + 1 <= m /\ 1 \in 1..Len(w)
  BY FirstIsNext
<1> HIDE DEF t
<1>2. ASSUME NEW i \in 1..Len(t), IsData(t[i])
      PROVE  t[i].hs \in (d + 2)..m
  <2>1. t[i] = w[i + 1] /\ i + 1 \in 1..Len(w) /\ 1 < i + 1
    BY <1>0
  <2>2. w[1].hs < w[i + 1].hs /\ w[i + 1].hs \in (d + 1)..m
    BY <2>1, <1>1, <1>2 DEF InOrder
  <2> QED  BY <2>1, <2>2, <1>1
<1>3. ASSUME NEW i \in 1..Len(t), NEW j \in 1..Len(t), IsData(t[i]), IsData(t[j]), i < j
      PROVE  t[i].hs < t[j].hs
  <2>1. t[i] = w[i + 1] /\ t[j] = w[j + 1] /\ i + 1 < j + 1
    BY <1>0, <1>3
  <2> QED  BY <1>0, <1>3, <2>1 DEF InOrder
<1>4. ASSUME NEW n \in (d + 2)..m, \E i \in 1..Len(w) : IsData(w[i]) /\ w[i].hs = n
      PROVE  \E i \in 1..Len(t) : IsData(t[i]) /\ t[i].hs = n
  <2>1. PICK i \in 1..Len(w) : IsData(w[i]) /\ w[i].hs = n
    BY <1>4
  <2>2. i # 1
    BY <2>1, <1>1
  <2>3. i - 1 \in 1..Len(t) /\ (i - 1) + 1 = i
    BY <2>2, <1>0
  <2>4. t[i - 1] = w[i]
    BY <2>3, <1>0
  <2> QED  BY <2>1, <2>3, <2>4
<1>5. ASSUME NEW j \in 1..Len(t), IsData(t[j]), NEW n \in (d + 2)..t[j].hs
      PROVE  \E i \in 1..Len(t) : IsData(t[i]) /\ t[i].hs = n
  <2>1. t[j] = w[j + 1] /\ j + 1 \in 1..Len(w)
    BY <1>0
  <2>2. t[j].hs \in (d + 2)..m
    BY <1>2, <1>5
  <2>3. n \in (d + 1)..w[j + 1].hs /\ n \in (d + 2)..m
    BY <2>1, <2>2, <1>5
  <2>4. \E i \in 1..Len(w) : IsData(w[i]) /\ w[i].hs = n
    BY <2>1, <2>3, <1>5 DEF InOrder
  <2> QED  BY <2>3, <2>4, <1>4
<1>6. (d + 1) + 1 = d + 2
  OBVIOUS
<1>7. InOrder(t, d + 1, m)
  BY <1>2, <1>3, <1>5, <1>6 DEF InOrder
<1>8. ASSUME Full(w, d, m)
      PROVE  Full(t, d + 1, m)
  <2> SUFFICES ASSUME NEW n \in (d + 2)..m
               PROVE  \E i \in 1..Len(t) : IsData(t[i]) /\ t[i].hs = n
    BY <1>6 DEF Full
  <2>1. n \in (d + 1)..m
    OBVIOUS
  <2> QED  BY <2>1, <1>4, <1>8 DEF Full
<1> QED  BY <1>7, <1>8 DEF t

\* A frame that is not a data frame is sent.
LEMMA AppendHandshake ==
  ASSUME NEW w \in Seq(Frames), NEW d \in Nat, NEW m \in Nat, NEW f \in Frames,
         ~IsData(f), InOrder(w, d, m)
  PROVE  InOrder(Append(w, f), d, m) /\ (Full(w, d, m) => Full(Append(w, f), d, m))
<1> DEFINE t == Append(w, f)
<1> HIDE DEF Frames, IsData
<1>1. /\ Len(t) = Len(w) + 1 /\ t[Len(w) + 1] = f
      /\ \A i \in 1..Len(w) : t[i] = w[i] /\ i \in 1..Len(t)
  OBVIOUS
<1> HIDE DEF t
<1>2. \A i \in 1..Len(t) : IsData(t[i]) => i \in 1..Len(w) /\ t[i] = w[i]
  BY <1>1
<1>3. \A n : (\E i \in 1..Len(w) : IsData(w[i]) /\ w[i].hs = n)
               => \E i \in 1..Len(t) : IsData(t[i]) /\ t[i].hs = n
  BY <1>1
<1>4. InOrder(t, d, m)
  <2>1. \A i \in 1..Len(t) : IsData(t[i]) => t[i].hs \in (d + 1)..m
    BY <1>2 DEF InOrder
  <2>2. \A i, j \in 1..Len(t) :
          IsData(t[i]) /\ IsData(t[j]) /\ i < j => t[i].hs < t[j].hs
    BY <1>2 DEF InOrder
  <2>3. ASSUME NEW j \in 1..Len(t), IsData(t[j]), NEW n \in (d + 1)..t[j].hs
        PROVE  \E i \in 1..Len(t) : IsData(t[i]) /\ t[i].hs = n
    BY <2>3, <1>2, <1>3 DEF InOrder
  <2> QED  BY <2>1, <2>2, <2>3 DEF InOrder
<1>5. Full(w, d, m) => Full(t, d, m)
  BY <1>3 DEF Full
<1> QED  BY <1>4, <1>5 DEF t

\* The next data frame is sent.
LEMMA AppendData ==
  ASSUME NEW w \in Seq(Frames), NEW d \in Nat, NEW m \in Nat, NEW f \in Frames, d <= m,
         IsData(f), f.hs = m + 1, InOrder(w, d, m), Full(w, d, m)
  PROVE  InOrder(Append(w, f), d, m + 1) /\ Full(Append(w, f), d, m + 1)
<1> DEFINE t == Append(w, f)
<1> HIDE DEF Frames, IsData
<1>1. /\ Len(t) = Len(w) + 1 /\ t[Len(w) + 1] = f /\ Len(w) + 1 \in 1..Len(t)
      /\ \A i \in 1..Len(w) : t[i] = w[i] /\ i \in 1..Len(t)
  OBVIOUS
<1> HIDE DEF t
<1>2. Full(t, d, m + 1)
  <2> SUFFICES ASSUME NEW n \in (d + 1)..(m + 1)
               PROVE  \E i \in 1..Len(t) : IsData(t[i]) /\ t[i].hs = n
    BY DEF Full
  <2>1. CASE n = m + 1
    BY <2>1, <1>1
  <2>2. CASE n # m + 1
    <3>1. n \in (d + 1)..m
      BY <2>2
    <3>2. PICK i \in 1..Len(w) : IsData(w[i]) /\ w[i].hs = n
      BY <3>1 DEF Full
    <3> QED  BY <3>2, <1>1
  <2> QED  BY <2>1, <2>2
<1>3. ASSUME NEW i \in 1..Len(t), IsData(t[i])
      PROVE  t[i].hs \in (d + 1)..(m + 1)
  <2>1. CASE i = Len(w) + 1
    BY <2>1, <1>1
  <2>2. CASE i # Len(w) + 1
    <3>1. i \in 1..Len(w) /\ t[i] = w[i]
      BY <2>2, <1>1
    <3>2. w[i].hs \in (d + 1)..m
      BY <3>1, <1>3 DEF InOrder
    <3> QED  BY <3>1, <3>2
  <2> QED  BY <2>1, <2>2
<1>4. ASSUME NEW i \in 1..Len(t), NEW j \in 1..Len(t), IsData(t[i]), IsData(t[j]), i < j
      PROVE  t[i].hs < t[j].hs
  <2>1. i \in 1..Len(w) /\ t[i] = w[i]
    BY <1>1, <1>4
  <2>2. w[i].hs \in (d + 1)..m
    BY <2>1, <1>4 DEF InOrder
  <2>3. CASE j = Len(w) + 1
    BY <2>1, <2>2, <2>3, <1>1
  <2>4. CASE j # Len(w) + 1
    <3>1. j \in 1..Len(w) /\ t[j] = w[j]
      BY <2>4, <1>1
    <3> QED  BY <2>1, <3>1, <1>4 DEF InOrder
  <2> QED  BY <2>3, <2>4
<1>5. ASSUME NEW j \in 1..Len(t), IsData(t[j]), NEW n \in (d + 1)..t[j].hs
      PROVE  \E i \in 1..Len(t) : IsData(t[i]) /\ t[i].hs = n
  <2>1. n \in (d + 1)..(m + 1)
    BY <1>3, <1>5
  <2> QED  BY <2>1, <1>2 DEF Full
<1>6. InOrder(t, d, m + 1)
  BY <1>3, <1>4, <1>5 DEF InOrder
<1> QED  BY <1>2, <1>6 DEF t

\* A data frame that goes nowhere: a closed peer reads nothing.
LEMMA SentNowhere ==
  ASSUME NEW w \in Seq(Frames), NEW d \in Nat, NEW m \in Nat, InOrder(w, d, m)
  PROVE  InOrder(w, d, m + 1)
<1> HIDE DEF Frames, IsData
<1>1. (d + 1)..m \subseteq (d + 1)..(m + 1)
  OBVIOUS
<1> QED  BY <1>1 DEF InOrder

\* What the invariant says of the frames to e.
OrderOf(e) ==
  /\ Len(delivered[e]) <= sent[Other(e)]
  /\ \A i \in 1..Len(delivered[e]) : delivered[e][i] = i
  /\ InOrder(wire[e], Len(delivered[e]), sent[Other(e)])
  /\ open[e] /\ open[Other(e)] => Full(wire[e], Len(delivered[e]), sent[Other(e)])

\* No data frame is sent to e or read by it.
HandshakeStep(e) ==
  /\ open' = open /\ sent' = sent /\ delivered' = delivered
  /\ \/ wire'[e] = wire[e]
     \/ wire[e] # <<>> /\ ~IsData(wire[e][1]) /\ wire'[e] = Tail(wire[e])
     \/ \E f \in Frames : ~IsData(f) /\ wire'[e] = Append(wire[e], f)

\* Such a step keeps the order.
LEMMA HandshakeStepKeeps ==
  ASSUME ChannelTypeOK, NEW e \in Endpoints, OrderOf(e), HandshakeStep(e)
  PROVE  OrderOf(e)'
<1> DEFINE d == Len(delivered[e])
           m == sent[Other(e)]
<1>1. /\ wire[e] \in Seq(Frames) /\ d \in Nat /\ m \in Nat
  BY SMTT(30), OtherFacts DEF ChannelTypeOK
<1>2. open' = open /\ sent' = sent /\ delivered' = delivered
  BY DEF HandshakeStep
<1>3. InOrder(wire[e], d, m)
  BY DEF OrderOf
<1>4. SUFFICES InOrder(wire'[e], d, m) /\ (Full(wire[e], d, m) => Full(wire'[e], d, m))
  BY <1>2 DEF OrderOf
<1> HIDE DEF d, m, Frames, IsData
<1>5. CASE wire'[e] = wire[e]
  BY <1>3, <1>5
<1>6. CASE wire[e] # <<>> /\ ~IsData(wire[e][1]) /\ wire'[e] = Tail(wire[e])
  <2>1. /\ Tail(wire[e]) \in Seq(Frames) /\ Len(Tail(wire[e])) < Len(wire[e])
        /\ \A i \in 1..Len(Tail(wire[e])) : Tail(wire[e])[i] = wire[e][i + 1]
    BY <1>1, <1>6
  <2>2. InOrder(Tail(wire[e]), d, m)
    BY <2>1, <1>1, <1>3, <1>6, InOrderPart
  <2>3. Full(wire[e], d, m) => Full(Tail(wire[e]), d, m)
    BY <1>1, <1>6, FullTail
  <2> QED  BY <2>2, <2>3, <1>6
<1>7. CASE \E f \in Frames : ~IsData(f) /\ wire'[e] = Append(wire[e], f)
  <2>1. PICK f \in Frames : ~IsData(f) /\ wire'[e] = Append(wire[e], f)
    BY <1>7
  <2> QED  BY <2>1, <1>1, <1>3, AppendHandshake
<1> QED  BY <1>5, <1>6, <1>7 DEF HandshakeStep

\* A frame that e reads, and one that e sends, change one wire each.
LEMMA SentWires ==
  ASSUME NEW w \in [Endpoints -> Seq(Frames)], NEW e \in Endpoints, NEW f \in Frames
  PROVE  /\ Sent(w, e, f)[e] = w[e]
         /\ open[e] /\ open[Other(e)] =>
              Sent(w, e, f)[Other(e)] = Append(w[Other(e)], f)
         /\ ~(open[e] /\ open[Other(e)]) => Sent(w, e, f) = w
<1> HIDE DEF Frames, Endpoints
<1> QED  BY OtherFacts DEF Sent

\* The frame that is read is taken from the wire to e, and no other.
LEMMA TakenWires ==
  ASSUME ChannelTypeOK, NEW e \in Endpoints, wire[e] # <<>>
  PROVE  /\ Taken(e) \in [Endpoints -> Seq(Frames)]
         /\ Taken(e)[e] = Tail(wire[e]) /\ Taken(e)[Other(e)] = wire[Other(e)]
         /\ Head(wire[e]) = wire[e][1] /\ wire[e][1] \in Frames
<1> HIDE DEF Frames, Endpoints
<1>1. wire \in [Endpoints -> Seq(Frames)]
  BY DEF ChannelTypeOK
<1>2. Taken(e) \in [Endpoints -> Seq(Frames)]
  BY <1>1, WireTypes DEF Taken
<1>3. Taken(e)[e] = Tail(wire[e]) /\ Taken(e)[Other(e)] = wire[Other(e)]
  BY <1>1, OtherFacts DEF Taken
<1>4. Head(wire[e]) = wire[e][1] /\ wire[e][1] \in Frames
  BY SMTT(30), <1>1
<1> QED  BY <1>2, <1>3, <1>4

\* e reads a handshake frame, and sends another or none.
LEMMA ReadHandshake ==
  ASSUME ChannelTypeOK, NEW e \in Endpoints, NEW h \in Handshakes,
         NEW t \in {"INIT", "RESPONSE", "COMPLETE"}, Reads(e, Plain(t, h)),
         UNCHANGED <<open, sent, delivered>>,
         \/ wire' = Taken(e)
         \/ \E f \in Frames : ~IsData(f) /\ wire' = Sent(Taken(e), e, f)
  PROVE  \A g \in Endpoints : HandshakeStep(g)
<1> HIDE DEF Frames, IsData, Handshakes
<1>1. wire[e] # <<>> /\ Plain(t, h) = Head(wire[e])
  BY DEF Reads
<1>2. /\ Taken(e) \in [Endpoints -> Seq(Frames)]
      /\ Taken(e)[e] = Tail(wire[e]) /\ Taken(e)[Other(e)] = wire[Other(e)]
      /\ Head(wire[e]) = wire[e][1]
  BY <1>1, TakenWires
<1>3. ~IsData(wire[e][1])
  <2>1. ~IsData(Plain(t, h))
    BY PlainFrame
  <2> QED  BY <2>1, <1>1, <1>2
<1>4. /\ wire'[e] = Tail(wire[e])
      /\ \/ wire'[Other(e)] = wire[Other(e)]
         \/ \E f \in Frames : ~IsData(f) /\ wire'[Other(e)] = Append(wire[Other(e)], f)
  <2>1. CASE wire' = Taken(e)
    BY <2>1, <1>2
  <2>2. ASSUME NEW f \in Frames, ~IsData(f), wire' = Sent(Taken(e), e, f)
        PROVE  /\ wire'[e] = Tail(wire[e])
               /\ \/ wire'[Other(e)] = wire[Other(e)]
                  \/ wire'[Other(e)] = Append(wire[Other(e)], f)
    <3>1. /\ Sent(Taken(e), e, f)[e] = Taken(e)[e]
          /\ \/ Sent(Taken(e), e, f)[Other(e)] = Append(Taken(e)[Other(e)], f)
             \/ Sent(Taken(e), e, f) = Taken(e)
      BY <1>2, SentWires
    <3> QED  BY <3>1, <2>2, <1>2
  <2> QED  BY <2>1, <2>2
<1>5. HandshakeStep(e)
  BY <1>1, <1>3, <1>4 DEF HandshakeStep
<1>6. HandshakeStep(Other(e))
  BY <1>4 DEF HandshakeStep
<1>7. \A g \in Endpoints : g = e \/ g = Other(e)
  BY DEF Endpoints, Other
<1> QED  BY <1>5, <1>6, <1>7

\* The data frame that e reads is the next one.
LEMMA ReceiveDataKeeps ==
  ASSUME ChannelTypeOK, NEW e \in Endpoints, \A g \in Endpoints : OrderOf(g), ReceiveData(e)
  PROVE  \A g \in Endpoints : OrderOf(g)'
<1> DEFINE w == wire[e]
           d == Len(delivered[e])
           m == sent[Other(e)]
<1> HIDE DEF Frames, IsData, Handshakes, Endpoints
<1>1. PICK n \in 1..MaxData :
        /\ w # <<>> /\ Head(w).type = "DATA" /\ Head(w).hs = n
        /\ delivered' = [delivered EXCEPT ![e] = Append(@, n)]
        /\ wire' = Taken(e)
        /\ open' = open /\ sent' = sent
  BY DEF ReceiveData
<1>2. /\ w \in Seq(Frames) /\ d \in Nat /\ m \in Nat /\ delivered[e] \in Seq(Nat)
      /\ delivered \in [Endpoints -> Seq(Nat)] /\ Other(e) \in Endpoints /\ Other(e) # e
  BY SMTT(30), OtherFacts DEF ChannelTypeOK
<1>3. /\ wire'[e] = Tail(w) /\ wire'[Other(e)] = wire[Other(e)] /\ Head(w) = w[1]
  BY <1>1, TakenWires
<1>4. IsData(w[1]) /\ w[1].hs = n
  BY <1>1, <1>3 DEF IsData
<1>5. OrderOf(e)
  OBVIOUS
<1>6. InOrder(w, d, m)
  BY <1>5 DEF OrderOf
<1> HIDE DEF w, d, m
<1>7. n = d + 1 /\ d + 1 <= m
  BY <1>1, <1>2, <1>4, <1>6, FirstIsNext
<1>8. InOrder(Tail(w), d + 1, m) /\ (Full(w, d, m) => Full(Tail(w), d + 1, m))
  BY <1>1, <1>2, <1>4, <1>6, InOrderTail
<1>9. delivered'[e] = Append(delivered[e], n) /\ delivered'[Other(e)] = delivered[Other(e)]
  BY <1>1, <1>2
<1>10. /\ Len(delivered'[e]) = d + 1 /\ delivered'[e][d + 1] = n
       /\ \A i \in 1..d : delivered'[e][i] = delivered[e][i]
  BY <1>2, <1>9 DEF d
<1>11. \A i \in 1..d : delivered[e][i] = i
  BY <1>5 DEF OrderOf, d
<1>12. \A i \in 1..(d + 1) : delivered'[e][i] = i
  <2> SUFFICES ASSUME NEW i \in 1..(d + 1) PROVE delivered'[e][i] = i
    OBVIOUS
  <2>1. CASE i = d + 1
    BY <2>1, <1>7, <1>10
  <2>2. CASE i # d + 1
    <3>1. i \in 1..d
      BY <2>2, <1>2
    <3> QED  BY <3>1, <1>10, <1>11
  <2> QED  BY <2>1, <2>2
<1>13. open[e] /\ open[Other(e)] => Full(w, d, m)
  BY <1>5 DEF OrderOf, w, d, m
<1>14. sent'[Other(e)] = m
  BY <1>1 DEF m
<1>15. OrderOf(e)'
  BY <1>1, <1>3, <1>7, <1>8, <1>10, <1>12, <1>13, <1>14 DEF OrderOf
<1>16. OrderOf(Other(e))'
  <2>1. OrderOf(Other(e))
    BY <1>2
  <2> QED  BY <2>1, <1>1, <1>3, <1>9 DEF OrderOf
<1>17. \A g \in Endpoints : g = e \/ g = Other(e)
  BY DEF Endpoints, Other
<1> QED  BY <1>15, <1>16, <1>17

\* The data frame that e sends is numbered one more than the last.
LEMMA SendDataKeeps ==
  ASSUME ChannelTypeOK, NEW e \in Endpoints, \A g \in Endpoints : OrderOf(g), SendData(e)
  PROVE  \A g \in Endpoints : OrderOf(g)'
<1> HIDE DEF Frames, IsData, Handshakes, Endpoints
<1> DEFINE o == Other(e)
           w == wire[o]
           d == Len(delivered[o])
           m == sent[e]
<1>1. /\ w \in Seq(Frames) /\ d \in Nat /\ m \in Nat /\ o \in Endpoints /\ o # e
      /\ Other(o) = e /\ sent \in [Endpoints -> Nat]
      /\ wire \in [Endpoints -> Seq(Frames)]
      /\ session[e] \in Sessions \cup {NoSession} /\ tx_seq \in [Sessions -> Nat]
  BY SMTT(30), OtherFacts DEF ChannelTypeOK
<1>2. /\ open' = open /\ delivered' = delivered
      /\ sent' = [sent EXCEPT ![e] = m + 1]
  BY DEF SendData
<1>3. PICK f \in Frames : IsData(f) /\ f.hs = m + 1 /\ wire' = Sent(wire, e, f)
  <2>1. CASE IsActive(session[e])
    <3>1. session[e] \in Sessions
      BY <2>1, <1>1 DEF IsActive
    <3>2. tx_seq[session[e]] + 1 \in Nat
      BY <3>1, <1>1
    <3>3. wire' = Sent(wire, e, Data(m + 1, session[e], tx_seq[session[e]] + 1))
      BY <2>1 DEF SendData
    <3>4. LET f == Data(m + 1, session[e], tx_seq[session[e]] + 1)
          IN  f \in Frames /\ IsData(f) /\ f.hs = m + 1
      <4>1. m + 1 \in Nat
        BY SMTT(30), <1>1
      <4>2. session[e] \in Sessions \cup {NoSession}
        BY <3>1
      <4> DEFINE n == m + 1
                 q == tx_seq[session[e]] + 1
                 b == session[e]
      <4>3. n \in Nat /\ q \in Nat /\ b \in Sessions \cup {NoSession}
        BY <4>1, <4>2, <3>2
      <4> HIDE DEF n, q, b, NoSession
      <4>4. Data(n, b, q) \in Frames /\ IsData(Data(n, b, q)) /\ Data(n, b, q).hs = n
        BY SMTT(30), <4>3, DataFrame
      <4> QED  BY <4>4 DEF n, q, b
    <3> HIDE DEF m
    <3> QED  BY <3>3, <3>4
  <2>2. CASE ~IsActive(session[e])
    <3>1. wire' = Sent(wire, e, Data(m + 1, NoSession, 0))
      BY <2>2 DEF SendData
    <3>2. LET f == Data(m + 1, NoSession, 0)
          IN  f \in Frames /\ IsData(f) /\ f.hs = m + 1
      <4>1. m + 1 \in Nat
        BY SMTT(30), <1>1
      <4> QED  BY SMTT(30), <4>1, FrameFacts
    <3> HIDE DEF m
    <3> QED  BY <3>1, <3>2
  <2> QED  BY <2>1, <2>2
<1>4. sent'[e] = m + 1 /\ sent'[o] = sent[o]
  BY <1>1, <1>2
<1>5. OrderOf(o) /\ OrderOf(e)
  BY <1>1
<1>6. wire'[e] = wire[e]
  BY <1>1, <1>3, SentWires
<1>7. OrderOf(e)'
  BY <1>2, <1>4, <1>5, <1>6 DEF OrderOf
<1>8. /\ d <= m /\ InOrder(w, d, m) /\ (open[o] /\ open[e] => Full(w, d, m))
      /\ \A i \in 1..d : delivered[o][i] = i
  BY <1>1, <1>5 DEF OrderOf
<1>9. ASSUME open[e] /\ open[o]
      PROVE  OrderOf(o)'
  <2>1. wire'[o] = Append(w, f)
    BY <1>1, <1>3, <1>9, SentWires
  <2> HIDE DEF o, w, d, m
  <2>2. InOrder(Append(w, f), d, m + 1) /\ Full(Append(w, f), d, m + 1)
    BY <1>1, <1>3, <1>8, <1>9, AppendData
  <2>3. d <= m + 1
    BY SMTT(30), <1>1, <1>8
  <2>4. Len(delivered'[o]) = d /\ Other(o) = e
    BY <1>1, <1>2 DEF d
  <2> QED  BY <2>1, <2>2, <2>3, <2>4, <1>2, <1>4, <1>8 DEF OrderOf
<1>10. ASSUME ~(open[e] /\ open[o])
       PROVE  OrderOf(o)'
  <2>1. wire'[o] = w
    BY <1>1, <1>3, <1>10, SentWires
  <2> HIDE DEF o, w, d, m
  <2>2. InOrder(w, d, m + 1)
    BY <1>1, <1>8, SentNowhere
  <2>3. d <= m + 1
    BY SMTT(30), <1>1, <1>8
  <2>4. Len(delivered'[o]) = d /\ Other(o) = e
    BY <1>1, <1>2 DEF d
  <2> QED  BY <2>1, <2>2, <2>3, <2>4, <1>2, <1>4, <1>8, <1>10 DEF OrderOf
<1>11. OrderOf(o)'
  BY <1>9, <1>10
<1>12. \A g \in Endpoints : g = e \/ g = o
  BY DEF Endpoints, Other
<1> QED  BY <1>7, <1>11, <1>12

\* Nothing is on its way, which is in order.
LEMMA EmptyInOrder ==
  ASSUME NEW d, NEW m
  PROVE  InOrder(<<>>, d, m)
<1>1. \A i \in 1..Len(<<>>) : FALSE
  OBVIOUS
<1> QED  BY <1>1, Zenon DEF InOrder

\* e closes the connection: of what is on its way to e, some may still be read.
LEMMA ClosingKeeps ==
  ASSUME ChannelTypeOK, NEW e \in Endpoints, \A g \in Endpoints : OrderOf(g),
         ReceiveWrongComplete(e) \/ RejectData(e)
  PROVE  \A g \in Endpoints : OrderOf(g)'
<1> HIDE DEF Frames, Handshakes, Endpoints
<1> DEFINE w == wire[e]
           d == Len(delivered[e])
           m == sent[Other(e)]
<1>1. /\ w \in Seq(Frames) /\ d \in Nat /\ m \in Nat /\ Other(e) \in Endpoints
      /\ Other(e) # e /\ Other(Other(e)) = e
      /\ wire \in [Endpoints -> Seq(Frames)] /\ open \in [Endpoints -> BOOLEAN]
  BY SMTT(30), OtherFacts DEF ChannelTypeOK
<1>2. open' = [open EXCEPT ![e] = FALSE] /\ sent' = sent /\ delivered' = delivered
  BY DEF ReceiveWrongComplete, RejectData
<1>3. ~open'[e] /\ open'[Other(e)] = open[Other(e)]
  BY <1>1, <1>2
<1>4. OrderOf(e) /\ OrderOf(Other(e))
  BY <1>1
<1>5. InOrder(w, d, m)
  BY <1>4 DEF OrderOf
<1>6. wire'[Other(e)] = wire[Other(e)]
  BY <1>1 DEF ReceiveWrongComplete, RejectData
<1>7. OrderOf(Other(e))'
  BY <1>1, <1>2, <1>3, <1>4, <1>6 DEF OrderOf
<1>8. InOrder(wire'[e], d, m)
  <2>1. CASE ReceiveWrongComplete(e)
    <3>1. PICK h \in Handshakes : Reads(e, Plain("COMPLETE", h))
      BY <2>1 DEF ReceiveWrongComplete
    <3>2. w # <<>> /\ w[1] = Plain("COMPLETE", h)
      BY <3>1, <1>1 DEF Reads
    <3>3. ~IsData(w[1])
      <4>1. ~IsData(Plain("COMPLETE", h))
        BY PlainFrame
      <4> QED  BY <4>1, <3>2
    <3>4. PICK n \in 0..Len(wire[e]) - 1 :
            wire' = [wire EXCEPT ![e] = SubSeq(@, 2, n + 1)]
      BY <2>1 DEF ReceiveWrongComplete
    <3>5. wire'[e] = SubSeq(w, 2, n + 1)
      BY <3>4, <1>1
    <3> HIDE DEF w, d, m
    <3>6. n \in 0..(Len(w) - 1)
      BY DEF w
    <3>7. /\ SubSeq(w, 2, n + 1) \in Seq(Frames) /\ Len(SubSeq(w, 2, n + 1)) = n
          /\ \A i \in 1..n : SubSeq(w, 2, n + 1)[i] = w[i + 1]
      BY <3>6, <1>1
    <3>8. n < Len(w)
      BY <3>6, <1>1
    <3> DEFINE t == SubSeq(w, 2, n + 1)
    <3>9. /\ t \in Seq(Frames) /\ Len(t) < Len(w) /\ wire'[e] = t
          /\ \A i \in 1..Len(t) : t[i] = w[i + 1]
      BY <3>5, <3>7, <3>8
    <3> HIDE DEF t
    <3>10. InOrder(t, d, m)
      BY <3>2, <3>3, <3>9, <1>1, <1>5, InOrderPart
    <3> QED  BY <3>9, <3>10
  <2>2. CASE RejectData(e)
    <3>1. wire'[e] = <<>>
      BY <2>2, <1>1 DEF RejectData
    <3> HIDE DEF w, d, m
    <3> QED  BY <3>1, EmptyInOrder
  <2> QED  BY <2>1, <2>2
<1>9. OrderOf(e)'
  BY <1>2, <1>3, <1>4, <1>8 DEF OrderOf
<1>10. \A g \in Endpoints : g = e \/ g = Other(e)
  BY DEF Endpoints, Other
<1> QED  BY <1>7, <1>9, <1>10

\* Every step keeps the order.
LEMMA StepKeepsOrder ==
  ASSUME ChannelTypeOK, OrderInv, [Next]_vars
  PROVE  OrderInv'
<1> HIDE DEF Frames, Handshakes, Endpoints
<1>1. \A g \in Endpoints : OrderOf(g)
  BY DEF OrderInv, OrderOf
<1>2. SUFFICES \A g \in Endpoints : OrderOf(g)'
  BY DEF OrderInv, OrderOf
<1>3. ASSUME \A g \in Endpoints : HandshakeStep(g)
      PROVE  \A g \in Endpoints : OrderOf(g)'
  BY <1>1, <1>3, HandshakeStepKeeps
<1>4. wire \in [Endpoints -> Seq(Frames)] /\ pending \subseteq Handshakes
  BY DEF ChannelTypeOK
<1>5. ASSUME UNCHANGED <<open, wire, sent, delivered>>
      PROVE  \A g \in Endpoints : OrderOf(g)'
  BY <1>3, <1>5 DEF HandshakeStep
<1>6. ASSUME NEW h \in Handshakes, InitiateHandshake(h)
      PROVE  \A g \in Endpoints : OrderOf(g)'
  <2> DEFINE e == h[1]
             f == Plain("INIT", h)
  <2>1. wire' = Sent(wire, e, f) /\ UNCHANGED <<open, sent, delivered>>
    BY <1>6 DEF InitiateHandshake
  <2>2. e \in Endpoints /\ f \in Frames /\ ~IsData(f)
    BY SessionFacts, FrameFacts
  <2> HIDE DEF e, f
  <2>3. /\ wire'[e] = wire[e]
        /\ wire'[Other(e)] = Append(wire[Other(e)], f) \/ wire'[Other(e)] = wire[Other(e)]
    BY <2>1, <2>2, <1>4, SentWires
  <2>4. HandshakeStep(e) /\ HandshakeStep(Other(e))
    BY <2>1, <2>2, <2>3 DEF HandshakeStep
  <2>5. \A g \in Endpoints : g = e \/ g = Other(e)
    BY <2>2 DEF Endpoints, Other
  <2> QED  BY <2>4, <2>5, <1>3
<1>7. ASSUME NEW h \in Handshakes, TimerExpires(h) \/ TimerFires(h)
      PROVE  \A g \in Endpoints : OrderOf(g)'
  BY <1>5, <1>7 DEF TimerExpires, TimerFires
<1>8. ASSUME NEW e \in Endpoints, ReceiveInit(e)
      PROVE  \A g \in Endpoints : OrderOf(g)'
  <2>1. PICK h \in Handshakes : /\ Reads(e, Plain("INIT", h))
                                /\ wire' = Sent(Taken(e), e, Plain("RESPONSE", h))
    BY <1>8 DEF ReceiveInit
  <2>2. UNCHANGED <<open, sent, delivered>>
    BY <1>8 DEF ReceiveInit
  <2>3. Plain("RESPONSE", h) \in Frames /\ ~IsData(Plain("RESPONSE", h))
    BY FrameFacts
  <2>4. \A g \in Endpoints : HandshakeStep(g)
    BY <2>1, <2>2, <2>3, ReadHandshake
  <2> QED  BY <2>4, <1>3
<1>9. ASSUME NEW e \in Endpoints, ReceiveResponse(e)
      PROVE  \A g \in Endpoints : OrderOf(g)'
  <2>1. PICK h \in pending :
          /\ Reads(e, Plain("RESPONSE", h))
          /\ wire' = Taken(e) \/ wire' = Sent(Taken(e), e, Plain("COMPLETE", h))
    BY <1>9 DEF ReceiveResponse
  <2>2. UNCHANGED <<open, sent, delivered>>
    BY <1>9 DEF ReceiveResponse
  <2>3. h \in Handshakes
    BY <1>4
  <2>4. Plain("COMPLETE", h) \in Frames /\ ~IsData(Plain("COMPLETE", h))
    BY <2>3, FrameFacts
  <2>5. \A g \in Endpoints : HandshakeStep(g)
    BY <2>1, <2>2, <2>3, <2>4, ReadHandshake
  <2> QED  BY <2>5, <1>3
<1>10. ASSUME NEW e \in Endpoints, ReceiveLateResponse(e) \/ ReceiveComplete(e)
       PROVE  \A g \in Endpoints : OrderOf(g)'
  <2>1. /\ wire' = Taken(e) /\ UNCHANGED <<open, sent, delivered>>
        /\ \E t \in {"INIT", "RESPONSE", "COMPLETE"}, h \in Handshakes : Reads(e, Plain(t, h))
    BY <1>10 DEF ReceiveLateResponse, ReceiveComplete
  <2>2. \A g \in Endpoints : HandshakeStep(g)
    BY <2>1, ReadHandshake
  <2> QED  BY <2>2, <1>3
<1>11. ASSUME NEW e \in Endpoints, ReceiveWrongComplete(e) \/ RejectData(e)
       PROVE  \A g \in Endpoints : OrderOf(g)'
  BY <1>1, <1>11, ClosingKeeps
<1>12. ASSUME NEW e \in Endpoints, ReceiveData(e)
       PROVE  \A g \in Endpoints : OrderOf(g)'
  BY <1>1, <1>12, ReceiveDataKeeps
<1>13. ASSUME NEW e \in Endpoints, SendData(e)
       PROVE  \A g \in Endpoints : OrderOf(g)'
  BY <1>1, <1>13, SendDataKeeps
<1>14. CASE UNCHANGED vars
  BY <1>5, <1>14 DEF vars
<1> QED
  BY <1>6, <1>7, <1>8, <1>9, <1>10, <1>11, <1>12, <1>13, <1>14 DEF Next, Receive

\* For any number of handshakes and frames, in either direction: the data
\* frames that on_frame is given are the first that the peer sent, in order and
\* without a gap, whether they were sent encrypted or not.
THEOREM DeliveredCorrect == Spec => []DeliveredInOrder
<1>1. Init => ChannelTypeOK /\ OrderInv
  <2> SUFFICES ASSUME Init PROVE ChannelTypeOK /\ OrderInv
    OBVIOUS
  <2>1. ASSUME NEW e \in Endpoints
        PROVE  /\ Len(delivered[e]) = 0 /\ sent[Other(e)] = 0 /\ wire[e] = <<>>
    BY OtherFacts DEF Init
  <2>2. ASSUME NEW e \in Endpoints
        PROVE  Full(wire[e], Len(delivered[e]), sent[Other(e)])
    <3>1. (0 + 1)..0 = {}
      OBVIOUS
    <3> QED  BY <2>1, <3>1 DEF Full
  <2>3. ASSUME NEW e \in Endpoints
        PROVE  \A i \in 1..Len(delivered[e]) : delivered[e][i] = i
    <3>1. 1..0 = {}
      OBVIOUS
    <3> QED  BY <2>1, <3>1
  <2>4. ASSUME NEW e \in Endpoints
        PROVE  Len(delivered[e]) <= sent[Other(e)]
    BY <2>1
  <2>5. ASSUME NEW e \in Endpoints
        PROVE  InOrder(wire[e], Len(delivered[e]), sent[Other(e)])
    BY <2>1, EmptyInOrder
  <2>6. OrderInv
    BY <2>2, <2>3, <2>4, <2>5 DEF OrderInv
  <2> QED  BY <2>6, InitTypes
<1>2. ChannelTypeOK /\ OrderInv /\ [Next]_vars => (ChannelTypeOK /\ OrderInv)'
  BY StepKeepsTypes, StepKeepsOrder
<1>3. OrderInv => DeliveredInOrder
  BY DEF OrderInv, DeliveredInOrder
<1> QED  BY <1>1, <1>2, <1>3, PTL DEF Spec

=============================================================================
