-------------------------- MODULE TcpDownFlowProofs --------------------------
(***************************************************************************)
(* Proofs about TcpDownFlow, for any streams, water marks and bounds: type *)
(* correctness, the bound on the client's WebSocket, that the pauses agree *)
(* and no client is left paused, that an orderly close loses nothing on    *)
(* the way through an agent, and that the detailed model implements Pipe.  *)
(***************************************************************************)
EXTENDS TcpDownFlow, WsSenderProofs

-----------------------------------------------------------------------------
(* The inductive invariant.                                                *)

\* the frames between the client and the relay, and between relay and agent
Up   == clientWire \o Held(clientOut)
Down == relayWire \o Held(relayOut)

\* The queues are used as their writers use them.
FrameKinds ==
    /\ NoIdleWaiting(clientOut) /\ NoIdleWaiting(relayOut)
    /\ \A i \in 1..Len(Down) : Down[i].stream \notin Direct
    /\ \A i \in 1..Len(toRelay) : toRelay[i].stream \notin Direct

\* A stream ends with one TCP_CLOSE, which each side takes after everything else.
StreamEnds(s) ==
    /\ EndsOnce(Up, s, client[s].open, relay[s].live)
    /\ s \notin Direct => EndsOnce(Down, s, relay[s].live, s \in agentOpen)

\* What was sent and has not arrived is on its way, in order.
Arrived(s) == Len(app[s]) + Len(socket[s].queue)

Ordered(s) ==
    /\ \A i \in 1..Len(app[s]) : app[s][i] = i
    /\ \A i \in 1..Len(socket[s].queue) : socket[s].queue[i] = Len(app[s]) + i
    /\ IF s \in Direct
       THEN IF relay[s].live THEN Carries(Up, s, Arrived(s), sent[s]) ELSE socket[s].queue = <<>>
       ELSE \E n \in Nat : Carries(Down, s, Arrived(s), n) /\ Carries(Up, s, n, sent[s])

\* pendingSends counts the data frames whose callbacks are to come.
Counted(s) == client[s].pending = HeldOf(clientOut, s)

\* Above the high-water mark, every chunk has paused the stream it came from.
Throttled ==
    BufferedAmount(clientOut) <= WsHigh + Cardinality({s \in Streams : client[s].wsPaused})

\* A flag that is copied over a WebSocket is right once its frames are read.
FlagsFollow(s) ==
    /\ client[s].open =>
          LastWord(toClient, s, client[s].peerPaused, relay[s].clientPausedForAgent)
    /\ s \notin Direct /\ relay[s].live =>
          LastWord(toRelay, s, relay[s].agentPaused, socket[s].backpressured)
    /\ relay[s].clientPausedForAgent = (relay[s].agentPaused \/ relay[s].wsBackpressured)
    /\ s \in Direct => ~relay[s].agentPaused /\ ~relay[s].pendingDrain
    /\ s \in Direct /\ relay[s].live /\ SocketFull(s) => relay[s].wsBackpressured
    /\ s \in agentOpen /\ SocketFull(s) => socket[s].backpressured

DownInv ==
    /\ TypeOK
    /\ FrameKinds
    /\ \A s \in Streams : StreamEnds(s)
    /\ \A s \in Streams : Ordered(s)
    /\ \A s \in Streams : Counted(s)
    /\ Throttled
    /\ \A s \in Streams : FlagsFollow(s)

-----------------------------------------------------------------------------
(* Values.                                                                 *)

ClientRec == [open : BOOLEAN, peerPaused : BOOLEAN, wsPaused : BOOLEAN, pending : Nat]
RelayRec  == [live : BOOLEAN, pendingDrain : BOOLEAN, wsBackpressured : BOOLEAN,
              agentPaused : BOOLEAN, clientPausedForAgent : BOOLEAN]
SocketRec == [queue : Seq(1..Chunks), backpressured : BOOLEAN]

\* The parts of TypeOK, by name.
LEMMA Types ==
  ASSUME TypeOK
  PROVE  /\ sent \in [Streams -> 0..Chunks]
         /\ client \in [Streams -> ClientRec]
         /\ clientOut \in SenderOf(Frames)
         /\ clientWire \in Seq(Frames)
         /\ relay \in [Streams -> RelayRec]
         /\ relayOut \in SenderOf(Frames)
         /\ relayWire \in Seq(Frames)
         /\ toClient \in Seq(ControlFrames)
         /\ agentOpen \subseteq Streams \ Direct
         /\ toRelay \in Seq(ControlFrames)
         /\ socket \in [Streams -> SocketRec]
         /\ app \in [Streams -> Seq(1..Chunks)]
BY DEF TypeOK, Senders, SenderOf, ClientRec, RelayRec, SocketRec

\* and the same for the next state.
LEMMA TypesNext ==
  ASSUME /\ sent' \in [Streams -> 0..Chunks]
         /\ client' \in [Streams -> ClientRec]
         /\ clientOut' \in SenderOf(Frames)
         /\ clientWire' \in Seq(Frames)
         /\ relay' \in [Streams -> RelayRec]
         /\ relayOut' \in SenderOf(Frames)
         /\ relayWire' \in Seq(Frames)
         /\ toClient' \in Seq(ControlFrames)
         /\ agentOpen' \subseteq Streams \ Direct
         /\ toRelay' \in Seq(ControlFrames)
         /\ socket' \in [Streams -> SocketRec]
         /\ app' \in [Streams -> Seq(1..Chunks)]
  PROVE  TypeOK'
BY DEF TypeOK, Senders, SenderOf, ClientRec, RelayRec, SocketRec

\* A client's state object with another count and another reason to pause.
Recounted(c, n, b) == [c EXCEPT !.pending = n, !.wsPaused = b]

LEMMA RecountedFields ==
  ASSUME NEW c \in ClientRec, NEW n \in Nat, NEW b \in BOOLEAN
  PROVE  /\ Recounted(c, n, b) \in ClientRec
         /\ Recounted(c, n, b).open = c.open /\ Recounted(c, n, b).peerPaused = c.peerPaused
         /\ Recounted(c, n, b).pending = n /\ Recounted(c, n, b).wsPaused = b
BY DEF ClientRec, Recounted

\* The frames the processes make.
LEMMA FramesMade ==
  /\ ChunksAreNumbers(Frames)
  /\ \A s \in Streams, n \in 1..Chunks : Data(s, n) \in Frames
  /\ \A s \in Streams, t \in {"PAUSE", "RESUME", "TCP_CLOSE"} :
        Control(t, s) \in ControlFrames /\ Control(t, s) \in Frames
  /\ \A f \in Frames : f.stream \in Streams /\ (IsData(f) => f.chunk \in 1..Chunks)
  /\ \A f \in ControlFrames : f.stream \in Streams /\ ~IsData(f)
BY DownFlowAssumption DEF ChunksAreNumbers, Frames, DataFrames, ControlFrames, Data, Control, IsData

\* A frame says what it was made from.
LEMMA FrameFields ==
  ASSUME NEW s, NEW n, NEW t
  PROVE  /\ Data(s, n).stream = s /\ Data(s, n).chunk = n /\ IsData(Data(s, n))
         /\ Control(t, s).stream = s /\ Control(t, s).type = t
         /\ t # "TCP_DATA" => ~IsData(Control(t, s))
BY DEF Data, Control, IsData

\* Both paths are sequences of frames.
LEMMA PathTypes ==
  ASSUME TypeOK
  PROVE  Up \in Seq(Frames) /\ Down \in Seq(Frames)
<1>1. \A out \in SenderOf(Frames) : Held(out) \in Seq(Frames)
  BY DEF SenderOf, Held
<1>2. \A a, b \in Seq(Frames) : a \o b \in Seq(Frames)
  OBVIOUS
<1> QED
  BY <1>1, <1>2, Types DEF Up, Down

-----------------------------------------------------------------------------
(* A step that leaves what follows the client's path alone keeps the order *)
(* of a stream if it keeps the order on that path.                         *)

LEMMA ArrivedIsNat ==
  ASSUME TypeOK, NEW t \in Streams
  PROVE  /\ Arrived(t) \in Nat /\ sent[t] \in Nat /\ sent[t] <= Chunks
         /\ Len(app[t]) \in Nat /\ Len(socket[t].queue) \in Nat
<1>1. app[t] \in Seq(1..Chunks) /\ socket[t].queue \in Seq(1..Chunks)
  BY Types DEF SocketRec
<1>2. Len(app[t]) \in Nat /\ Len(socket[t].queue) \in Nat
  BY <1>1
<1>3. \A a, b \in Nat : a + b \in Nat
  OBVIOUS
<1>4. Arrived(t) \in Nat
  BY <1>2, <1>3 DEF Arrived
<1>5. sent[t] \in 0..Chunks /\ Chunks \in Nat
  BY Types, DownFlowAssumption
<1> QED
  BY <1>2, <1>4, <1>5

LEMMA OrderedOnUp ==
  ASSUME TypeOK, NEW t \in Streams, Ordered(t), Down' = Down, UNCHANGED <<relay, socket, app>>,
         \A n \in Nat : Carries(Up, t, n, sent[t]) => Carries(Up', t, n, sent'[t])
  PROVE  Ordered(t)'
<1>1. Arrived(t)' = Arrived(t)
  BY DEF Arrived
<1>2. Arrived(t) \in Nat
  BY ArrivedIsNat
<1> QED
  BY <1>1, <1>2 DEF Ordered

-----------------------------------------------------------------------------
(* 'data' of the local socket.                                             *)

LEMMA ServiceDataEffect ==
  ASSUME TypeOK, FrameKinds, NEW s \in Streams, ServiceData(s)
  PROVE  /\ sent[s] + 1 \in 1..Chunks /\ sent' \in [Streams -> 0..Chunks]
         /\ sent'[s] = sent[s] + 1 /\ \A t \in Streams \ {s} : sent'[t] = sent[t]
         /\ ClientReads(s)
         /\ client' \in [Streams -> ClientRec]
         /\ \A t \in Streams \ {s} : client'[t] = client[t]
         /\ client'[s].open = client[s].open /\ client'[s].peerPaused = client[s].peerPaused
         /\ client'[s].pending = client[s].pending + 1
         /\ client'[s].wsPaused = (BufferedAmount(clientOut') > WsHigh)
         /\ clientOut' = Write(clientOut, Data(s, sent[s] + 1))
         /\ clientOut' \in SenderOf(Frames) /\ NoIdleWaiting(clientOut')
         /\ Data(s, sent[s] + 1) \in Frames
         /\ Up' = Append(Up, Data(s, sent[s] + 1)) /\ Down' = Down
         /\ UNCHANGED <<clientWire, relay, relayOut, toClient, relayWire, agentOpen, toRelay, socket, app>>
<1> DEFINE d == Data(s, sent[s] + 1)
           full == BufferedAmount(clientOut') > WsHigh
<1>1. sent[s] \in 0..Chunks /\ sent[s] < Chunks /\ Chunks \in Nat
  BY Types, DownFlowAssumption DEF ServiceData
<1>2. sent[s] + 1 \in 1..Chunks
  BY <1>1
<1>3. d \in Frames
  BY <1>2, FramesMade
<1>4. clientOut' = Write(clientOut, d) /\ ClientReads(s)
  BY DEF ServiceData
<1>5. clientOut' \in SenderOf(Frames) /\ NoIdleWaiting(clientOut')
  BY <1>3, <1>4, Types, WriteAppends DEF FrameKinds
<1>6. /\ UNCHANGED <<clientWire, relay, relayOut, toClient, relayWire, agentOpen, toRelay, socket, app>>
      /\ sent' = [sent EXCEPT ![s] = @ + 1]
  BY DEF ServiceData, relayVars, appVars
<1>7. PathOf(clientWire, clientOut)' = PathOf(clientWire, Write(clientOut, d))
  BY <1>4, <1>6 DEF PathOf
<1>8. PathOf(clientWire, Write(clientOut, d)) = Append(PathOf(clientWire, clientOut), d)
  BY <1>3, Types, PathWrite DEF FrameKinds
<1>9. Up' = Append(Up, d) /\ Down' = Down
  BY <1>6, <1>7, <1>8 DEF Up, Down, PathOf
<1>10. sent' \in [Streams -> 0..Chunks] /\ sent'[s] = sent[s] + 1
       /\ \A t \in Streams \ {s} : sent'[t] = sent[t]
  BY <1>2, <1>6, Types
<1>11. client' = [client EXCEPT ![s].pending = @ + 1, ![s].wsPaused = full]
  BY DEF ServiceData
<1>12. full \in BOOLEAN /\ client \in [Streams -> ClientRec]
  BY Types
<1> HIDE DEF full, d
<1>13. /\ client' \in [Streams -> ClientRec]
       /\ \A t \in Streams \ {s} : client'[t] = client[t]
       /\ client'[s].open = client[s].open /\ client'[s].peerPaused = client[s].peerPaused
       /\ client'[s].pending = client[s].pending + 1
       /\ client'[s].wsPaused = full
  <2> DEFINE r == Recounted(client[s], client[s].pending + 1, full)
  <2>1. client[s] \in ClientRec /\ client[s].pending + 1 \in Nat
    BY <1>12 DEF ClientRec
  <2>2. /\ r \in ClientRec /\ r.open = client[s].open /\ r.peerPaused = client[s].peerPaused
        /\ r.pending = client[s].pending + 1 /\ r.wsPaused = full
    BY <2>1, <1>12, RecountedFields
  <2>3. client' = [client EXCEPT ![s] = r]
    BY <1>11, <1>12 DEF Recounted
  <2> HIDE DEF r
  <2> QED
    BY <2>2, <2>3, <1>12
<1> QED
  BY <1>2, <1>3, <1>4, <1>5, <1>6, <1>9, <1>10, <1>13 DEF full, d

LEMMA ServiceDataStep ==
  ASSUME DownInv, NEW s \in Streams, ServiceData(s)
  PROVE  DownInv'
<1> DEFINE d == Data(s, sent[s] + 1)
<1>0. TypeOK /\ FrameKinds /\ (\A t \in Streams : StreamEnds(t)) /\ (\A t \in Streams : Ordered(t))
      /\ (\A t \in Streams : Counted(t)) /\ Throttled /\ \A t \in Streams : FlagsFollow(t)
  BY DEF DownInv
<1>e. /\ sent[s] + 1 \in 1..Chunks /\ sent' \in [Streams -> 0..Chunks]
      /\ sent'[s] = sent[s] + 1 /\ \A t \in Streams \ {s} : sent'[t] = sent[t]
      /\ ClientReads(s)
      /\ client' \in [Streams -> ClientRec]
      /\ \A t \in Streams \ {s} : client'[t] = client[t]
      /\ client'[s].open = client[s].open /\ client'[s].peerPaused = client[s].peerPaused
      /\ client'[s].pending = client[s].pending + 1
      /\ client'[s].wsPaused = (BufferedAmount(clientOut') > WsHigh)
      /\ clientOut' = Write(clientOut, d)
      /\ clientOut' \in SenderOf(Frames) /\ NoIdleWaiting(clientOut')
      /\ d \in Frames
      /\ Up' = Append(Up, d) /\ Down' = Down
      /\ UNCHANGED <<clientWire, relay, relayOut, toClient, relayWire, agentOpen, toRelay, socket, app>>
  BY <1>0, ServiceDataEffect
<1>d. d.stream = s /\ IsData(d) /\ d.chunk = sent[s] + 1
  BY FrameFields
<1> HIDE DEF d
<1>t. Up \in Seq(Frames) /\ ChunksAreNumbers(Frames)
  BY <1>0, PathTypes, FramesMade
<1>1. TypeOK'
  BY <1>0, <1>e, Types, TypesNext
<1>2. FrameKinds'
  BY <1>0, <1>e DEF FrameKinds
<1>3. ASSUME NEW t \in Streams PROVE StreamEnds(t)'
  <2>1. EndsOnce(Up', t, client'[t].open, relay'[t].live)
    <3>0. EndsOnce(Up, t, client[t].open, relay[t].live)
      BY <1>0 DEF StreamEnds
    <3>1. CASE t = s
      <4>1. client[s].open = TRUE /\ relay[s].live \in BOOLEAN
        BY <1>0, <1>e, Types DEF ClientReads, ClientRec, RelayRec
      <4>2. EndsOnce(Append(Up, d), s, TRUE, relay[s].live)
        BY <1>t, <1>e, <1>d, <3>0, <3>1, <4>1, EndsAppend
      <4> QED
        BY <4>1, <4>2, <3>1, <1>e
    <3>2. CASE t # s
      <4>1. EndsOnce(Append(Up, d), t, client[t].open, relay[t].live)
        BY <1>t, <1>e, <1>d, <3>0, <3>2, EndsAppendOther
      <4> QED
        BY <4>1, <3>2, <1>e
    <3> QED
      BY <3>1, <3>2
  <2> QED
    BY <2>1, <1>0, <1>e DEF StreamEnds
<1>4. ASSUME NEW t \in Streams PROVE Ordered(t)'
  <2>0. Ordered(t)
    BY <1>0
  <2>1. ASSUME NEW n \in Nat, Carries(Up, t, n, sent[t]) PROVE Carries(Up', t, n, sent'[t])
    <3>0. sent[t] \in Nat
      BY <1>0, Types
    <3>1. CASE t = s
      BY <1>t, <1>e, <1>d, <2>1, <3>0, <3>1, CarriesAppend
    <3>2. CASE t # s
      BY <1>t, <1>e, <1>d, <2>1, <3>2, CarriesAppendOther
    <3> QED
      BY <3>1, <3>2
  <2> QED
    BY <2>0, <2>1, <1>0, <1>e, OrderedOnUp
<1>5. ASSUME NEW t \in Streams PROVE Counted(t)'
  <2>1. HeldOf(clientOut', t) = HeldOf(clientOut, t) + (IF t = s THEN 1 ELSE 0)
    <3>1. HeldOf(Write(clientOut, d), t) =
             HeldOf(clientOut, t) + (IF IsData(d) /\ d.stream = t THEN 1 ELSE 0)
      BY <1>0, <1>e, Types, HeldOfWrite DEF FrameKinds
    <3> QED
      BY <3>1, <1>e, <1>d
  <2>2. client[t].pending = HeldOf(clientOut, t) /\ client[t].pending \in Nat
    BY <1>0, Types DEF Counted, ClientRec
  <2>3. client'[t].pending = HeldOf(clientOut', t)
    BY <2>1, <2>2, <1>e
  <2> QED
    BY <2>3 DEF Counted
<1>6. Throttled'
  <2> DEFINE P == {t \in Streams : client[t].wsPaused}
             Q == {t \in Streams : client'[t].wsPaused}
  <2>1. /\ BufferedAmount(clientOut) \in Nat
        /\ BufferedAmount(clientOut') = BufferedAmount(clientOut) + 1
    BY <1>0, <1>e, <1>d, Types, WriteBuffers DEF FrameKinds
  <2>2. IsFiniteSet(P) /\ IsFiniteSet(Q) /\ Cardinality(P) \in Nat /\ Cardinality(Q) \in Nat
    BY DownFlowAssumption, FS_Subset, FS_CardinalityType
  <2>3. BufferedAmount(clientOut) <= WsHigh + Cardinality(P) /\ WsHigh \in Nat
    BY <1>0, DownFlowAssumption DEF Throttled
  <2>4. CASE client'[s].wsPaused
    <3>1. s \notin P
      BY <1>e DEF ClientReads
    <3>2. Q = P \cup {s}
      BY <1>e, <2>4
    <3>3. Cardinality(Q) = Cardinality(P) + 1
      BY <3>1, <3>2, <2>2, FS_AddElement
    <3>4. BufferedAmount(clientOut') <= WsHigh + Cardinality(Q)
      BY <3>3, <2>1, <2>2, <2>3
    <3> QED
      BY <3>4 DEF Throttled
  <2>5. CASE ~client'[s].wsPaused
    <3>0. ~(BufferedAmount(clientOut') > WsHigh)
      BY <2>5, <1>e, Zenon
    <3>1. BufferedAmount(clientOut') <= WsHigh
      BY <3>0, <2>1, <2>3
    <3>2. BufferedAmount(clientOut') <= WsHigh + Cardinality(Q)
      BY <3>1, <2>1, <2>2, <2>3
    <3> QED
      BY <3>2 DEF Throttled
  <2> QED
    BY <2>4, <2>5
<1>7. ASSUME NEW t \in Streams PROVE FlagsFollow(t)'
  <2>1. client'[t].open = client[t].open /\ client'[t].peerPaused = client[t].peerPaused
    BY <1>e
  <2> QED
    BY <2>1, <1>0, <1>e DEF FlagsFollow, SocketFull
<1> QED
  BY <1>1, <1>2, <1>3, <1>4, <1>5, <1>6, <1>7 DEF DownInv

-----------------------------------------------------------------------------
(* 'close' of the local socket.                                            *)

LEMMA ServiceCloseStep ==
  ASSUME DownInv, NEW s \in Streams, ServiceClose(s)
  PROVE  DownInv'
<1> DEFINE f == Control("TCP_CLOSE", s)
<1>0. TypeOK /\ FrameKinds /\ (\A t \in Streams : StreamEnds(t)) /\ (\A t \in Streams : Ordered(t))
      /\ (\A t \in Streams : Counted(t)) /\ Throttled /\ \A t \in Streams : FlagsFollow(t)
  BY DEF DownInv
<1>f. f.stream = s /\ ~IsData(f) /\ f \in Frames
  BY FrameFields, FramesMade
<1>u. UNCHANGED <<sent, clientWire, relay, relayOut, toClient, relayWire, agentOpen, toRelay, socket, app>>
  BY DEF ServiceClose, relayVars, appVars
<1>c. clientOut' = Write(clientOut, f) /\ ClientReads(s) /\ client' = [client EXCEPT ![s].open = FALSE]
  BY DEF ServiceClose
<1> HIDE DEF f
<1>r. /\ client' \in [Streams -> ClientRec] /\ client[s].open /\ ~client'[s].open
      /\ \A t \in Streams \ {s} : client'[t] = client[t]
      /\ client'[s].pending = client[s].pending /\ client'[s].wsPaused = client[s].wsPaused
  BY <1>0, <1>c, Types DEF ClientRec, ClientReads
<1>w. clientOut' \in SenderOf(Frames) /\ NoIdleWaiting(clientOut')
  BY <1>0, <1>f, <1>c, Types, WriteAppends DEF FrameKinds
<1>t. Up \in Seq(Frames) /\ Up' = Append(Up, f) /\ Down' = Down
  <2>1. PathOf(clientWire, Write(clientOut, f)) = Append(PathOf(clientWire, clientOut), f)
    BY <1>0, <1>f, Types, PathWrite DEF FrameKinds
  <2> QED
    BY <2>1, <1>0, <1>u, <1>c, PathTypes DEF Up, Down, PathOf
<1>1. TypeOK'
  BY <1>0, <1>u, <1>r, <1>w, Types, TypesNext
<1>2. FrameKinds'
  BY <1>0, <1>u, <1>w, <1>t DEF FrameKinds
<1>3. ASSUME NEW t \in Streams PROVE StreamEnds(t)'
  <2>1. EndsOnce(Up', t, client'[t].open, relay'[t].live)
    <3>0. EndsOnce(Up, t, client[t].open, relay[t].live) /\ relay[t].live \in BOOLEAN
      BY <1>0, Types DEF StreamEnds, RelayRec
    <3>1. CASE t = s
      <4>1. client[s].open = TRUE /\ client'[s].open = FALSE
        BY <1>0, <1>r, Types DEF ClientRec
      <4>2. EndsOnce(Append(Up, f), s, FALSE, relay[s].live)
        BY <1>t, <1>f, <3>0, <3>1, <4>1, EndsAppend
      <4> QED
        BY <4>1, <4>2, <3>1, <1>t, <1>u
    <3>2. CASE t # s
      <4>1. EndsOnce(Append(Up, f), t, client[t].open, relay[t].live)
        BY <1>t, <1>f, <3>0, <3>2, EndsAppendOther
      <4> QED
        BY <4>1, <3>2, <1>t, <1>u, <1>r
    <3> QED
      BY <3>1, <3>2
  <2> QED
    BY <2>1, <1>0, <1>u, <1>t DEF StreamEnds
<1>4. ASSUME NEW t \in Streams PROVE Ordered(t)'
  <2>1. ASSUME NEW n \in Nat, Carries(Up, t, n, sent[t]) PROVE Carries(Up', t, n, sent'[t])
    BY <1>t, <1>f, <1>u, <2>1, CarriesAppendOther
  <2> QED
    BY <2>1, <1>0, <1>u, <1>t, OrderedOnUp
<1>5. ASSUME NEW t \in Streams PROVE Counted(t)'
  <2>1. HeldOf(Write(clientOut, f), t) =
           HeldOf(clientOut, t) + (IF IsData(f) /\ f.stream = t THEN 1 ELSE 0)
    BY <1>0, <1>f, Types, HeldOfWrite DEF FrameKinds
  <2>2. client[t].pending = HeldOf(clientOut, t) /\ client[t].pending \in Nat
    BY <1>0, Types DEF Counted, ClientRec
  <2>3. client'[t].pending = HeldOf(clientOut', t)
    BY <2>1, <2>2, <1>f, <1>c, <1>r
  <2> QED
    BY <2>3 DEF Counted
<1>6. Throttled'
  <2>1. BufferedAmount(clientOut') = BufferedAmount(clientOut)
    BY <1>0, <1>f, <1>c, Types, WriteBuffers DEF FrameKinds
  <2>2. {t \in Streams : client'[t].wsPaused} = {t \in Streams : client[t].wsPaused}
    BY <1>r
  <2> QED
    BY <2>1, <2>2, <1>0 DEF Throttled
<1>7. ASSUME NEW t \in Streams PROVE FlagsFollow(t)'
  <2>1. client'[t].open => client[t].open /\ client'[t].peerPaused = client[t].peerPaused
    BY <1>r
  <2> QED
    BY <2>1, <1>0, <1>u DEF FlagsFollow, SocketFull
<1> QED
  BY <1>1, <1>2, <1>3, <1>4, <1>5, <1>6, <1>7 DEF DownInv

-----------------------------------------------------------------------------
(* The end of a batch at the client.                                       *)

\* the client's state object of s after the callbacks of the batch
LEMMA ClientCallbacksFields ==
  ASSUME TypeOK, NEW s \in Streams, Counted(s)
  PROVE  LET r == ClientCallbacks(s, clientOut.sending, Written(clientOut))
         IN  /\ r \in ClientRec
             /\ r.open = client[s].open /\ r.peerPaused = client[s].peerPaused
             /\ r.pending = HeldOf(Written(clientOut), s)
             /\ r.wsPaused => client[s].wsPaused
             /\ client[s].wsPaused /\ ~r.wsPaused => BufferedAmount(Written(clientOut)) <= WsLow
<1> DEFINE n == Cardinality(DataOf(clientOut.sending, s))
           left == client[s].pending - n
           wake == n > 0 /\ left = 0 /\ BufferedAmount(Written(clientOut)) <= WsLow /\ client[s].open
           paused == client[s].wsPaused /\ ~wake
<1>1. left = HeldOf(Written(clientOut), s) /\ left \in Nat
  BY Types, HeldOfWritten DEF Counted
<1>2. client[s] \in ClientRec
  BY Types
<1>3. client[s].wsPaused \in BOOLEAN
  BY <1>2 DEF ClientRec
<1>4. ClientCallbacks(s, clientOut.sending, Written(clientOut)) = Recounted(client[s], left, paused)
  BY DEF ClientCallbacks, Recounted
<1>5. paused \in BOOLEAN
  BY <1>3
<1>6. client[s].wsPaused /\ ~paused => BufferedAmount(Written(clientOut)) <= WsLow
  OBVIOUS
<1>7. paused => client[s].wsPaused
  OBVIOUS
<1> HIDE DEF left, paused
<1>8. /\ Recounted(client[s], left, paused) \in ClientRec
      /\ Recounted(client[s], left, paused).open = client[s].open
      /\ Recounted(client[s], left, paused).peerPaused = client[s].peerPaused
      /\ Recounted(client[s], left, paused).pending = left
      /\ Recounted(client[s], left, paused).wsPaused = paused
  BY <1>1, <1>2, <1>5, RecountedFields
<1> QED
  BY <1>1, <1>4, <1>6, <1>7, <1>8

LEMMA ClientWrittenStep ==
  ASSUME DownInv, ClientWritten
  PROVE  DownInv'
<1>0. TypeOK /\ FrameKinds /\ (\A t \in Streams : StreamEnds(t)) /\ (\A t \in Streams : Ordered(t))
      /\ (\A t \in Streams : Counted(t)) /\ Throttled /\ \A t \in Streams : FlagsFollow(t)
  BY DEF DownInv
<1>u. UNCHANGED <<sent, relay, relayOut, toClient, relayWire, agentOpen, toRelay, socket, app>>
  BY DEF ClientWritten, relayVars, appVars
<1>c. clientOut' = Written(clientOut) /\ clientWire' = clientWire \o clientOut.sending
  BY DEF ClientWritten
<1>d. client' = [t \in Streams |-> ClientCallbacks(t, clientOut.sending, Written(clientOut))]
  BY <1>c DEF ClientWritten
<1>r. ASSUME NEW t \in Streams
      PROVE  /\ client'[t] \in ClientRec
             /\ client'[t].open = client[t].open /\ client'[t].peerPaused = client[t].peerPaused
             /\ client'[t].pending = HeldOf(clientOut', t)
             /\ client'[t].wsPaused => client[t].wsPaused
             /\ client[t].wsPaused /\ ~client'[t].wsPaused => BufferedAmount(clientOut') <= WsLow
  <2>1. client'[t] = ClientCallbacks(t, clientOut.sending, Written(clientOut))
    BY <1>d
  <2> QED
    BY <2>1, <1>0, <1>c, ClientCallbacksFields
<1>w. clientOut' \in SenderOf(Frames) /\ NoIdleWaiting(clientOut')
  BY <1>0, <1>c, Types, WrittenMoves
<1>t. Up' = Up /\ Down' = Down
  <2>1. PathOf(clientWire \o clientOut.sending, Written(clientOut)) = PathOf(clientWire, clientOut)
    BY <1>0, Types, PathWritten
  <2> QED
    BY <2>1, <1>u, <1>c DEF Up, Down, PathOf
<1>1. TypeOK'
  <2>1. client' \in [Streams -> ClientRec]
    BY <1>d, <1>r
  <2>2. clientOut.sending \in Seq(Frames) /\ clientWire \in Seq(Frames)
    BY <1>0, Types DEF SenderOf
  <2>3. clientWire' \in Seq(Frames)
    BY <2>2, <1>c
  <2> QED
    BY <2>1, <2>3, <1>0, <1>u, <1>w, Types, TypesNext
<1>2. FrameKinds'
  BY <1>0, <1>u, <1>w, <1>t DEF FrameKinds
<1>3. ASSUME NEW t \in Streams PROVE StreamEnds(t)'
  BY <1>0, <1>u, <1>r, <1>t DEF StreamEnds
<1>4. ASSUME NEW t \in Streams PROVE Ordered(t)'
  BY <1>0, <1>u, <1>t, OrderedOnUp
<1>5. ASSUME NEW t \in Streams PROVE Counted(t)'
  BY <1>r DEF Counted
<1>6. Throttled'
  <2> DEFINE P == {t \in Streams : client[t].wsPaused}
             Q == {t \in Streams : client'[t].wsPaused}
  <2>1. /\ BufferedAmount(clientOut') \in Nat /\ BufferedAmount(clientOut') <= BufferedAmount(clientOut)
    BY <1>0, <1>c, Types, WrittenBuffers
  <2>2. IsFiniteSet(P) /\ IsFiniteSet(Q) /\ Cardinality(P) \in Nat /\ Cardinality(Q) \in Nat
    BY DownFlowAssumption, FS_Subset, FS_CardinalityType
  <2>3. BufferedAmount(clientOut) <= WsHigh + Cardinality(P) /\ WsHigh \in Nat /\ WsLow \in Nat
        /\ WsLow < WsHigh
    BY <1>0, DownFlowAssumption DEF Throttled
  <2>4. BufferedAmount(clientOut) \in Nat
    <3>1. clientOut.sending \in Seq(Frames) /\ clientOut.waiting \in Seq(Frames)
      BY <1>0, Types DEF SenderOf
    <3>2. Cardinality(DataIn(clientOut.sending)) \in Nat /\ Cardinality(DataIn(clientOut.waiting)) \in Nat
      BY <3>1, DataInPlaces, PlacesFinite
    <3> QED
      BY <3>2 DEF BufferedAmount
  <2>5. CASE P = Q
    <3>0. Cardinality(P) = Cardinality(Q)
      BY <2>5
    <3>1. BufferedAmount(clientOut') <= WsHigh + Cardinality(Q)
      <4> HIDE DEF P, Q
      <4> QED BY <3>0, <2>1, <2>2, <2>3, <2>4
    <3> QED
      BY <3>1 DEF Throttled
  <2>6. CASE P # Q
    <3>1. BufferedAmount(clientOut') <= WsLow
      BY <2>6, <1>r
    <3>2. BufferedAmount(clientOut') <= WsHigh + Cardinality(Q)
      BY <3>1, <2>1, <2>2, <2>3
    <3> QED
      BY <3>2 DEF Throttled
  <2> QED
    BY <2>5, <2>6
<1>7. ASSUME NEW t \in Streams PROVE FlagsFollow(t)'
  <2>1. client'[t].open = client[t].open /\ client'[t].peerPaused = client[t].peerPaused
    BY <1>r
  <2> QED
    BY <2>1, <1>0, <1>u DEF FlagsFollow, SocketFull
<1> QED
  BY <1>1, <1>2, <1>3, <1>4, <1>5, <1>6, <1>7 DEF DownInv

-----------------------------------------------------------------------------
(* PAUSE and RESUME at the client.                                         *)

LEMMA ClientControlStep ==
  ASSUME DownInv, ClientControl
  PROVE  DownInv'
<1> DEFINE f == Head(toClient)
<1>0. TypeOK /\ FrameKinds /\ (\A t \in Streams : StreamEnds(t)) /\ (\A t \in Streams : Ordered(t))
      /\ (\A t \in Streams : Counted(t)) /\ Throttled /\ \A t \in Streams : FlagsFollow(t)
  BY DEF DownInv
<1>u. UNCHANGED <<sent, clientOut, clientWire, relay, relayOut, relayWire, agentOpen, toRelay, socket, app>>
  BY DEF ClientControl, appVars
<1>c. /\ toClient # <<>> /\ toClient' = Tail(toClient)
      /\ client' = IF client[f.stream].open
                   THEN [client EXCEPT ![f.stream].peerPaused = f.type = "PAUSE"] ELSE client
  BY DEF ClientControl
<1>f. toClient \in Seq(ControlFrames) /\ f \in ControlFrames /\ f.stream \in Streams
      /\ toClient' \in Seq(ControlFrames)
  <2>1. toClient \in Seq(ControlFrames)
    BY <1>0, Types
  <2>2. Head(toClient) \in ControlFrames /\ Tail(toClient) \in Seq(ControlFrames)
    BY <2>1, <1>c
  <2> QED
    BY <2>1, <2>2, <1>c, FramesMade
<1> HIDE DEF f
<1>r. /\ client' \in [Streams -> ClientRec]
      /\ \A t \in Streams : /\ client'[t].open = client[t].open
                            /\ client'[t].wsPaused = client[t].wsPaused
                            /\ client'[t].pending = client[t].pending
      /\ \A t \in Streams : client[t].open /\ t = f.stream =>
            client'[t].peerPaused = (f.type = "PAUSE")
      /\ \A t \in Streams : t # f.stream => client'[t] = client[t]
  <2>1. client \in [Streams -> ClientRec]
    BY <1>0, Types
  <2>2. CASE ~client[f.stream].open
    BY <2>1, <2>2, <1>c, <1>f
  <2>3. CASE client[f.stream].open
    <3> DEFINE b == f.type = "PAUSE"
    <3>1. client' = [client EXCEPT ![f.stream].peerPaused = b] /\ b \in BOOLEAN
      BY <2>3, <1>c
    <3> HIDE DEF b
    <3>2. /\ client' \in [Streams -> ClientRec]
          /\ \A t \in Streams : t # f.stream => client'[t] = client[t]
          /\ client'[f.stream].open = client[f.stream].open
          /\ client'[f.stream].wsPaused = client[f.stream].wsPaused
          /\ client'[f.stream].pending = client[f.stream].pending
          /\ client'[f.stream].peerPaused = b
      BY <2>1, <3>1, <1>f DEF ClientRec
    <3> QED
      BY <3>2 DEF b
  <2> QED
    BY <2>2, <2>3
<1>t. Up' = Up /\ Down' = Down
  BY <1>u DEF Up, Down
<1>1. TypeOK'
  BY <1>0, <1>u, <1>r, <1>f, Types, TypesNext
<1>2. FrameKinds'
  BY <1>0, <1>u, <1>t DEF FrameKinds
<1>3. ASSUME NEW t \in Streams PROVE StreamEnds(t)'
  BY <1>0, <1>u, <1>r, <1>t DEF StreamEnds
<1>4. ASSUME NEW t \in Streams PROVE Ordered(t)'
  BY <1>0, <1>u, <1>t, OrderedOnUp
<1>5. ASSUME NEW t \in Streams PROVE Counted(t)'
  <2>1. client'[t].pending = HeldOf(clientOut', t)
    BY <1>0, <1>r, <1>u DEF Counted
  <2> QED
    BY <2>1 DEF Counted
<1>6. Throttled'
  <2>1. {t \in Streams : client'[t].wsPaused} = {t \in Streams : client[t].wsPaused}
    BY <1>r
  <2> QED
    BY <2>1, <1>0, <1>u DEF Throttled
<1>7. ASSUME NEW t \in Streams PROVE FlagsFollow(t)'
  <2>1. ASSUME client'[t].open
        PROVE  LastWord(toClient', t, client'[t].peerPaused, relay'[t].clientPausedForAgent)
    <3>1. LastWord(toClient, t, client[t].peerPaused, relay[t].clientPausedForAgent)
      BY <2>1, <1>0, <1>r DEF FlagsFollow
    <3>2. LastWord(Tail(toClient), t, IF f.stream = t THEN f.type = "PAUSE" ELSE client[t].peerPaused,
                   relay[t].clientPausedForAgent)
      BY <3>1, <1>c, <1>f, LastWordTail DEF f
    <3>3. CASE f.stream = t
      <4>1. client'[t].peerPaused = (f.type = "PAUSE")
        BY <3>3, <2>1, <1>r
      <4> QED
        BY <4>1, <3>2, <3>3, <1>c, <1>u
    <3>4. CASE f.stream # t
      BY <3>2, <3>4, <1>c, <1>u, <1>r
    <3> QED
      BY <3>3, <3>4
  <2> QED
    BY <2>1, <1>0, <1>u DEF FlagsFollow, SocketFull
<1> QED
  BY <1>1, <1>2, <1>3, <1>4, <1>5, <1>6, <1>7 DEF DownInv

-----------------------------------------------------------------------------
(* The relay tells the client of every change.                             *)

\* Whatever flag the client ended up with before, it ends up with the new one.
ToClientFollows ==
    /\ toClient' \in Seq(ControlFrames)
    /\ \A t \in Streams : \A was \in BOOLEAN :
          LastWord(toClient, t, was, relay[t].clientPausedForAgent) =>
             LastWord(toClient', t, was, relay'[t].clientPausedForAgent)

LEMMA ToldFrame ==
  ASSUME NEW s \in Streams, NEW r \in RelayRec
  PROVE  /\ Told(s, r) \in ControlFrames /\ Told(s, r).stream = s
         /\ (Told(s, r).type = "PAUSE") = r.clientPausedForAgent
<1>1. r.clientPausedForAgent \in BOOLEAN
  BY DEF RelayRec
<1>2. CASE r.clientPausedForAgent
  <2>1. Told(s, r) = Control("PAUSE", s)
    BY <1>2 DEF Told
  <2>2. Control("PAUSE", s) \in ControlFrames
    BY FramesMade
  <2>3. Control("PAUSE", s).stream = s /\ Control("PAUSE", s).type = "PAUSE"
    BY FrameFields
  <2> QED
    BY <2>1, <2>2, <2>3, <1>1, <1>2
<1>3. CASE ~r.clientPausedForAgent
  <2>1. Told(s, r) = Control("RESUME", s)
    BY <1>3 DEF Told
  <2>2. Control("RESUME", s) \in ControlFrames
    BY FramesMade
  <2>3. Control("RESUME", s).stream = s /\ Control("RESUME", s).type = "RESUME"
    BY FrameFields
  <2> QED
    BY <2>1, <2>2, <2>3, <1>1, <1>3
<1> QED
  BY <1>2, <1>3

LEMMA UpdatesFollow ==
  ASSUME TypeOK, NEW s \in Streams, NEW r \in RelayRec, Updates(s, r)
  PROVE  /\ relay' \in [Streams -> RelayRec]
         /\ relay'[s] = r /\ \A t \in Streams : t # s => relay'[t] = relay[t]
         /\ ToClientFollows
<1>1. relay' = [relay EXCEPT ![s] = r] /\ relay \in [Streams -> RelayRec]
  BY Types DEF Updates
<1>2. /\ relay' \in [Streams -> RelayRec]
      /\ relay'[s] = r /\ \A t \in Streams : t # s => relay'[t] = relay[t]
  BY <1>1
<1>3. toClient \in Seq(ControlFrames)
  BY Types
<1> DEFINE g == ClientTold(s, relay[s], r)
<1>4. toClient' = toClient \o g
  BY DEF Updates
<1>5. g = <<>> \/ g = <<Told(s, r)>>
  BY DEF ClientTold
<1>6. g = <<>> => relay[s].clientPausedForAgent = r.clientPausedForAgent
  BY DEF ClientTold
<1> HIDE DEF g
<1>7. g \in Seq(ControlFrames) /\ Len(g) \in {0, 1} /\ (Len(g) = 0 => g = <<>>)
      /\ \A i \in 1..Len(g) : g[i] = Told(s, r)
  <2>1. CASE g = <<>>
    BY <2>1
  <2>2. CASE g = <<Told(s, r)>>
    <3>1. Told(s, r) \in ControlFrames
      BY ToldFrame
    <3> QED
      BY <2>2, <3>1
  <2> QED
    BY <1>5, <2>1, <2>2
<1>8. toClient' \in Seq(ControlFrames)
  BY <1>3, <1>4, <1>7
<1>9. ASSUME NEW t \in Streams, NEW was \in BOOLEAN,
             LastWord(toClient, t, was, relay[t].clientPausedForAgent)
      PROVE  LastWord(toClient', t, was, relay'[t].clientPausedForAgent)
  <2>1. \A i \in 1..Len(g) : g[i].stream = t =>
            (g[i].type = "PAUSE") = relay'[t].clientPausedForAgent
    BY <1>2, <1>7, ToldFrame
  <2>2. NoneOf(g, t) => relay'[t].clientPausedForAgent = relay[t].clientPausedForAgent
    <3>1. CASE t # s
      BY <3>1, <1>2
    <3>2. CASE t = s
      <4>1. NoneOf(g, s) => Len(g) = 0
        BY <1>7, ToldFrame DEF NoneOf
      <4> QED
        BY <4>1, <3>2, <1>2, <1>6, <1>7
    <3> QED
      BY <3>1, <3>2
  <2> QED
    BY <2>1, <2>2, <1>3, <1>4, <1>7, <1>9, LastWordConcat
<1> QED
  BY <1>2, <1>8, <1>9 DEF ToClientFollows

\* Nothing to tell.
LEMMA NothingFollows ==
  ASSUME TypeOK, toClient' = toClient,
         \A t \in Streams : relay'[t].clientPausedForAgent = relay[t].clientPausedForAgent
  PROVE  ToClientFollows
BY Types DEF ToClientFollows

\* The relay's state object after syncTcpBackpressure.
LEMMA SyncFields ==
  ASSUME NEW r \in RelayRec
  PROVE  /\ SyncTcpBackpressure(r) \in RelayRec
         /\ SyncTcpBackpressure(r).live = r.live
         /\ SyncTcpBackpressure(r).pendingDrain = r.pendingDrain
         /\ SyncTcpBackpressure(r).wsBackpressured = r.wsBackpressured
         /\ SyncTcpBackpressure(r).agentPaused = r.agentPaused
         /\ SyncTcpBackpressure(r).clientPausedForAgent = (r.agentPaused \/ r.wsBackpressured)
<1> DEFINE should == r.agentPaused \/ r.wsBackpressured
<1>1. should \in BOOLEAN
  BY DEF RelayRec
<1>2. SyncTcpBackpressure(r) = [r EXCEPT !.clientPausedForAgent = should]
  BY DEF SyncTcpBackpressure
<1> HIDE DEF should
<1>3. /\ SyncTcpBackpressure(r) \in RelayRec
      /\ SyncTcpBackpressure(r).live = r.live
      /\ SyncTcpBackpressure(r).pendingDrain = r.pendingDrain
      /\ SyncTcpBackpressure(r).wsBackpressured = r.wsBackpressured
      /\ SyncTcpBackpressure(r).agentPaused = r.agentPaused
      /\ SyncTcpBackpressure(r).clientPausedForAgent = should
  BY <1>1, <1>2 DEF RelayRec
<1> QED
  BY <1>3 DEF should

\* What the relay's steps keep of the flags, from what they do to them.
LEMMA RelayKeepsFlags ==
  ASSUME TypeOK, NEW t \in Streams, FlagsFollow(t),
         UNCHANGED <<client, agentOpen, toRelay>>, ToClientFollows,
         relay'[t].live => relay[t].live,
         relay'[t].agentPaused = relay[t].agentPaused,
         relay'[t].clientPausedForAgent = (relay'[t].agentPaused \/ relay'[t].wsBackpressured),
         t \in Direct => ~relay'[t].pendingDrain,
         socket'[t].backpressured = socket[t].backpressured,
         t \in Direct /\ relay'[t].live /\ SocketFull(t)' => relay'[t].wsBackpressured,
         t \notin Direct => socket'[t] = socket[t]
  PROVE  FlagsFollow(t)'
<1>1. client[t].peerPaused \in BOOLEAN
  BY Types DEF ClientRec
<1>2. client'[t].open => LastWord(toClient', t, client'[t].peerPaused, relay'[t].clientPausedForAgent)
  BY <1>1 DEF FlagsFollow, ToClientFollows
<1>3. t \notin Direct /\ relay'[t].live =>
         LastWord(toRelay', t, relay'[t].agentPaused, socket'[t].backpressured)
  BY DEF FlagsFollow
<1>4. t \in agentOpen' /\ SocketFull(t)' => socket'[t].backpressured
  BY Types DEF FlagsFollow, SocketFull
<1>5. t \in Direct => ~relay'[t].agentPaused /\ ~relay'[t].pendingDrain
  BY DEF FlagsFollow
<1> QED
  BY <1>2, <1>3, <1>4, <1>5 DEF FlagsFollow

-----------------------------------------------------------------------------
(* Frames of the client at the relay.                                      *)

\* The frame is the first of the path, of a stream the relay still has.
LEMMA TakesClientFrame ==
  ASSUME DownInv, clientWire # <<>>, clientWire' = Tail(clientWire), clientOut' = clientOut
  PROVE  /\ Up # <<>> /\ Head(Up) = Head(clientWire) /\ Up' = Tail(Up) /\ Up \in Seq(Frames)
         /\ Head(Up) \in Frames /\ Head(Up).stream \in Streams /\ clientWire' \in Seq(Frames)
         /\ relay[Head(Up).stream].live = TRUE
<1>0. TypeOK /\ \A t \in Streams : StreamEnds(t)
  BY DEF DownInv
<1>1. /\ PathOf(clientWire, clientOut) # <<>>
      /\ Head(PathOf(clientWire, clientOut)) = Head(clientWire)
      /\ PathOf(Tail(clientWire), clientOut) = Tail(PathOf(clientWire, clientOut))
      /\ Head(clientWire) \in Frames /\ Tail(clientWire) \in Seq(Frames)
  BY <1>0, Types, PathTail
<1>2. Up # <<>> /\ Head(Up) = Head(clientWire) /\ Up' = Tail(Up) /\ Up \in Seq(Frames)
  BY <1>0, <1>1, PathTypes DEF Up, PathOf
<1>3. Head(Up) \in Frames /\ Head(Up).stream \in Streams
  BY <1>1, <1>2, FramesMade
<1> DEFINE s == Head(Up).stream
<1>4. EndsOnce(Up, s, client[s].open, relay[s].live) /\ client[s].open \in BOOLEAN
      /\ relay[s].live \in BOOLEAN
  BY <1>0, <1>3, Types DEF StreamEnds, ClientRec, RelayRec
<1>5. relay[s].live
  <2> HIDE DEF s
  <2>1. TailEnds(Up, s, client[s].open, relay[s].live)
    BY <1>2, <1>4, EndsTail
  <2> QED
    BY <2>1 DEF TailEnds, s
<1> QED
  BY <1>1, <1>2, <1>3, <1>4, <1>5

\* The order of the streams whose frame it is not.
LEMMA TakesOthersUp ==
  ASSUME DownInv, Up # <<>>, Up \in Seq(Frames), NEW t \in Streams,
         ~(IsData(Head(Up)) /\ Head(Up).stream = t)
  PROVE  \A n \in Nat : Carries(Up, t, n, sent[t]) => Carries(Tail(Up), t, n, sent[t])
BY CarriesTailOther

\* TCP_DATA for the external socket of a direct connection
LEMMA DataToSocketStep ==
  ASSUME DownInv, clientWire # <<>>, clientWire' = Tail(clientWire),
         UNCHANGED <<clientVars, relayWire, agentOpen, toRelay, app>>,
         NEW s \in Direct, s = Head(clientWire).stream, IsData(Head(clientWire)),
         WriteToSocket(s, Head(clientWire).chunk)
  PROVE  DownInv'
<1> DEFINE f == Head(clientWire)
           n == Head(clientWire).chunk
           queue == Append(socket[s].queue, n)
           full == Len(queue) >= SocketHigh
           r == SyncTcpBackpressure([relay[s] EXCEPT !.wsBackpressured = TRUE])
<1>0. TypeOK /\ FrameKinds /\ (\A t \in Streams : StreamEnds(t)) /\ (\A t \in Streams : Ordered(t))
      /\ (\A t \in Streams : Counted(t)) /\ Throttled /\ \A t \in Streams : FlagsFollow(t)
  BY DEF DownInv
<1>u. UNCHANGED <<sent, client, clientOut, relayOut, relayWire, agentOpen, toRelay, app>>
  BY DEF clientVars, WriteToSocket
<1>t. /\ Up # <<>> /\ Head(Up) = f /\ Up' = Tail(Up) /\ Up \in Seq(Frames) /\ f \in Frames
      /\ clientWire' \in Seq(Frames) /\ relay[s].live = TRUE /\ Down' = Down /\ s \in Streams
  BY <1>u, TakesClientFrame DEF Down
<1>n. n \in 1..Chunks
  BY <1>t, FramesMade
<1>q. socket \in [Streams -> SocketRec] /\ socket[s].queue \in Seq(1..Chunks) /\ queue \in Seq(1..Chunks)
      /\ Len(queue) = Len(socket[s].queue) + 1
      /\ queue[Len(queue)] = n /\ \A i \in 1..Len(socket[s].queue) : queue[i] = socket[s].queue[i]
  BY <1>0, <1>t, <1>n, Types, SMTT(20) DEF SocketRec
<1>c. /\ socket' = [socket EXCEPT ![s].queue = queue]
      /\ IF full THEN Updates(s, r) ELSE UNCHANGED <<relay, toClient>>
  BY DEF WriteToSocket
<1> HIDE DEF f, n, queue, full, r
<1>s. /\ socket' \in [Streams -> SocketRec] /\ socket'[s].queue = queue
      /\ \A t \in Streams : t # s => socket'[t] = socket[t]
      /\ \A t \in Streams : socket'[t].backpressured = socket[t].backpressured
  BY <1>q, <1>c, <1>t DEF SocketRec
<1>r. /\ relay' \in [Streams -> RelayRec] /\ ToClientFollows
      /\ \A t \in Streams : t # s => relay'[t] = relay[t]
      /\ relay'[s].live = relay[s].live /\ relay'[s].agentPaused = relay[s].agentPaused
      /\ relay'[s].pendingDrain = relay[s].pendingDrain
      /\ relay'[s].clientPausedForAgent = (relay'[s].agentPaused \/ relay'[s].wsBackpressured)
      /\ full => relay'[s].wsBackpressured
  <2>0. relay \in [Streams -> RelayRec] /\ relay[s] \in RelayRec
    BY <1>0, <1>t, Types
  <2>1. CASE full
    <3> DEFINE r0 == [relay[s] EXCEPT !.wsBackpressured = TRUE]
    <3>1. /\ r0 \in RelayRec /\ r0.live = relay[s].live /\ r0.agentPaused = relay[s].agentPaused
          /\ r0.pendingDrain = relay[s].pendingDrain /\ r0.wsBackpressured = TRUE
      BY <2>0 DEF RelayRec
    <3>2. r = SyncTcpBackpressure(r0)
      BY DEF r
    <3> HIDE DEF r0
    <3>3. /\ r \in RelayRec /\ r.live = relay[s].live /\ r.agentPaused = relay[s].agentPaused
          /\ r.pendingDrain = relay[s].pendingDrain /\ r.wsBackpressured = TRUE
          /\ r.clientPausedForAgent = (r.agentPaused \/ r.wsBackpressured)
      BY <3>1, <3>2, SyncFields
    <3>4. Updates(s, r)
      BY <2>1, <1>c
    <3> QED
      BY <3>3, <3>4, <1>0, <1>t, UpdatesFollow
  <2>2. CASE ~full
    <3>1. UNCHANGED <<relay, toClient>>
      BY <2>2, <1>c
    <3>2. relay[s].clientPausedForAgent = (relay[s].agentPaused \/ relay[s].wsBackpressured)
      BY <1>0, <1>t DEF FlagsFollow
    <3> QED
      BY <3>1, <3>2, <2>0, <2>2, <1>0, NothingFollows
  <2> QED
    BY <2>1, <2>2
<1>1. TypeOK'
  BY <1>0, <1>u, <1>t, <1>r, <1>s, Types, TypesNext DEF ToClientFollows
<1>2. FrameKinds'
  BY <1>0, <1>u, <1>t DEF FrameKinds
<1>3. ASSUME NEW t \in Streams PROVE StreamEnds(t)'
  <2>1. EndsOnce(Up, t, client[t].open, relay[t].live) /\ relay'[t].live = relay[t].live
        /\ client[t].open \in BOOLEAN /\ relay[t].live \in BOOLEAN
    BY <1>0, <1>r, Types DEF StreamEnds, ClientRec, RelayRec
  <2>2. TailEnds(Up, t, client[t].open, relay[t].live)
    BY <2>1, <1>t, EndsTail
  <2> QED
    BY <2>1, <2>2, <1>0, <1>u, <1>t DEF StreamEnds, TailEnds
<1>4. ASSUME NEW t \in Streams PROVE Ordered(t)'
  <2>0. Arrived(t) \in Nat /\ sent[t] \in Nat /\ Ordered(t)
        /\ Len(app[t]) \in Nat /\ Len(socket[t].queue) \in Nat
    BY <1>0, ArrivedIsNat
  <2>1. CASE t = s
    <3>1. Carries(Up, s, Arrived(s), sent[s])
      BY <2>0, <2>1, <1>t DEF Ordered
    <3>2. n = Arrived(s) + 1 /\ Carries(Up', s, Arrived(s) + 1, sent[s])
      BY <2>0, <2>1, <3>1, <1>t, FramesMade, CarriesTail DEF f, n
    <3>3. Arrived(s)' = Arrived(s) + 1
      <4>1. \A a, b \in Nat : a + (b + 1) = (a + b) + 1
        OBVIOUS
      <4>2. Len(app[s])' = Len(app[s]) /\ Len(socket[s].queue)' = Len(socket[s].queue) + 1
        BY <1>s, <1>q, <1>u
      <4>3. Arrived(s)' = Len(app[s]) + (Len(socket[s].queue) + 1)
        BY <4>2 DEF Arrived
      <4> QED
        BY <4>1, <4>3, <2>0, <2>1 DEF Arrived
    <3>4. NumberedFrom(queue, Len(app[s]))
      <4>1. n = (Len(app[s]) + Len(socket[s].queue)) + 1
        BY <3>2 DEF Arrived
      <4>2. NumberedFrom(socket[s].queue, Len(app[s]))
        BY <2>0, <2>1 DEF Ordered, NumberedFrom
      <4> QED
        BY <4>1, <4>2, <2>0, <2>1, <1>q, <1>n, NumberedAppend DEF queue
    <3> QED
      BY <2>0, <2>1, <3>2, <3>3, <3>4, <1>t, <1>r, <1>s, <1>u DEF Ordered, NumberedFrom
  <2>2. CASE t # s
    <3>1. \A m \in Nat : Carries(Up, t, m, sent[t]) => Carries(Up', t, m, sent[t])
      BY <2>2, <1>t, TakesOthersUp DEF f
    <3>2. Arrived(t)' = Arrived(t) /\ socket'[t] = socket[t] /\ relay'[t] = relay[t]
      BY <2>2, <1>s, <1>r, <1>u DEF Arrived
    <3> QED
      BY <3>1, <3>2, <2>0, <1>u, <1>t DEF Ordered
  <2> QED
    BY <2>1, <2>2
<1>5. ASSUME NEW t \in Streams PROVE Counted(t)'
  BY <1>0, <1>u DEF Counted
<1>6. Throttled'
  BY <1>0, <1>u DEF Throttled
<1>7. ASSUME NEW t \in Streams PROVE FlagsFollow(t)'
  <2>1. relay'[t].live = relay[t].live /\ relay'[t].agentPaused = relay[t].agentPaused
        /\ relay'[t].pendingDrain = relay[t].pendingDrain
        /\ relay'[t].clientPausedForAgent = (relay'[t].agentPaused \/ relay'[t].wsBackpressured)
    BY <1>0, <1>r DEF FlagsFollow
  <2>2. t \in Direct /\ relay'[t].live /\ SocketFull(t)' => relay'[t].wsBackpressured
    <3>1. CASE t = s
      <4>1. SocketFull(t)' => full
        BY <3>1, <1>s DEF SocketFull, full
      <4> QED
        BY <4>1, <3>1, <1>r
    <3>2. CASE t # s
      <4>1. SocketFull(t)' = SocketFull(t) /\ relay'[t] = relay[t]
        BY <3>2, <1>s, <1>r DEF SocketFull
      <4> QED
        BY <4>1, <1>0 DEF FlagsFollow
    <3> QED
      BY <3>1, <3>2
  <2>3. t \in Direct => ~relay'[t].pendingDrain
    BY <2>1, <1>0 DEF FlagsFollow
  <2> QED
    BY <2>1, <2>2, <2>3, <1>0, <1>u, <1>r, <1>s, RelayKeepsFlags
<1> QED
  BY <1>1, <1>2, <1>3, <1>4, <1>5, <1>6, <1>7 DEF DownInv

-----------------------------------------------------------------------------
(* A stream's state object becomes r after syncTcpBackpressure.            *)

SyncedTo(s, r) ==
    /\ relay' \in [Streams -> RelayRec] /\ ToClientFollows
    /\ \A t \in Streams : t # s => relay'[t] = relay[t]
    /\ relay'[s].live = r.live /\ relay'[s].pendingDrain = r.pendingDrain
    /\ relay'[s].wsBackpressured = r.wsBackpressured /\ relay'[s].agentPaused = r.agentPaused
    /\ relay'[s].clientPausedForAgent = (r.agentPaused \/ r.wsBackpressured)

LEMMA SyncStep ==
  ASSUME TypeOK, NEW s \in Streams, NEW r \in RelayRec, Updates(s, SyncTcpBackpressure(r))
  PROVE  SyncedTo(s, r)
<1> DEFINE q == SyncTcpBackpressure(r)
<1>1. /\ q \in RelayRec /\ q.live = r.live /\ q.pendingDrain = r.pendingDrain
      /\ q.wsBackpressured = r.wsBackpressured /\ q.agentPaused = r.agentPaused
      /\ q.clientPausedForAgent = (r.agentPaused \/ r.wsBackpressured)
  BY SyncFields
<1>2. Updates(s, q)
  OBVIOUS
<1> HIDE DEF q
<1>3. /\ relay' \in [Streams -> RelayRec] /\ ToClientFollows
      /\ relay'[s] = q /\ \A t \in Streams : t # s => relay'[t] = relay[t]
  BY <1>1, <1>2, UpdatesFollow
<1> QED
  BY <1>1, <1>3 DEF SyncedTo

LEMMA NoSync ==
  ASSUME TypeOK, NEW s \in Streams, FlagsFollow(s), UNCHANGED <<relay, toClient>>
  PROVE  SyncedTo(s, relay[s])
<1>1. relay \in [Streams -> RelayRec] /\ toClient \in Seq(ControlFrames)
  BY Types
<1>2. ToClientFollows
  BY NothingFollows
<1>3. relay[s].clientPausedForAgent = (relay[s].agentPaused \/ relay[s].wsBackpressured)
  BY DEF FlagsFollow
<1> QED
  BY <1>1, <1>2, <1>3 DEF SyncedTo

-----------------------------------------------------------------------------
(* A frame for the agent.                                                  *)

LEMMA ToAgentEffect ==
  ASSUME TypeOK, FrameKinds, NEW g \in Frames, g.stream \notin Direct,
         relayOut' = Write(relayOut, g), relayWire' = relayWire
  PROVE  /\ relayOut' \in SenderOf(Frames) /\ NoIdleWaiting(relayOut')
         /\ Down' = Append(Down, g) /\ Down \in Seq(Frames)
         /\ \A i \in 1..Len(Append(Down, g)) : Append(Down, g)[i].stream \notin Direct
<1>1. relayOut \in SenderOf(Frames) /\ relayWire \in Seq(Frames) /\ NoIdleWaiting(relayOut)
      /\ Down \in Seq(Frames)
  BY Types, PathTypes DEF FrameKinds
<1>2. relayOut' \in SenderOf(Frames) /\ NoIdleWaiting(relayOut')
  BY <1>1, WriteAppends
<1>3. PathOf(relayWire, Write(relayOut, g)) = Append(PathOf(relayWire, relayOut), g)
  BY <1>1, PathWrite
<1>4. Down' = Append(Down, g)
  BY <1>3 DEF Down, PathOf
<1> DEFINE v == Append(Down, g)
<1>5. /\ Len(v) = Len(Down) + 1 /\ v[Len(Down) + 1] = g /\ Len(Down) \in Nat
      /\ \A i \in 1..Len(Down) : v[i] = Down[i]
  BY <1>1
<1> HIDE DEF v
<1>6. \A i \in 1..Len(v) : v[i].stream \notin Direct
  <2>1. \A i \in 1..Len(Down) : Down[i].stream \notin Direct
    BY DEF FrameKinds
  <2>2. \A i \in 1..Len(v) : i \in 1..Len(Down) \/ i = Len(Down) + 1
    BY <1>5
  <2> QED
    BY <2>1, <2>2, <1>5
<1> QED
  BY <1>1, <1>2, <1>4, <1>6 DEF v

\* A stream that neither the frame taken nor the frame written is of.
LEMMA OthersOrdered ==
  ASSUME TypeOK, NEW t \in Streams, Ordered(t), Up # <<>>, Up' = Tail(Up),
         ~(IsData(Head(Up)) /\ Head(Up).stream = t),
         \/ Down' = Down
         \/ \E g \in Frames : Down' = Append(Down, g) /\ ~(IsData(g) /\ g.stream = t),
         sent' = sent, app' = app, socket'[t] = socket[t],
         t \in Direct => relay'[t].live = relay[t].live
  PROVE  Ordered(t)'
<1>0. Up \in Seq(Frames) /\ Down \in Seq(Frames)
  BY PathTypes
<1>1. \A n \in Nat : Carries(Up, t, n, sent[t]) => Carries(Up', t, n, sent[t])
  BY <1>0, CarriesTailOther
<1>2. \A n \in Nat : Carries(Down, t, Arrived(t), n) => Carries(Down', t, Arrived(t), n)
  BY <1>0, CarriesAppendOther
<1>3. Arrived(t)' = Arrived(t) /\ Arrived(t) \in Nat
  BY ArrivedIsNat DEF Arrived
<1> QED
  BY <1>1, <1>2, <1>3 DEF Ordered

\* and a stream whose data went over.
LEMMA OwnOrdered ==
  ASSUME TypeOK, NEW s \in Streams \ Direct, Ordered(s), Up # <<>>, Up' = Tail(Up),
         Head(Up) \in Frames, IsData(Head(Up)), Head(Up).stream = s,
         Down' = Append(Down, Data(s, Head(Up).chunk)),
         sent' = sent, app' = app, socket' = socket
  PROVE  Ordered(s)'
<1> DEFINE n == Head(Up).chunk
<1>0. Up \in Seq(Frames) /\ Down \in Seq(Frames) /\ ChunksAreNumbers(Frames)
  BY PathTypes, FramesMade
<1>1. Arrived(s)' = Arrived(s) /\ Arrived(s) \in Nat /\ sent[s] \in Nat
  BY ArrivedIsNat DEF Arrived
<1>2. PICK m \in Nat : Carries(Down, s, Arrived(s), m) /\ Carries(Up, s, m, sent[s])
  BY DEF Ordered
<1>3. n = m + 1 /\ Carries(Up', s, m + 1, sent[s])
  BY <1>0, <1>1, <1>2, CarriesTail
<1>4. Data(s, n) \in Frames
  BY FramesMade
<1>5. Data(s, n).stream = s /\ Data(s, n).chunk = n /\ IsData(Data(s, n))
  BY FrameFields
<1> HIDE DEF n
<1>6. Carries(Append(Down, Data(s, n)), s, Arrived(s), m + 1)
  BY <1>0, <1>1, <1>2, <1>3, <1>4, <1>5, CarriesAppend
<1>7. m + 1 \in Nat
  OBVIOUS
<1>8. Carries(Down', s, Arrived(s)', m + 1) /\ Carries(Up', s, m + 1, sent'[s])
  BY <1>1, <1>3, <1>6 DEF n
<1> QED
  BY <1>7, <1>8 DEF Ordered

\* TCP_DATA for the agent
LEMMA DataToAgentStep ==
  ASSUME DownInv, clientWire # <<>>, clientWire' = Tail(clientWire),
         UNCHANGED <<clientVars, relayWire, agentOpen, toRelay, app>>,
         NEW s \in Streams \ Direct, s = Head(clientWire).stream, IsData(Head(clientWire)),
         WriteToAgent(s, Head(clientWire).chunk)
  PROVE  DownInv'
<1> DEFINE f == Head(clientWire)
           d == Data(s, Head(clientWire).chunk)
           full == BufferedAmount(relayOut') > WsHigh
           r == [relay[s] EXCEPT !.pendingDrain = TRUE, !.wsBackpressured = TRUE]
<1>0. TypeOK /\ FrameKinds /\ (\A t \in Streams : StreamEnds(t)) /\ (\A t \in Streams : Ordered(t))
      /\ (\A t \in Streams : Counted(t)) /\ Throttled /\ \A t \in Streams : FlagsFollow(t)
  BY DEF DownInv
<1>u. UNCHANGED <<sent, client, clientOut, relayWire, agentOpen, toRelay, app, socket>>
  BY DEF clientVars, WriteToAgent
<1>t. /\ Up # <<>> /\ Head(Up) = f /\ Up' = Tail(Up) /\ Up \in Seq(Frames) /\ f \in Frames
      /\ clientWire' \in Seq(Frames) /\ relay[s].live = TRUE
  BY <1>u, TakesClientFrame
<1>n. f.chunk \in 1..Chunks /\ d \in Frames
  BY <1>t, FramesMade
<1>d. d.stream = s /\ IsData(d)
  BY FrameFields
<1>c. /\ relayOut' = Write(relayOut, d)
      /\ IF full THEN Updates(s, SyncTcpBackpressure(r)) ELSE UNCHANGED <<relay, toClient>>
  BY DEF WriteToAgent
<1> HIDE DEF f, d, full
<1>o. /\ relayOut' \in SenderOf(Frames) /\ NoIdleWaiting(relayOut')
      /\ Down' = Append(Down, d) /\ Down \in Seq(Frames)
      /\ \A i \in 1..Len(Append(Down, d)) : Append(Down, d)[i].stream \notin Direct
  BY <1>0, <1>u, <1>n, <1>d, <1>c, ToAgentEffect
<1>r. /\ relay' \in [Streams -> RelayRec] /\ ToClientFollows
      /\ \A t \in Streams : t # s => relay'[t] = relay[t]
      /\ relay'[s].live = relay[s].live /\ relay'[s].agentPaused = relay[s].agentPaused
      /\ relay'[s].clientPausedForAgent = (relay'[s].agentPaused \/ relay'[s].wsBackpressured)
  <2>1. CASE full
    <3>1. relay[s] \in RelayRec
      BY <1>0, Types
    <3>2. r \in RelayRec /\ r.live = relay[s].live /\ r.agentPaused = relay[s].agentPaused
      BY <3>1 DEF RelayRec
    <3> HIDE DEF r
    <3>3. SyncedTo(s, r)
      BY <2>1, <3>2, <1>0, <1>c, SyncStep
    <3> QED
      BY <3>2, <3>3 DEF SyncedTo
  <2>2. CASE ~full
    <3>1. SyncedTo(s, relay[s])
      BY <2>2, <1>0, <1>c, NoSync
    <3> QED
      BY <3>1 DEF SyncedTo
  <2> QED
    BY <2>1, <2>2
<1> HIDE DEF r
<1>1. TypeOK'
  BY <1>0, <1>u, <1>t, <1>o, <1>r, Types, TypesNext DEF ToClientFollows
<1>2. FrameKinds'
  BY <1>0, <1>u, <1>o DEF FrameKinds
<1>3. ASSUME NEW t \in Streams PROVE StreamEnds(t)'
  <2>1. EndsOnce(Up, t, client[t].open, relay[t].live) /\ relay'[t].live = relay[t].live
        /\ client[t].open \in BOOLEAN /\ relay[t].live \in BOOLEAN
    BY <1>0, <1>r, Types DEF StreamEnds, ClientRec, RelayRec
  <2>2. TailEnds(Up, t, client[t].open, relay[t].live)
    BY <2>1, <1>t, EndsTail
  <2>3. t \notin Direct => EndsOnce(Append(Down, d), t, relay[t].live, t \in agentOpen)
    <3>0. t \notin Direct => EndsOnce(Down, t, relay[t].live, t \in agentOpen)
      BY <1>0 DEF StreamEnds
    <3>1. CASE t = s
      <4> DEFINE there == s \in agentOpen
      <4>0. there \in BOOLEAN
        OBVIOUS
      <4>1. EndsOnce(Down, s, relay[s].live, there)
        BY <3>0, <3>1
      <4> HIDE DEF there
      <4>3. EndsOnce(Down, s, TRUE, there)
        BY <4>1, <1>t
      <4>2. EndsOnce(Append(Down, d), s, TRUE, there)
        BY <4>0, <4>3, <1>o, <1>n, <1>d, EndsAppend
      <4> QED
        BY <4>2, <3>1, <1>t DEF there
    <3>2. CASE t # s
      BY <3>0, <3>2, <1>o, <1>n, <1>d, EndsAppendOther
    <3> QED
      BY <3>1, <3>2
  <2> QED
    BY <2>1, <2>2, <2>3, <1>u, <1>t, <1>o DEF StreamEnds, TailEnds
<1>4. ASSUME NEW t \in Streams PROVE Ordered(t)'
  <2>1. CASE t = s
    BY <2>1, <1>0, <1>t, <1>o, <1>u, OwnOrdered DEF f, d
  <2>2. CASE t # s
    BY <2>2, <1>0, <1>t, <1>o, <1>n, <1>d, <1>u, <1>r, OthersOrdered DEF f
  <2> QED
    BY <2>1, <2>2
<1>5. ASSUME NEW t \in Streams PROVE Counted(t)'
  BY <1>0, <1>u DEF Counted
<1>6. Throttled'
  BY <1>0, <1>u DEF Throttled
<1>7. ASSUME NEW t \in Streams PROVE FlagsFollow(t)'
  <2>1. relay'[t].live = relay[t].live /\ relay'[t].agentPaused = relay[t].agentPaused
        /\ relay'[t].clientPausedForAgent = (relay'[t].agentPaused \/ relay'[t].wsBackpressured)
    BY <1>0, <1>r DEF FlagsFollow
  <2>2. t \in Direct => relay'[t] = relay[t] /\ SocketFull(t)' = SocketFull(t)
    BY <1>r, <1>u DEF SocketFull
  <2>3. t \in Direct => ~relay'[t].pendingDrain
    BY <2>2, <1>0 DEF FlagsFollow
  <2>4. t \in Direct /\ relay'[t].live /\ SocketFull(t)' => relay'[t].wsBackpressured
    BY <2>2, <1>0 DEF FlagsFollow
  <2> QED
    BY <2>1, <2>3, <2>4, <1>0, <1>u, <1>r, RelayKeepsFlags
<1> QED
  BY <1>1, <1>2, <1>3, <1>4, <1>5, <1>6, <1>7 DEF DownInv

\* TCP_CLOSE: cleanupTcpStream
LEMMA RelayCloseStep ==
  ASSUME DownInv, clientWire # <<>>, clientWire' = Tail(clientWire),
         UNCHANGED <<clientVars, relayWire, agentOpen, toRelay, app>>,
         NEW s \in Streams, s = Head(clientWire).stream, ~IsData(Head(clientWire)),
         RelayClose(s)
  PROVE  DownInv'
<1> DEFINE f == Head(clientWire)
           c == Control("TCP_CLOSE", s)
<1>0. TypeOK /\ FrameKinds /\ (\A t \in Streams : StreamEnds(t)) /\ (\A t \in Streams : Ordered(t))
      /\ (\A t \in Streams : Counted(t)) /\ Throttled /\ \A t \in Streams : FlagsFollow(t)
  BY DEF DownInv
<1>u. UNCHANGED <<sent, client, clientOut, relayWire, agentOpen, toRelay, app, toClient>>
  BY DEF clientVars, RelayClose
<1>t. /\ Up # <<>> /\ Head(Up) = f /\ Up' = Tail(Up) /\ Up \in Seq(Frames) /\ f \in Frames
      /\ clientWire' \in Seq(Frames) /\ relay[s].live = TRUE
  BY <1>u, TakesClientFrame
<1>n. c \in Frames
  BY FramesMade
<1>d. c.stream = s /\ ~IsData(c)
  BY FrameFields
<1>f. f.stream = s /\ ~IsData(f)
  OBVIOUS
<1>c. /\ relay' = [relay EXCEPT ![s].live = FALSE]
      /\ relayOut' = IF s \in Direct THEN relayOut ELSE Write(relayOut, c)
      /\ socket' = IF s \in Direct THEN [socket EXCEPT ![s].queue = <<>>] ELSE socket
  BY DEF RelayClose
<1> HIDE DEF f, c
<1>o. /\ relayOut' \in SenderOf(Frames) /\ NoIdleWaiting(relayOut') /\ Down \in Seq(Frames)
      /\ \A i \in 1..Len(Down') : Down'[i].stream \notin Direct
      /\ IF s \in Direct THEN Down' = Down ELSE Down' = Append(Down, c)
  <2>1. CASE s \in Direct
    <3>1. relayOut' = relayOut /\ Down' = Down
      BY <2>1, <1>c, <1>u DEF Down
    <3> QED
      BY <2>1, <3>1, <1>0, Types, PathTypes DEF FrameKinds
  <2>2. CASE s \notin Direct
    <3>1. /\ relayOut' \in SenderOf(Frames) /\ NoIdleWaiting(relayOut')
          /\ Down' = Append(Down, c) /\ Down \in Seq(Frames)
          /\ \A i \in 1..Len(Append(Down, c)) : Append(Down, c)[i].stream \notin Direct
      BY <2>2, <1>0, <1>n, <1>d, <1>c, <1>u, ToAgentEffect
    <3> QED
      BY <2>2, <3>1
  <2> QED
    BY <2>1, <2>2
<1>r. /\ relay' \in [Streams -> RelayRec] /\ relay'[s].live = FALSE
      /\ \A t \in Streams : t # s => relay'[t] = relay[t]
      /\ \A t \in Streams : /\ relay'[t].pendingDrain = relay[t].pendingDrain
                            /\ relay'[t].wsBackpressured = relay[t].wsBackpressured
                            /\ relay'[t].agentPaused = relay[t].agentPaused
                            /\ relay'[t].clientPausedForAgent = relay[t].clientPausedForAgent
  BY <1>0, <1>c, Types, ZenonT(40) DEF RelayRec
<1>v. ToClientFollows
  BY <1>0, <1>u, <1>r, NothingFollows
<1>s. /\ socket' \in [Streams -> SocketRec]
      /\ \A t \in Streams : socket'[t].backpressured = socket[t].backpressured
      /\ \A t \in Streams : t # s \/ t \notin Direct => socket'[t] = socket[t]
      /\ s \in Direct => socket'[s].queue = <<>>
  <2>1. socket \in [Streams -> SocketRec] /\ <<>> \in Seq(1..Chunks)
    BY <1>0, Types
  <2>2. CASE s \in Direct
    <3>1. socket' = [socket EXCEPT ![s].queue = <<>>]
      BY <2>2, <1>c
    <3> QED
      BY <2>1, <2>2, <3>1 DEF SocketRec
  <2>3. CASE s \notin Direct
    <3>1. socket' = socket
      BY <2>3, <1>c
    <3> QED
      BY <2>1, <2>3, <3>1
  <2> QED
    BY <2>2, <2>3
<1>1. TypeOK'
  <2>1. toClient' \in Seq(ControlFrames)
    BY <1>0, <1>u, Types
  <2> QED
    BY <2>1, <1>0, <1>u, <1>t, <1>o, <1>r, <1>s, Types, TypesNext
<1>2. FrameKinds'
  BY <1>0, <1>u, <1>o DEF FrameKinds
<1>3. ASSUME NEW t \in Streams PROVE StreamEnds(t)'
  <2>1. EndsOnce(Up, t, client[t].open, relay[t].live)
        /\ client[t].open \in BOOLEAN /\ relay[t].live \in BOOLEAN
    BY <1>0, Types DEF StreamEnds, ClientRec, RelayRec
  <2>2. TailEnds(Up, t, client[t].open, relay[t].live)
    BY <2>1, <1>t, EndsTail
  <2>3. EndsOnce(Tail(Up), t, client[t].open, relay'[t].live)
    <3>1. CASE t = s
      BY <3>1, <2>2, <1>t, <1>f, <1>r DEF TailEnds
    <3>2. CASE t # s
      BY <3>2, <2>2, <1>r DEF TailEnds
    <3> QED
      BY <3>1, <3>2
  <2>4. t \notin Direct => EndsOnce(Down', t, relay'[t].live, t \in agentOpen)
    <3>0. t \notin Direct => EndsOnce(Down, t, relay[t].live, t \in agentOpen)
      BY <1>0 DEF StreamEnds
    <3>1. CASE t = s /\ t \notin Direct
      <4> DEFINE there == s \in agentOpen
      <4>0. there \in BOOLEAN
        OBVIOUS
      <4>1. EndsOnce(Down, s, relay[s].live, there)
        BY <3>0, <3>1
      <4> HIDE DEF there
      <4>3. EndsOnce(Down, s, TRUE, there)
        BY <4>1, <1>t
      <4>2. EndsOnce(Append(Down, c), s, FALSE, there)
        BY <4>0, <4>3, <1>o, <1>n, <1>d, EndsAppend
      <4> QED
        BY <4>2, <3>1, <1>r, <1>o DEF there
    <3>2. CASE t # s /\ t \notin Direct
      <4>1. Down' = Down \/ Down' = Append(Down, c)
        BY <1>o
      <4>2. EndsOnce(Append(Down, c), t, relay[t].live, t \in agentOpen)
        BY <3>0, <3>2, <1>o, <1>n, <1>d, EndsAppendOther
      <4> QED
        BY <4>1, <4>2, <3>0, <3>2, <1>r
    <3> QED
      BY <3>1, <3>2
  <2> QED
    BY <2>3, <2>4, <1>u, <1>t DEF StreamEnds
<1>4. ASSUME NEW t \in Streams PROVE Ordered(t)'
  <2>1. CASE t = s /\ s \in Direct
    <3>1. \A i \in 1..Len(app'[t]) : app'[t][i] = i
      BY <1>0, <1>u DEF Ordered
    <3>2. \A i \in 1..Len(socket'[t].queue) : socket'[t].queue[i] = Len(app'[t]) + i
      BY <2>1, <1>s
    <3> QED
      BY <2>1, <3>1, <3>2, <1>s, <1>r DEF Ordered
  <2>2. CASE ~(t = s /\ s \in Direct)
    <3>1. Down' = Down \/ (Down' = Append(Down, c) /\ c \in Frames /\ ~IsData(c))
      BY <1>o, <1>n, <1>d
    <3>2. t \in Direct => relay'[t].live = relay[t].live
      BY <2>2, <1>r
    <3>3. socket'[t] = socket[t]
      BY <2>2, <1>s
    <3>4. ~IsData(Head(Up))
      BY <1>t, <1>f
    <3> QED
      BY <3>1, <3>2, <3>3, <3>4, <1>0, <1>t, <1>u, OthersOrdered
  <2> QED
    BY <2>1, <2>2
<1>5. ASSUME NEW t \in Streams PROVE Counted(t)'
  BY <1>0, <1>u DEF Counted
<1>6. Throttled'
  BY <1>0, <1>u DEF Throttled
<1>7. ASSUME NEW t \in Streams PROVE FlagsFollow(t)'
  <2>0. relay'[t].live \in BOOLEAN /\ relay[t].live \in BOOLEAN
    BY <1>0, <1>r, Types DEF RelayRec
  <2>1. /\ relay'[t].live => relay[t].live
        /\ relay'[t].agentPaused = relay[t].agentPaused
        /\ relay'[t].clientPausedForAgent = (relay'[t].agentPaused \/ relay'[t].wsBackpressured)
    BY <2>0, <1>0, <1>r, <1>t DEF FlagsFollow
  <2>2. t \in Direct => ~relay'[t].pendingDrain
    BY <1>r, <1>0 DEF FlagsFollow
  <2>3. t \in Direct /\ relay'[t].live /\ SocketFull(t)' => relay'[t].wsBackpressured
    <3>1. CASE t = s
      BY <3>1, <1>r
    <3>2. CASE t # s
      BY <3>2, <1>0, <1>r, <1>s DEF FlagsFollow, SocketFull
    <3> QED
      BY <3>1, <3>2
  <2> QED
    BY <2>1, <2>2, <2>3, <1>0, <1>u, <1>r, <1>s, <1>v, RelayKeepsFlags
<1> QED
  BY <1>1, <1>2, <1>3, <1>4, <1>5, <1>6, <1>7 DEF DownInv

\* a frame of the client at the relay
LEMMA RelayTakesClientFrameStep ==
  ASSUME DownInv, RelayTakesClientFrame
  PROVE  DownInv'
<1> DEFINE f == Head(clientWire)
           s == Head(clientWire).stream
<1>1. /\ clientWire # <<>> /\ clientWire' = Tail(clientWire)
      /\ UNCHANGED <<clientVars, relayWire, agentOpen, toRelay, app>>
      /\ \/ ~relay[s].live
         \/ /\ relay[s].live /\ f.type = "TCP_DATA"
            /\ IF s \in Direct THEN WriteToSocket(s, f.chunk) ELSE WriteToAgent(s, f.chunk)
         \/ relay[s].live /\ f.type = "TCP_CLOSE" /\ RelayClose(s)
  BY DEF RelayTakesClientFrame
<1>2. clientOut' = clientOut
  BY <1>1 DEF clientVars
<1>3. /\ Head(Up) = f /\ Head(Up).stream \in Streams /\ relay[Head(Up).stream].live = TRUE
  BY <1>1, <1>2, TakesClientFrame
<1>4. s \in Streams /\ relay[s].live
  BY <1>3
<1>5. CASE f.type = "TCP_DATA" /\ s \in Direct /\ WriteToSocket(s, f.chunk)
  BY <1>1, <1>4, <1>5, DataToSocketStep DEF IsData
<1>6. CASE f.type = "TCP_DATA" /\ s \notin Direct /\ WriteToAgent(s, f.chunk)
  BY <1>1, <1>4, <1>6, DataToAgentStep DEF IsData
<1>7. CASE f.type = "TCP_CLOSE" /\ RelayClose(s)
  BY <1>1, <1>4, <1>7, RelayCloseStep DEF IsData
<1> QED
  BY <1>1, <1>4, <1>5, <1>6, <1>7

-----------------------------------------------------------------------------
(* The end of a batch of the agent's WebSocket.                            *)

\* A set in some order is a sequence that names each of its elements.
LEMMA InSomeOrder ==
  ASSUME NEW S, IsFiniteSet(S), NEW order \in SetToSeqs(S)
  PROVE  order \in Seq(S) /\ \A x \in S : \E n \in 1..Len(order) : order[n] = x
<1> DEFINE D == 1..Cardinality(S)
<1>1. Cardinality(S) \in Nat
  BY FS_CardinalityType
<1>2. order \in [D -> S] /\ \A i, j \in D : i # j => order[i] # order[j]
  BY DEF SetToSeqs
<1>3. order \in Injection(D, S)
  BY <1>2 DEF Injection, IsInjective
<1>4. Cardinality(D) = Cardinality(S)
  BY <1>1, FS_Interval
<1>5. order \in Surjection(D, S)
  <2> HIDE DEF D
  <2> QED BY <1>3, <1>4, FS_Injection
<1>6. order \in Seq(S) /\ Len(order) = Cardinality(S)
  BY <1>1, <1>2
<1> QED
  BY <1>5, <1>6 DEF Surjection

\* What the callbacks of a batch do to a stream of the relay.
LEMMA AfterCallbacksFields ==
  ASSUME TypeOK, NEW t \in Streams, FlagsFollow(t), NEW batch, NEW out,
         NEW r, r = AfterCallbacks(t, batch, out)
  PROVE  /\ r \in RelayRec
         /\ r.live = relay[t].live /\ r.agentPaused = relay[t].agentPaused
         /\ r.clientPausedForAgent = (r.agentPaused \/ r.wsBackpressured)
         /\ t \in Direct => r = relay[t]
<1>0. relay[t] \in RelayRec
  BY Types
<1>1. CASE Drained(t, batch, out)
  <2> DEFINE r0 == [relay[t] EXCEPT !.pendingDrain = FALSE, !.wsBackpressured = FALSE]
  <2>1. r0 \in RelayRec /\ r0.live = relay[t].live /\ r0.agentPaused = relay[t].agentPaused
    BY <1>0 DEF RelayRec
  <2>2. r = SyncTcpBackpressure(r0)
    BY <1>1 DEF AfterCallbacks
  <2>3. t \notin Direct
    BY <1>1 DEF Drained, FlagsFollow
  <2> HIDE DEF r0
  <2>4. /\ r \in RelayRec /\ r.live = r0.live /\ r.wsBackpressured = r0.wsBackpressured
        /\ r.agentPaused = r0.agentPaused
        /\ r.clientPausedForAgent = (r0.agentPaused \/ r0.wsBackpressured)
    BY <2>1, <2>2, SyncFields
  <2> QED
    BY <2>1, <2>3, <2>4
<1>2. CASE ~Drained(t, batch, out)
  <2>1. r = relay[t]
    BY <1>2 DEF AfterCallbacks
  <2> QED
    BY <2>1, <1>0 DEF FlagsFollow
<1> QED
  BY <1>1, <1>2

\* The client is told of what changes.
LEMMA TellsFollow ==
  ASSUME TypeOK, NEW g \in Seq(ControlFrames), toClient' = toClient \o g,
         \A t \in Streams : \A i \in 1..Len(g) :
            g[i].stream = t => (g[i].type = "PAUSE") = relay'[t].clientPausedForAgent,
         \A t \in Streams :
            NoneOf(g, t) => relay'[t].clientPausedForAgent = relay[t].clientPausedForAgent
  PROVE  ToClientFollows
<1>1. toClient \in Seq(ControlFrames)
  BY Types
<1>2. toClient' \in Seq(ControlFrames)
  BY <1>1
<1>3. ASSUME NEW t \in Streams, NEW was \in BOOLEAN,
             LastWord(toClient, t, was, relay[t].clientPausedForAgent)
      PROVE  LastWord(toClient', t, was, relay'[t].clientPausedForAgent)
  BY <1>1, <1>3, LastWordConcat
<1> QED
  BY <1>2, <1>3 DEF ToClientFollows

\* and so it is when the callbacks have run, in whatever order.
LEMMA RelayWrittenTells ==
  ASSUME TypeOK, NEW after \in [Streams -> RelayRec], relay' = after,
         NEW order \in SetToSeqs({s \in Streams : ClientTold(s, relay[s], after[s]) # <<>>}),
         toClient' = toClient \o [n \in 1..Len(order) |-> Told(order[n], after[order[n]])]
  PROVE  ToClientFollows
<1> DEFINE told == {s \in Streams : ClientTold(s, relay[s], after[s]) # <<>>}
           g == [n \in 1..Len(order) |-> Told(order[n], after[order[n]])]
<1>1. IsFiniteSet(told)
  BY FS_Subset, DownFlowAssumption
<1>2. order \in Seq(told) /\ \A x \in told : \E n \in 1..Len(order) : order[n] = x
  <2> HIDE DEF told
  <2>1. order \in SetToSeqs(told)
    BY DEF told
  <2> QED BY <1>1, <2>1, InSomeOrder
<1>3. \A n \in 1..Len(order) : order[n] \in Streams /\ after[order[n]] \in RelayRec
  BY <1>2
<1>4. \A t \in Streams : t \notin told => relay[t].clientPausedForAgent = after[t].clientPausedForAgent
  BY DEF ClientTold
<1>5. \A t \in Streams, r \in RelayRec :
        /\ Told(t, r) \in ControlFrames /\ Told(t, r).stream = t
        /\ (Told(t, r).type = "PAUSE") = r.clientPausedForAgent
  BY ToldFrame
<1> HIDE DEF told
<1>6. g \in Seq(ControlFrames) /\ Len(g) = Len(order)
  BY <1>2, <1>3, <1>5
<1>7. \A n \in 1..Len(g) : /\ g[n].stream = order[n]
                           /\ (g[n].type = "PAUSE") = after[order[n]].clientPausedForAgent
  BY <1>3, <1>5, <1>6
<1>8. toClient \in Seq(ControlFrames) /\ toClient' = toClient \o g
  BY Types
<1> HIDE DEF g
<1>9. \A t \in Streams : \A i \in 1..Len(g) :
         g[i].stream = t => (g[i].type = "PAUSE") = relay'[t].clientPausedForAgent
  BY <1>7
<1>10. ASSUME NEW t \in Streams, NoneOf(g, t)
       PROVE  relay'[t].clientPausedForAgent = relay[t].clientPausedForAgent
  <2>1. ASSUME t \in told PROVE FALSE
    <3>1. PICK n \in 1..Len(order) : order[n] = t
      BY <2>1, <1>2
    <3>2. n \in 1..Len(g) /\ g[n].stream = t
      BY <3>1, <1>6, <1>7
    <3> QED
      BY <3>2, <1>10 DEF NoneOf
  <2> QED
    BY <2>1, <1>4
<1> QED
  BY <1>6, <1>8, <1>9, <1>10, TellsFollow

LEMMA RelayWrittenStep ==
  ASSUME DownInv, RelayWritten
  PROVE  DownInv'
<1> DEFINE batch == relayOut.sending
           after == [s \in Streams |-> AfterCallbacks(s, batch, Written(relayOut))]
<1>0. TypeOK /\ FrameKinds /\ (\A t \in Streams : StreamEnds(t)) /\ (\A t \in Streams : Ordered(t))
      /\ (\A t \in Streams : Counted(t)) /\ Throttled /\ \A t \in Streams : FlagsFollow(t)
  BY DEF DownInv
<1>u. UNCHANGED <<sent, client, clientOut, clientWire, agentOpen, toRelay, socket, app>>
  BY DEF clientVars, appVars, RelayWritten
<1>c. /\ relayOut' = Written(relayOut) /\ relayWire' = relayWire \o batch /\ relay' = after
      /\ \E order \in SetToSeqs({s \in Streams : ClientTold(s, relay[s], after[s]) # <<>>}) :
            toClient' = toClient \o [n \in 1..Len(order) |-> Told(order[n], after[order[n]])]
  BY DEF RelayWritten
<1>a. \A t \in Streams :
         /\ after[t] \in RelayRec
         /\ after[t].live = relay[t].live /\ after[t].agentPaused = relay[t].agentPaused
         /\ after[t].clientPausedForAgent = (after[t].agentPaused \/ after[t].wsBackpressured)
         /\ t \in Direct => after[t] = relay[t]
  BY <1>0, AfterCallbacksFields
<1>f. after \in [Streams -> RelayRec]
  BY <1>a
<1> HIDE DEF after
<1>v. ToClientFollows
  BY <1>0, <1>c, <1>f, RelayWrittenTells
<1>o. relayOut \in SenderOf(Frames) /\ relayWire \in Seq(Frames)
  BY <1>0, Types
<1>w. /\ relayOut' \in SenderOf(Frames) /\ NoIdleWaiting(relayOut')
      /\ relayWire' \in Seq(Frames) /\ Up' = Up
  <2>1. batch \in Seq(Frames)
    BY <1>o DEF SenderOf
  <2>2. relayWire' \in Seq(Frames)
    BY <2>1, <1>o, <1>c
  <2> QED
    BY <2>2, <1>c, <1>o, <1>u, WrittenMoves DEF Up
<1>d. Down' = Down
  <2>1. PathOf(relayWire \o batch, Written(relayOut)) = PathOf(relayWire, relayOut)
    BY <1>o, PathWritten
  <2> QED
    BY <2>1, <1>c DEF Down, PathOf
<1>1. TypeOK'
  BY <1>0, <1>u, <1>c, <1>f, <1>v, <1>w, Types, TypesNext DEF ToClientFollows
<1>2. FrameKinds'
  BY <1>0, <1>u, <1>d, <1>w DEF FrameKinds
<1>3. ASSUME NEW t \in Streams PROVE StreamEnds(t)'
  BY <1>0, <1>u, <1>a, <1>c, <1>d, <1>w DEF StreamEnds
<1>4. ASSUME NEW t \in Streams PROVE Ordered(t)'
  <2>1. Arrived(t)' = Arrived(t) /\ relay'[t].live = relay[t].live /\ Ordered(t)
    BY <1>0, <1>u, <1>a, <1>c DEF Arrived
  <2> QED
    BY <2>1, <1>u, <1>d, <1>w DEF Ordered
<1>5. ASSUME NEW t \in Streams PROVE Counted(t)'
  BY <1>0, <1>u DEF Counted
<1>6. Throttled'
  BY <1>0, <1>u DEF Throttled
<1>7. ASSUME NEW t \in Streams PROVE FlagsFollow(t)'
  <2>1. relay'[t].live = relay[t].live /\ relay'[t].agentPaused = relay[t].agentPaused
        /\ relay'[t].clientPausedForAgent = (relay'[t].agentPaused \/ relay'[t].wsBackpressured)
    BY <1>a, <1>c
  <2>2. t \in Direct => relay'[t] = relay[t] /\ SocketFull(t)' = SocketFull(t)
    BY <1>a, <1>c, <1>u DEF SocketFull
  <2>3. t \in Direct => ~relay'[t].pendingDrain
    BY <2>2, <1>0 DEF FlagsFollow
  <2>4. t \in Direct /\ relay'[t].live /\ SocketFull(t)' => relay'[t].wsBackpressured
    BY <2>2, <1>0 DEF FlagsFollow
  <2> QED
    BY <2>1, <2>3, <2>4, <1>0, <1>u, <1>v, RelayKeepsFlags
<1> QED
  BY <1>1, <1>2, <1>3, <1>4, <1>5, <1>6, <1>7 DEF DownInv

\* PAUSE and RESUME from the agent
LEMMA RelayTakesControlStep ==
  ASSUME DownInv, RelayTakesControl
  PROVE  DownInv'
<1> DEFINE f == Head(toRelay)
           s == Head(toRelay).stream
           word == Head(toRelay).type = "PAUSE"
           r == [relay[s] EXCEPT !.agentPaused = word]
<1>0. TypeOK /\ FrameKinds /\ (\A t \in Streams : StreamEnds(t)) /\ (\A t \in Streams : Ordered(t))
      /\ (\A t \in Streams : Counted(t)) /\ Throttled /\ \A t \in Streams : FlagsFollow(t)
  BY DEF DownInv
<1>u. UNCHANGED <<sent, client, clientOut, clientWire, relayOut, relayWire, agentOpen, socket, app>>
  BY DEF clientVars, appVars, RelayTakesControl
<1>c. /\ toRelay # <<>> /\ toRelay' = Tail(toRelay)
      /\ IF ~relay[s].live THEN UNCHANGED <<relay, toClient>>
         ELSE Updates(s, SyncTcpBackpressure(r))
  BY DEF RelayTakesControl
<1>q. toRelay \in Seq(ControlFrames) /\ toRelay' \in Seq(ControlFrames) /\ f \in ControlFrames
      /\ \A i \in 1..Len(toRelay') : toRelay'[i].stream \notin Direct
  <2>1. toRelay \in Seq(ControlFrames)
    BY <1>0, Types
  <2>2. \A i \in 1..Len(Tail(toRelay)) : i + 1 \in 1..Len(toRelay) /\ Tail(toRelay)[i] = toRelay[i + 1]
    BY <2>1, <1>c
  <2>3. f \in ControlFrames /\ Tail(toRelay) \in Seq(ControlFrames)
    BY <2>1, <1>c
  <2> QED
    BY <2>1, <2>2, <2>3, <1>0, <1>c DEF FrameKinds
<1>s. s \in Streams /\ s \notin Direct
  <2>1. f = toRelay[1] /\ 1 \in 1..Len(toRelay)
    BY <1>c, <1>q
  <2>2. f.stream \notin Direct
    BY <2>1, <1>0 DEF FrameKinds
  <2> QED
    BY <2>2, <1>q, FramesMade
<1>x. relay[s] \in RelayRec /\ word \in BOOLEAN
  BY <1>0, <1>s, Types
<1>e. r \in RelayRec /\ r.live = relay[s].live /\ r.agentPaused = word
  <2> HIDE DEF word
  <2> QED BY <1>x DEF RelayRec
<1> HIDE DEF f, s, word, r
<1>r. /\ relay' \in [Streams -> RelayRec] /\ ToClientFollows
      /\ \A t \in Streams : t # s => relay'[t] = relay[t]
      /\ relay'[s].live = relay[s].live
      /\ relay[s].live => relay'[s].agentPaused = word
      /\ relay'[s].clientPausedForAgent = (relay'[s].agentPaused \/ relay'[s].wsBackpressured)
  <2>1. CASE relay[s].live
    <3>1. SyncedTo(s, r)
      BY <2>1, <1>0, <1>c, <1>s, <1>e, SyncStep
    <3> QED
      BY <2>1, <3>1, <1>e DEF SyncedTo
  <2>2. CASE ~relay[s].live
    <3>1. SyncedTo(s, relay[s])
      BY <2>2, <1>0, <1>c, <1>s, NoSync
    <3> QED
      BY <2>2, <3>1 DEF SyncedTo
  <2> QED
    BY <2>1, <2>2
<1>p. Up' = Up /\ Down' = Down
  BY <1>u DEF Up, Down
<1>l. \A t \in Streams : relay'[t].live = relay[t].live
  BY <1>r
<1>1. TypeOK'
  BY <1>0, <1>u, <1>r, <1>q, Types, TypesNext DEF ToClientFollows
<1>2. FrameKinds'
  BY <1>0, <1>u, <1>p, <1>q DEF FrameKinds
<1>3. ASSUME NEW t \in Streams PROVE StreamEnds(t)'
  BY <1>0, <1>u, <1>p, <1>l DEF StreamEnds
<1>4. ASSUME NEW t \in Streams PROVE Ordered(t)'
  <2>1. Arrived(t)' = Arrived(t) /\ relay'[t].live = relay[t].live /\ Ordered(t)
    BY <1>0, <1>u, <1>l DEF Arrived
  <2> QED
    BY <2>1, <1>u, <1>p DEF Ordered
<1>5. ASSUME NEW t \in Streams PROVE Counted(t)'
  BY <1>0, <1>u DEF Counted
<1>6. Throttled'
  BY <1>0, <1>u DEF Throttled
<1>7. ASSUME NEW t \in Streams PROVE FlagsFollow(t)'
  <2>1. client[t].peerPaused \in BOOLEAN
    BY <1>0, Types DEF ClientRec
  <2>2. client'[t].open => LastWord(toClient', t, client'[t].peerPaused, relay'[t].clientPausedForAgent)
    BY <2>1, <1>0, <1>u, <1>r DEF FlagsFollow, ToClientFollows
  <2>3. ASSUME t \notin Direct, relay'[t].live
        PROVE  LastWord(toRelay', t, relay'[t].agentPaused, socket'[t].backpressured)
    <3>1. LastWord(toRelay, t, relay[t].agentPaused, socket[t].backpressured)
      BY <2>3, <1>0, <1>l DEF FlagsFollow
    <3>2. LastWord(Tail(toRelay), t, IF Head(toRelay).stream = t THEN Head(toRelay).type = "PAUSE"
                                     ELSE relay[t].agentPaused, socket[t].backpressured)
      BY <3>1, <1>c, <1>q, LastWordTail
    <3>3. CASE t = s
      <4>1. relay'[t].agentPaused = word
        BY <3>3, <2>3, <1>l, <1>r
      <4> QED
        BY <4>1, <3>2, <3>3, <1>c, <1>u DEF s, word
    <3>4. CASE t # s
      BY <3>2, <3>4, <1>c, <1>u, <1>r DEF s
    <3> QED
      BY <3>3, <3>4
  <2>4. relay'[t].clientPausedForAgent = (relay'[t].agentPaused \/ relay'[t].wsBackpressured)
    BY <1>0, <1>r DEF FlagsFollow
  <2>5. t \in Direct => relay'[t] = relay[t]
    BY <1>r, <1>s
  <2> QED
    BY <2>2, <2>3, <2>4, <2>5, <1>0, <1>u DEF FlagsFollow, SocketFull
<1> QED
  BY <1>1, <1>2, <1>3, <1>4, <1>5, <1>6, <1>7 DEF DownInv

-----------------------------------------------------------------------------
(* The agent tells the relay of every change.                              *)

ToRelayFollows ==
    /\ toRelay' \in Seq(ControlFrames)
    /\ \A i \in 1..Len(toRelay') : toRelay'[i].stream \notin Direct
    /\ \A t \in Streams : \A was \in BOOLEAN :
          LastWord(toRelay, t, was, socket[t].backpressured) =>
             LastWord(toRelay', t, was, socket'[t].backpressured)

LEMMA AgentTells ==
  ASSUME TypeOK, FrameKinds, NEW s \in Streams \ Direct, NEW f \in ControlFrames, f.stream = s,
         toRelay' = Append(toRelay, f),
         (f.type = "PAUSE") = socket'[s].backpressured,
         \A t \in Streams : t # s => socket'[t].backpressured = socket[t].backpressured
  PROVE  ToRelayFollows
<1> DEFINE g == <<f>>
<1>1. toRelay \in Seq(ControlFrames) /\ g \in Seq(ControlFrames)
  BY Types
<1>2. Len(g) = 1 /\ g[1] = f /\ toRelay' = toRelay \o g
  BY <1>1, AppendIsConcat
<1>3. /\ toRelay' \in Seq(ControlFrames)
      /\ \A i \in 1..Len(toRelay') : toRelay'[i].stream \notin Direct
  <2>1. Len(toRelay') = Len(toRelay) + 1 /\ toRelay'[Len(toRelay) + 1] = f
        /\ \A i \in 1..Len(toRelay) : toRelay'[i] = toRelay[i]
    BY <1>1
  <2>2. toRelay' \in Seq(ControlFrames) /\ Len(toRelay) \in Nat
    BY <1>1
  <2>3. \A i \in 1..Len(toRelay) : toRelay[i].stream \notin Direct
    BY DEF FrameKinds
  <2>4. \A i \in 1..Len(toRelay') : i \in 1..Len(toRelay) \/ i = Len(toRelay) + 1
    BY <2>1, <2>2
  <2> QED
    BY <2>1, <2>2, <2>3, <2>4
<1> HIDE DEF g
<1>4. ASSUME NEW t \in Streams, NEW was \in BOOLEAN,
             LastWord(toRelay, t, was, socket[t].backpressured)
      PROVE  LastWord(toRelay', t, was, socket'[t].backpressured)
  <2>1. \A i \in 1..Len(g) : g[i].stream = t => (g[i].type = "PAUSE") = socket'[t].backpressured
    BY <1>2
  <2>2. NoneOf(g, t) => socket'[t].backpressured = socket[t].backpressured
    BY <1>2 DEF NoneOf
  <2> QED
    BY <2>1, <2>2, <1>1, <1>2, <1>4, LastWordConcat
<1> QED
  BY <1>3, <1>4 DEF ToRelayFollows

LEMMA AgentTellsNothing ==
  ASSUME TypeOK, FrameKinds, toRelay' = toRelay,
         \A t \in Streams : socket'[t].backpressured = socket[t].backpressured
  PROVE  ToRelayFollows
BY Types DEF ToRelayFollows, FrameKinds

\* What keeps the flags of a stream.
LEMMA FlagsKept ==
  ASSUME TypeOK, NEW t \in Streams, FlagsFollow(t), client' = client,
         ToClientFollows, ToRelayFollows,
         relay'[t].live => relay[t].live,
         relay'[t].agentPaused = relay[t].agentPaused,
         relay'[t].clientPausedForAgent = (relay'[t].agentPaused \/ relay'[t].wsBackpressured),
         t \in Direct => ~relay'[t].pendingDrain,
         t \in Direct /\ relay'[t].live /\ SocketFull(t)' => relay'[t].wsBackpressured,
         t \in agentOpen' /\ SocketFull(t)' => socket'[t].backpressured
  PROVE  FlagsFollow(t)'
<1>1. client[t].peerPaused \in BOOLEAN /\ relay[t].agentPaused \in BOOLEAN
  BY Types DEF ClientRec, RelayRec
<1>2. client'[t].open => LastWord(toClient', t, client'[t].peerPaused, relay'[t].clientPausedForAgent)
  BY <1>1 DEF FlagsFollow, ToClientFollows
<1>3. t \notin Direct /\ relay'[t].live =>
         LastWord(toRelay', t, relay'[t].agentPaused, socket'[t].backpressured)
  BY <1>1 DEF FlagsFollow, ToRelayFollows
<1>4. t \in Direct => ~relay'[t].agentPaused /\ ~relay'[t].pendingDrain
  BY DEF FlagsFollow
<1> QED
  BY <1>2, <1>3, <1>4 DEF FlagsFollow

-----------------------------------------------------------------------------
(* Frames of the relay at the agent.                                       *)

LEMMA TakesRelayFrame ==
  ASSUME DownInv, relayWire # <<>>, relayWire' = Tail(relayWire), relayOut' = relayOut
  PROVE  /\ Down # <<>> /\ Head(Down) = Head(relayWire) /\ Down' = Tail(Down)
         /\ Down \in Seq(Frames) /\ Head(relayWire) \in Frames /\ relayWire' \in Seq(Frames)
         /\ Head(relayWire).stream \in agentOpen
         /\ \A i \in 1..Len(Tail(Down)) : Tail(Down)[i].stream \notin Direct
<1>0. TypeOK /\ FrameKinds /\ \A t \in Streams : StreamEnds(t)
  BY DEF DownInv
<1>1. /\ PathOf(relayWire, relayOut) # <<>>
      /\ Head(PathOf(relayWire, relayOut)) = Head(relayWire)
      /\ PathOf(Tail(relayWire), relayOut) = Tail(PathOf(relayWire, relayOut))
      /\ Head(relayWire) \in Frames /\ Tail(relayWire) \in Seq(Frames)
  BY <1>0, Types, PathTail
<1>2. Down # <<>> /\ Head(Down) = Head(relayWire) /\ Down' = Tail(Down) /\ Down \in Seq(Frames)
  BY <1>0, <1>1, PathTypes DEF Down, PathOf
<1> DEFINE s == Head(relayWire).stream
           there == s \in agentOpen
<1>3. Head(Down) = Down[1] /\ 1 \in 1..Len(Down)
      /\ \A i \in 1..Len(Tail(Down)) : i + 1 \in 1..Len(Down) /\ Tail(Down)[i] = Down[i + 1]
  BY <1>2
<1>4. \A i \in 1..Len(Down) : Down[i].stream \notin Direct
  BY <1>0 DEF FrameKinds
<1>5. s \in Streams /\ s \notin Direct
  BY <1>1, <1>2, <1>3, <1>4, FramesMade
<1>6. EndsOnce(Down, s, relay[s].live, there) /\ relay[s].live \in BOOLEAN /\ there \in BOOLEAN
  BY <1>0, <1>5, Types DEF StreamEnds, RelayRec
<1>7. there
  <2> HIDE DEF there
  <2>1. TailEnds(Down, s, relay[s].live, there)
    BY <1>2, <1>6, EndsTail
  <2> QED
    BY <2>1, <1>2 DEF TailEnds
<1> QED
  BY <1>1, <1>2, <1>3, <1>4, <1>7

\* A socket with another queue and another flag beside it.
Refilled(x, q, b) == [x EXCEPT !.queue = q, !.backpressured = b]

LEMMA RefilledFields ==
  ASSUME NEW x \in SocketRec, NEW q \in Seq(1..Chunks), NEW b \in BOOLEAN
  PROVE  /\ Refilled(x, q, b) \in SocketRec
         /\ Refilled(x, q, b).queue = q /\ Refilled(x, q, b).backpressured = b
BY DEF SocketRec, Refilled

\* TCP_DATA at the agent
LEMMA AgentDataStep ==
  ASSUME DownInv, relayWire # <<>>, relayWire' = Tail(relayWire),
         UNCHANGED <<clientVars, clientWire, relayVars, app>>,
         NEW s \in Streams, s = Head(relayWire).stream, IsData(Head(relayWire)),
         AgentData(s, Head(relayWire).chunk)
  PROVE  DownInv'
<1> DEFINE f == Head(relayWire)
           n == Head(relayWire).chunk
           queue == Append(socket[s].queue, n)
           full == Len(queue) >= SocketHigh
           b == socket[s].backpressured \/ full
           x == Refilled(socket[s], queue, b)
           p == Control("PAUSE", s)
<1>0. TypeOK /\ FrameKinds /\ (\A t \in Streams : StreamEnds(t)) /\ (\A t \in Streams : Ordered(t))
      /\ (\A t \in Streams : Counted(t)) /\ Throttled /\ \A t \in Streams : FlagsFollow(t)
  BY DEF DownInv
<1>u. UNCHANGED <<sent, client, clientOut, clientWire, relay, relayOut, toClient, app, agentOpen>>
  BY DEF clientVars, relayVars, AgentData
<1>t. /\ Down # <<>> /\ Head(Down) = f /\ Down' = Tail(Down) /\ Up' = Up
      /\ Down \in Seq(Frames) /\ f \in Frames /\ relayWire' \in Seq(Frames) /\ s \in agentOpen
      /\ \A i \in 1..Len(Tail(Down)) : Tail(Down)[i].stream \notin Direct
  BY <1>u, TakesRelayFrame DEF Up
<1>d. s \notin Direct
  BY <1>0, <1>t, Types
<1>n. n \in 1..Chunks
  BY <1>t, FramesMade
<1>q. socket \in [Streams -> SocketRec] /\ socket[s] \in SocketRec /\ queue \in Seq(1..Chunks)
      /\ Len(queue) = Len(socket[s].queue) + 1
  BY <1>0, <1>n, Types DEF SocketRec
<1>b. socket[s].backpressured \in BOOLEAN /\ full \in BOOLEAN /\ b \in BOOLEAN
  BY <1>q DEF SocketRec
<1>c. /\ socket' = [socket EXCEPT ![s].queue = queue, ![s].backpressured = @ \/ full]
      /\ toRelay' = IF full /\ ~socket[s].backpressured THEN Append(toRelay, p) ELSE toRelay
  BY DEF AgentData
<1>p. p \in ControlFrames /\ p.stream = s /\ p.type = "PAUSE"
  BY FramesMade, FrameFields
<1> HIDE DEF f, n, queue, full, p
<1>x. socket' = [socket EXCEPT ![s] = x]
  BY <1>c, <1>q DEF Refilled
<1>y. x \in SocketRec /\ x.queue = queue /\ x.backpressured = b
  <2> HIDE DEF b
  <2> QED BY <1>q, <1>b, RefilledFields
<1> HIDE DEF x
<1>s. /\ socket' \in [Streams -> SocketRec] /\ socket'[s].queue = queue
      /\ socket'[s].backpressured = b /\ \A t \in Streams : t # s => socket'[t] = socket[t]
  BY <1>x, <1>y, <1>q
<1>w. ToRelayFollows
  <2>1. CASE full /\ ~socket[s].backpressured
    <3>1. toRelay' = Append(toRelay, p) /\ b = TRUE
      BY <2>1, <1>c
    <3> HIDE DEF b
    <3>2. (p.type = "PAUSE") = socket'[s].backpressured
      BY <3>1, <1>s, <1>p
    <3> QED
      BY <3>1, <3>2, <1>0, <1>d, <1>p, <1>s, AgentTells
  <2>2. CASE ~(full /\ ~socket[s].backpressured)
    <3>1. toRelay' = toRelay /\ b = socket[s].backpressured
      BY <2>2, <1>c, <1>b
    <3> HIDE DEF b
    <3>2. \A t \in Streams : socket'[t].backpressured = socket[t].backpressured
      BY <3>1, <1>s
    <3> QED
      BY <3>1, <3>2, <1>0, AgentTellsNothing
  <2> QED
    BY <2>1, <2>2
<1>1. TypeOK'
  BY <1>0, <1>u, <1>t, <1>s, <1>w, Types, TypesNext DEF ToRelayFollows
<1>2. FrameKinds'
  BY <1>0, <1>u, <1>t, <1>w DEF FrameKinds, ToRelayFollows
<1>3. ASSUME NEW t \in Streams PROVE StreamEnds(t)'
  <2>1. t \notin Direct => EndsOnce(Tail(Down), t, relay[t].live, t \in agentOpen)
    <3> DEFINE there == t \in agentOpen
    <3>1. t \notin Direct => EndsOnce(Down, t, relay[t].live, there)
      BY <1>0 DEF StreamEnds
    <3>2. there \in BOOLEAN /\ relay[t].live \in BOOLEAN
      BY <1>0, Types DEF RelayRec
    <3> HIDE DEF there
    <3>3. t \notin Direct => TailEnds(Down, t, relay[t].live, there)
      BY <3>1, <3>2, <1>t, EndsTail
    <3> QED
      BY <3>3 DEF TailEnds, there
  <2> QED
    BY <2>1, <1>0, <1>u, <1>t DEF StreamEnds
<1>4. ASSUME NEW t \in Streams PROVE Ordered(t)'
  <2>0. Arrived(t) \in Nat /\ sent[t] \in Nat /\ Ordered(t)
        /\ Len(app[t]) \in Nat /\ Len(socket[t].queue) \in Nat
    BY <1>0, ArrivedIsNat
  <2>1. CASE t = s
    <3>1. PICK m \in Nat : Carries(Down, s, Arrived(s), m) /\ Carries(Up, s, m, sent[s])
      BY <2>0, <2>1, <1>d DEF Ordered
    <3>2. n = Arrived(s) + 1 /\ Carries(Tail(Down), s, Arrived(s) + 1, m)
      BY <2>0, <2>1, <3>1, <1>t, FramesMade, CarriesTail DEF f, n
    <3>3. Arrived(s)' = Arrived(s) + 1
      <4>1. \A i, j \in Nat : i + (j + 1) = (i + j) + 1
        OBVIOUS
      <4>2. Len(app[s])' = Len(app[s]) /\ Len(socket[s].queue)' = Len(socket[s].queue) + 1
        BY <1>s, <1>q, <1>u
      <4>3. Arrived(s)' = Len(app[s]) + (Len(socket[s].queue) + 1)
        BY <4>2 DEF Arrived
      <4> QED
        BY <4>1, <4>3, <2>0, <2>1 DEF Arrived
    <3>4. NumberedFrom(queue, Len(app[s]))
      <4>1. n = (Len(app[s]) + Len(socket[s].queue)) + 1
        BY <3>2 DEF Arrived
      <4>2. NumberedFrom(socket[s].queue, Len(app[s])) /\ socket[s].queue \in Seq(1..Chunks)
        BY <2>0, <2>1, <1>q DEF Ordered, NumberedFrom, SocketRec
      <4> QED
        BY <4>1, <4>2, <2>0, <2>1, <1>n, NumberedAppend DEF queue
    <3> QED
      BY <2>0, <2>1, <3>1, <3>2, <3>3, <3>4, <1>t, <1>d, <1>s, <1>u DEF Ordered, NumberedFrom
  <2>2. CASE t # s
    <3>1. \A m \in Nat : Carries(Down, t, Arrived(t), m) => Carries(Tail(Down), t, Arrived(t), m)
      BY <2>2, <1>t, CarriesTailOther DEF f
    <3>2. Arrived(t)' = Arrived(t) /\ socket'[t] = socket[t]
      BY <2>2, <1>s, <1>u DEF Arrived
    <3> QED
      BY <3>1, <3>2, <2>0, <1>u, <1>t DEF Ordered
  <2> QED
    BY <2>1, <2>2
<1>5. ASSUME NEW t \in Streams PROVE Counted(t)'
  BY <1>0, <1>u DEF Counted
<1>6. Throttled'
  BY <1>0, <1>u DEF Throttled
<1>7. ASSUME NEW t \in Streams PROVE FlagsFollow(t)'
  <2>1. ToClientFollows
    BY <1>0, <1>u, NothingFollows
  <2>2. t \in agentOpen' /\ SocketFull(t)' => socket'[t].backpressured
    <3>1. CASE t = s
      BY <3>1, <1>s DEF SocketFull, full
    <3>2. CASE t # s
      BY <3>2, <1>0, <1>u, <1>s DEF FlagsFollow, SocketFull
    <3> QED
      BY <3>1, <3>2
  <2>3. t \in Direct /\ relay'[t].live /\ SocketFull(t)' => relay'[t].wsBackpressured
    BY <1>0, <1>u, <1>s, <1>d DEF FlagsFollow, SocketFull
  <2>4. /\ relay'[t].clientPausedForAgent = (relay'[t].agentPaused \/ relay'[t].wsBackpressured)
        /\ t \in Direct => ~relay'[t].pendingDrain
    BY <1>0, <1>u DEF FlagsFollow
  <2> QED
    BY <2>1, <2>2, <2>3, <2>4, <1>0, <1>u, <1>w, FlagsKept
<1> QED
  BY <1>1, <1>2, <1>3, <1>4, <1>5, <1>6, <1>7 DEF DownInv

\* TCP_CLOSE at the agent
LEMMA AgentCloseStep ==
  ASSUME DownInv, relayWire # <<>>, relayWire' = Tail(relayWire),
         UNCHANGED <<clientVars, clientWire, relayVars, app>>,
         NEW s \in Streams, s = Head(relayWire).stream, ~IsData(Head(relayWire)),
         AgentClose(s)
  PROVE  DownInv'
<1> DEFINE f == Head(relayWire)
<1>0. TypeOK /\ FrameKinds /\ (\A t \in Streams : StreamEnds(t)) /\ (\A t \in Streams : Ordered(t))
      /\ (\A t \in Streams : Counted(t)) /\ Throttled /\ \A t \in Streams : FlagsFollow(t)
  BY DEF DownInv
<1>u. /\ UNCHANGED <<sent, client, clientOut, clientWire, relay, relayOut, toClient, app, socket, toRelay>>
      /\ agentOpen' = agentOpen \ {s}
  BY DEF clientVars, relayVars, AgentClose
<1>t. /\ Down # <<>> /\ Head(Down) = f /\ Down' = Tail(Down) /\ Up' = Up
      /\ Down \in Seq(Frames) /\ f \in Frames /\ relayWire' \in Seq(Frames)
      /\ \A i \in 1..Len(Tail(Down)) : Tail(Down)[i].stream \notin Direct
  BY <1>u, TakesRelayFrame DEF Up
<1>f. f.stream = s /\ ~IsData(f)
  OBVIOUS
<1> HIDE DEF f
<1>1. TypeOK'
  BY <1>0, <1>u, <1>t, Types, TypesNext
<1>2. FrameKinds'
  BY <1>0, <1>u, <1>t DEF FrameKinds
<1>3. ASSUME NEW t \in Streams PROVE StreamEnds(t)'
  <2>1. t \notin Direct => EndsOnce(Tail(Down), t, relay[t].live, t \in agentOpen')
    <3> DEFINE there == t \in agentOpen
    <3>1. t \notin Direct => EndsOnce(Down, t, relay[t].live, there)
      BY <1>0 DEF StreamEnds
    <3>2. there \in BOOLEAN /\ relay[t].live \in BOOLEAN
      BY <1>0, Types DEF RelayRec
    <3> HIDE DEF there
    <3>3. t \notin Direct => TailEnds(Down, t, relay[t].live, there)
      BY <3>1, <3>2, <1>t, EndsTail
    <3>4. CASE t = s
      <4>1. (t \in agentOpen') = FALSE
        BY <3>4, <1>u
      <4>2. t \notin Direct => EndsOnce(Tail(Down), t, relay[t].live, FALSE)
        BY <3>3, <3>4, <1>t, <1>f DEF TailEnds
      <4> QED
        BY <4>1, <4>2
    <3>5. CASE t # s
      <4>1. (t \in agentOpen') = there
        BY <3>5, <1>u DEF there
      <4> QED
        BY <4>1, <3>3 DEF TailEnds
    <3> QED
      BY <3>4, <3>5
  <2> QED
    BY <2>1, <1>0, <1>u, <1>t DEF StreamEnds
<1>4. ASSUME NEW t \in Streams PROVE Ordered(t)'
  <2>1. Arrived(t)' = Arrived(t) /\ Ordered(t)
    BY <1>0, <1>u DEF Arrived
  <2>2. \A m \in Nat : Carries(Down, t, Arrived(t), m) => Carries(Tail(Down), t, Arrived(t), m)
    BY <1>t, <1>f, CarriesTailOther
  <2> QED
    BY <2>1, <2>2, <1>u, <1>t DEF Ordered
<1>5. ASSUME NEW t \in Streams PROVE Counted(t)'
  BY <1>0, <1>u DEF Counted
<1>6. Throttled'
  BY <1>0, <1>u DEF Throttled
<1>7. ASSUME NEW t \in Streams PROVE FlagsFollow(t)'
  BY <1>0, <1>u DEF FlagsFollow, SocketFull
<1> QED
  BY <1>1, <1>2, <1>3, <1>4, <1>5, <1>6, <1>7 DEF DownInv

\* a frame of the relay at the agent
LEMMA AgentReceivesStep ==
  ASSUME DownInv, AgentReceives
  PROVE  DownInv'
<1> DEFINE f == Head(relayWire)
           s == Head(relayWire).stream
<1>1. /\ relayWire # <<>> /\ relayWire' = Tail(relayWire)
      /\ UNCHANGED <<clientVars, clientWire, relayVars, app>>
      /\ IF s \notin agentOpen THEN UNCHANGED <<agentOpen, socket, toRelay>>
         ELSE IF f.type = "TCP_DATA" THEN AgentData(s, f.chunk) ELSE AgentClose(s)
  BY DEF AgentReceives
<1>2. relayOut' = relayOut
  BY <1>1 DEF relayVars
<1>3. s \in agentOpen
  BY <1>1, <1>2, TakesRelayFrame
<1>4. s \in Streams
  BY <1>3, Types DEF DownInv
<1>5. CASE f.type = "TCP_DATA"
  BY <1>1, <1>3, <1>4, <1>5, AgentDataStep DEF IsData
<1>6. CASE f.type # "TCP_DATA"
  BY <1>1, <1>3, <1>4, <1>6, AgentCloseStep DEF IsData
<1> QED
  BY <1>5, <1>6

-----------------------------------------------------------------------------
(* The kernel takes a chunk.                                               *)

\* What the step does to the socket and the application,
LEMMA TakesChunk ==
  ASSUME TypeOK, NEW s \in Streams, AppTakes(s)
  PROVE  /\ socket[s].queue # <<>> /\ Len(socket[s].queue) \in Nat \ {0}
         /\ \E b \in BOOLEAN :
               socket' = [socket EXCEPT ![s] = Refilled(socket[s], Tail(socket[s].queue), b)]
         /\ app' = [app EXCEPT ![s] = Append(@, Head(socket[s].queue))]
         /\ Head(socket[s].queue) \in 1..Chunks /\ Tail(socket[s].queue) \in Seq(1..Chunks)
<1> DEFINE q == socket[s].queue
<1>1. socket \in [Streams -> SocketRec] /\ socket[s] \in SocketRec
  BY Types
<1>2. q \in Seq(1..Chunks) /\ socket[s].backpressured \in BOOLEAN
  BY <1>1 DEF SocketRec
<1>3. q # <<>> /\ app' = [app EXCEPT ![s] = Append(@, Head(q))]
  BY DEF AppTakes
<1>4. Len(q) \in Nat \ {0} /\ Head(q) \in 1..Chunks /\ Tail(q) \in Seq(1..Chunks)
      /\ (~(Len(q) > 1) => Tail(q) = <<>>)
  <2> HIDE DEF q
  <2> QED
    BY <1>2, <1>3, TakenFrom
<1>5. \/ Len(q) > 1 /\ socket' = [socket EXCEPT ![s].queue = Tail(q)]
      \/ ~(Len(q) > 1) /\ socket' = [socket EXCEPT ![s].queue = <<>>]
      \/ ~(Len(q) > 1) /\ socket' = [socket EXCEPT ![s].queue = <<>>, ![s].backpressured = FALSE]
  BY DEF AppTakes, RelayDrain, AgentDrain
<1> HIDE DEF q
<1>6. CASE socket' = [socket EXCEPT ![s].queue = Tail(q)]
  <2>1. [socket[s] EXCEPT !.queue = Tail(q)] = Refilled(socket[s], Tail(q), socket[s].backpressured)
    BY <1>1 DEF Refilled, SocketRec
  <2>2. socket' = [socket EXCEPT ![s] = Refilled(socket[s], Tail(q), socket[s].backpressured)]
    BY <1>6, <2>1
  <2> QED
    BY <2>2, <1>2, <1>3, <1>4 DEF q
<1>7. CASE socket' = [socket EXCEPT ![s].queue = Tail(q), ![s].backpressured = FALSE]
  <2>1. socket' = [socket EXCEPT ![s] = Refilled(socket[s], Tail(q), FALSE)]
    BY <1>1, <1>7 DEF Refilled
  <2> QED
    BY <2>1, <1>3, <1>4 DEF q
<1> QED
  BY <1>4, <1>5, <1>6, <1>7

\* and to the flags beside it.
DrainFlags(s) ==
    /\ relay' \in [Streams -> RelayRec] /\ ToClientFollows /\ ToRelayFollows
    /\ \A t \in Streams : t # s => relay'[t] = relay[t]
    /\ relay'[s].live = relay[s].live /\ relay'[s].agentPaused = relay[s].agentPaused
    /\ relay'[s].pendingDrain = relay[s].pendingDrain
    /\ relay'[s].clientPausedForAgent = (relay'[s].agentPaused \/ relay'[s].wsBackpressured)
    /\ Len(socket[s].queue) > 1 => /\ relay'[s].wsBackpressured = relay[s].wsBackpressured
                                   /\ socket'[s].backpressured = socket[s].backpressured

\* Nothing to tell: neither side's flag changes.
LEMMA DrainsNothing ==
  ASSUME TypeOK, FrameKinds, NEW s \in Streams, FlagsFollow(s),
         UNCHANGED <<relay, toClient, toRelay>>,
         \A t \in Streams : socket'[t].backpressured = socket[t].backpressured
  PROVE  DrainFlags(s)
<1>1. SyncedTo(s, relay[s])
  BY NoSync
<1>2. ToRelayFollows
  BY AgentTellsNothing
<1> QED
  BY <1>1, <1>2 DEF SyncedTo, DrainFlags

LEMMA TakesChunkFlags ==
  ASSUME TypeOK, FrameKinds, NEW s \in Streams, FlagsFollow(s), AppTakes(s)
  PROVE  DrainFlags(s)
<1> DEFINE q == socket[s].queue
<1>1. socket \in [Streams -> SocketRec] /\ relay[s] \in RelayRec /\ agentOpen \subseteq Streams \ Direct
  BY Types
<1>2. CASE Len(q) > 1
  <2>1. socket' = [socket EXCEPT ![s].queue = Tail(@)] /\ UNCHANGED <<relay, toClient, toRelay>>
    BY <1>2 DEF AppTakes
  <2>2. \A t \in Streams : socket'[t].backpressured = socket[t].backpressured
    BY <2>1, <1>1 DEF SocketRec
  <2> QED
    BY <2>1, <2>2, DrainsNothing
<1>3. CASE ~(Len(q) > 1) /\ s \in Direct
  <2> DEFINE r == [relay[s] EXCEPT !.wsBackpressured = FALSE]
  <2>1. /\ socket' = [socket EXCEPT ![s].queue = <<>>] /\ toRelay' = toRelay
        /\ \/ Updates(s, SyncTcpBackpressure(r))
           \/ UNCHANGED <<relay, toClient>>
    BY <1>3 DEF AppTakes, RelayDrain
  <2>2. \A t \in Streams : socket'[t].backpressured = socket[t].backpressured
    BY <2>1, <1>1 DEF SocketRec
  <2>3. CASE Updates(s, SyncTcpBackpressure(r))
    <3>1. /\ r \in RelayRec /\ r.live = relay[s].live /\ r.agentPaused = relay[s].agentPaused
          /\ r.pendingDrain = relay[s].pendingDrain
      BY <1>1 DEF RelayRec
    <3> HIDE DEF r
    <3>2. SyncedTo(s, r)
      BY <2>3, <3>1, SyncStep
    <3>3. ToRelayFollows
      BY <2>1, <2>2, AgentTellsNothing
    <3> QED
      BY <3>1, <3>2, <3>3, <1>3 DEF SyncedTo, DrainFlags
  <2>4. CASE UNCHANGED <<relay, toClient>>
    BY <2>1, <2>2, <2>4, DrainsNothing
  <2> QED
    BY <2>1, <2>3, <2>4
<1>4. CASE ~(Len(q) > 1) /\ s \notin Direct
  <2>1. /\ UNCHANGED <<relay, toClient>>
        /\ \/ /\ socket' = [socket EXCEPT ![s].queue = <<>>, ![s].backpressured = FALSE]
              /\ toRelay' = Append(toRelay, Control("RESUME", s))
           \/ socket' = [socket EXCEPT ![s].queue = <<>>] /\ toRelay' = toRelay
    BY <1>4 DEF AppTakes, AgentDrain
  <2>2. CASE socket' = [socket EXCEPT ![s].queue = <<>>] /\ toRelay' = toRelay
    <3>1. \A t \in Streams : socket'[t].backpressured = socket[t].backpressured
      BY <2>2, <1>1 DEF SocketRec
    <3> QED
      BY <2>1, <2>2, <3>1, DrainsNothing
  <2>3. CASE /\ socket' = [socket EXCEPT ![s].queue = <<>>, ![s].backpressured = FALSE]
             /\ toRelay' = Append(toRelay, Control("RESUME", s))
    <3>1. socket'[s].backpressured = FALSE /\ \A t \in Streams : t # s => socket'[t] = socket[t]
      BY <2>3, <1>1 DEF SocketRec
    <3>2. Control("RESUME", s) \in ControlFrames
      BY FramesMade
    <3>3. Control("RESUME", s).stream = s /\ Control("RESUME", s).type = "RESUME"
      BY FrameFields
    <3> DEFINE f == Control("RESUME", s)
    <3>4. toRelay' = Append(toRelay, f) /\ f \in ControlFrames /\ f.stream = s
          /\ (f.type = "PAUSE") = socket'[s].backpressured
      BY <2>3, <3>1, <3>2, <3>3
    <3> HIDE DEF f
    <3>5. ToRelayFollows
      BY <3>1, <3>4, <1>4, AgentTells
    <3>6. SyncedTo(s, relay[s])
      BY <2>1, NoSync
    <3> QED
      BY <3>5, <3>6, <1>4 DEF SyncedTo, DrainFlags
  <2> QED
    BY <2>1, <2>2, <2>3
<1> QED
  BY <1>2, <1>3, <1>4

LEMMA AppTakesStep ==
  ASSUME DownInv, NEW s \in Streams, AppTakes(s)
  PROVE  DownInv'
<1> DEFINE q == socket[s].queue
           h == Head(socket[s].queue)
           rest == Tail(socket[s].queue)
<1>0. TypeOK /\ FrameKinds /\ (\A t \in Streams : StreamEnds(t)) /\ (\A t \in Streams : Ordered(t))
      /\ (\A t \in Streams : Counted(t)) /\ Throttled /\ \A t \in Streams : FlagsFollow(t)
  BY DEF DownInv
<1>u. UNCHANGED <<sent, client, clientOut, clientWire, relayOut, relayWire, agentOpen>>
  BY DEF clientVars, AppTakes
<1>c. /\ q # <<>> /\ Len(q) \in Nat \ {0}
      /\ \E b \in BOOLEAN : socket' = [socket EXCEPT ![s] = Refilled(socket[s], rest, b)]
      /\ app' = [app EXCEPT ![s] = Append(@, h)]
      /\ h \in 1..Chunks /\ rest \in Seq(1..Chunks)
  BY <1>0, TakesChunk
<1>f. DrainFlags(s)
  BY <1>0, TakesChunkFlags
<1>y. /\ socket \in [Streams -> SocketRec] /\ socket[s] \in SocketRec /\ q \in Seq(1..Chunks)
      /\ app \in [Streams -> Seq(1..Chunks)]
  BY <1>0, Types DEF SocketRec
<1>l. Len(rest) = Len(q) - 1 /\ Len(q) \in Nat \ {0}
  BY <1>y, <1>c
<1> HIDE DEF q, h, rest
<1>s. /\ socket' \in [Streams -> SocketRec] /\ socket'[s].queue = rest
      /\ \A t \in Streams : t # s => socket'[t] = socket[t]
  <2>1. PICK b \in BOOLEAN : socket' = [socket EXCEPT ![s] = Refilled(socket[s], rest, b)]
    BY <1>c
  <2> DEFINE x == Refilled(socket[s], rest, b)
  <2>2. x \in SocketRec /\ x.queue = rest
    BY <1>c, <1>y, RefilledFields
  <2>3. socket' = [socket EXCEPT ![s] = x]
    BY <2>1
  <2> HIDE DEF x
  <2> QED
    BY <2>2, <2>3, <1>y
<1>a. /\ app' \in [Streams -> Seq(1..Chunks)] /\ app'[s] = Append(app[s], h)
      /\ \A t \in Streams : t # s => app'[t] = app[t]
  <2>1. Append(app[s], h) \in Seq(1..Chunks)
    BY <1>c, <1>y
  <2> QED
    BY <2>1, <1>c, <1>y
<1>p. Up' = Up /\ Down' = Down
  BY <1>u DEF Up, Down
<1>r. /\ relay' \in [Streams -> RelayRec] /\ ToClientFollows /\ ToRelayFollows
      /\ \A t \in Streams : relay'[t].live = relay[t].live
      /\ \A t \in Streams : relay'[t].agentPaused = relay[t].agentPaused
      /\ \A t \in Streams : relay'[t].pendingDrain = relay[t].pendingDrain
  BY <1>f DEF DrainFlags
<1>1. TypeOK'
  BY <1>0, <1>u, <1>a, <1>r, <1>s, Types, TypesNext DEF ToClientFollows, ToRelayFollows
<1>2. FrameKinds'
  BY <1>0, <1>u, <1>p, <1>r DEF FrameKinds, ToRelayFollows
<1>3. ASSUME NEW t \in Streams PROVE StreamEnds(t)'
  BY <1>0, <1>u, <1>p, <1>r DEF StreamEnds
<1>4. ASSUME NEW t \in Streams PROVE Ordered(t)'
  <2>0. Arrived(t) \in Nat /\ Ordered(t) /\ Len(app[t]) \in Nat
    BY <1>0, ArrivedIsNat
  <2>1. CASE t = s
    <3>1. NumberedFrom(q, Len(app[s])) /\ \A i \in 1..Len(app[s]) : app[s][i] = i
      BY <2>0, <2>1 DEF Ordered, NumberedFrom, q
    <3>2. h = Len(app[s]) + 1 /\ NumberedFrom(rest, Len(app[s]) + 1)
      BY <3>1, <2>0, <2>1, <1>y, <1>c, NumberedTail DEF h, rest, q
    <3>3. Len(app'[s]) = Len(app[s]) + 1 /\ \A i \in 1..Len(app'[s]) : app'[s][i] = i
      <4>1. app[s] \in Seq(1..Chunks)
        BY <1>y
      <4> DEFINE v == Append(app[s], h)
      <4>2. /\ Len(v) = Len(app[s]) + 1 /\ v[Len(app[s]) + 1] = h
            /\ \A i \in 1..Len(app[s]) : v[i] = app[s][i]
        BY <4>1, <1>c
      <4> HIDE DEF v
      <4>3. \A i \in 1..Len(v) : i \in 1..Len(app[s]) \/ i = Len(app[s]) + 1
        BY <4>2, <2>0, <2>1
      <4>4. \A i \in 1..Len(v) : v[i] = i
        BY <4>2, <4>3, <3>1, <3>2
      <4>5. app'[s] = v
        BY <1>a DEF v
      <4> QED
        BY <4>2, <4>4, <4>5
    <3>4. NumberedFrom(socket'[s].queue, Len(app'[s]))
      BY <3>2, <3>3, <1>s
    <3>5. Arrived(s)' = Arrived(s)
      <4>1. \A i \in Nat : \A j \in Nat \ {0} : (i + 1) + (j - 1) = i + j
        OBVIOUS
      <4>2. Arrived(s)' = (Len(app[s]) + 1) + (Len(q) - 1)
        BY <3>3, <1>s, <1>l DEF Arrived
      <4> QED
        BY <4>1, <4>2, <2>0, <2>1, <1>l DEF Arrived, q
    <3>6. s \in Direct => relay[s].live
      BY <2>0, <2>1, <1>c DEF Ordered, q
    <3>7. relay'[s].live = relay[s].live
      BY <1>r
    <3> QED
      BY <2>0, <2>1, <3>3, <3>4, <3>5, <3>6, <3>7, <1>u, <1>p DEF Ordered, NumberedFrom
  <2>2. CASE t # s
    <3>1. Arrived(t)' = Arrived(t) /\ relay'[t].live = relay[t].live
          /\ app'[t] = app[t] /\ socket'[t] = socket[t]
      BY <2>2, <1>s, <1>a, <1>r DEF Arrived
    <3> QED
      BY <3>1, <2>0, <1>u, <1>p DEF Ordered
  <2> QED
    BY <2>1, <2>2
<1>5. ASSUME NEW t \in Streams PROVE Counted(t)'
  BY <1>0, <1>u DEF Counted
<1>6. Throttled'
  BY <1>0, <1>u DEF Throttled
<1>7. ASSUME NEW t \in Streams PROVE FlagsFollow(t)'
  <2>1. relay'[t].clientPausedForAgent = (relay'[t].agentPaused \/ relay'[t].wsBackpressured)
    BY <1>0, <1>f DEF FlagsFollow, DrainFlags
  <2>2. t \in Direct => ~relay'[t].pendingDrain
    BY <1>0, <1>r DEF FlagsFollow
  <2>3. CASE t = s
    <3>1. SocketFull(s)' => SocketFull(s) /\ Len(q) > 1
      <4>1. SocketFull(s)' => Len(q) - 1 >= SocketHigh
        BY <1>s, <1>l DEF SocketFull
      <4> QED
        BY <4>1, <1>l, DownFlowAssumption DEF SocketFull, q
    <3>2. Len(q) > 1 => /\ relay'[s].wsBackpressured = relay[s].wsBackpressured
                        /\ socket'[s].backpressured = socket[s].backpressured
      BY <1>f DEF DrainFlags, q
    <3>3. t \in Direct /\ relay'[t].live /\ SocketFull(t)' => relay'[t].wsBackpressured
      BY <2>3, <3>1, <3>2, <1>0, <1>r DEF FlagsFollow
    <3>4. t \in agentOpen' /\ SocketFull(t)' => socket'[t].backpressured
      BY <2>3, <3>1, <3>2, <1>0, <1>u DEF FlagsFollow
    <3> QED
      BY <3>3, <3>4, <2>1, <2>2, <1>0, <1>u, <1>r, FlagsKept
  <2>4. CASE t # s
    <3>1. relay'[t] = relay[t] /\ socket'[t] = socket[t] /\ SocketFull(t)' = SocketFull(t)
      BY <2>4, <1>f, <1>s DEF DrainFlags, SocketFull
    <3>3. t \in Direct /\ relay'[t].live /\ SocketFull(t)' => relay'[t].wsBackpressured
      BY <3>1, <1>0 DEF FlagsFollow
    <3>4. t \in agentOpen' /\ SocketFull(t)' => socket'[t].backpressured
      BY <3>1, <1>0, <1>u DEF FlagsFollow
    <3> QED
      BY <3>3, <3>4, <2>1, <2>2, <1>0, <1>u, <1>r, FlagsKept
  <2> QED
    BY <2>3, <2>4
<1> QED
  BY <1>1, <1>2, <1>3, <1>4, <1>5, <1>6, <1>7 DEF DownInv

-----------------------------------------------------------------------------
(* The invariant holds.                                                    *)

LEMMA InitDown ==
  ASSUME Init
  PROVE  DownInv
<1>1. TypeOK
  <2>1. Idle \in Senders
    BY DEF Idle, Senders
  <2>2. sent \in [Streams -> 0..Chunks]
    BY DownFlowAssumption DEF Init
  <2>3. \A g \in {Frames, ControlFrames, 1..Chunks} : <<>> \in Seq(g)
    OBVIOUS
  <2> QED
    BY <2>1, <2>2, <2>3 DEF Init, TypeOK
<1>2. Held(Idle) = <<>> /\ <<>> \o <<>> = <<>>
  BY DEF Held, Idle
<1>3. Up = <<>> /\ Down = <<>>
  BY <1>2 DEF Up, Down, Init
<1>4. \A s : DataOf(<<>>, s) = {} /\ DataIn(<<>>) = {}
  BY DEF DataOf, DataIn
<1>5. Cardinality({}) = 0
  BY FS_EmptySet
<1>6. FrameKinds
  BY <1>3 DEF FrameKinds, Init, Idle, NoIdleWaiting
<1>7. ASSUME NEW s \in Streams PROVE StreamEnds(s)
  <2>1. client[s].open = TRUE /\ relay[s].live = TRUE
    BY DEF Init
  <2>2. s \notin Direct => s \in agentOpen
    BY DEF Init
  <2>3. \A r : r => EndsOnce(<<>>, s, TRUE, r)
    BY DEF EndsOnce, NoneOf
  <2> QED
    BY <2>1, <2>2, <2>3, <1>3 DEF StreamEnds
<1>8. ASSUME NEW s \in Streams PROVE Ordered(s)
  <2>1. app[s] = <<>> /\ socket[s].queue = <<>> /\ sent[s] = 0 /\ relay[s].live = TRUE
    BY DEF Init
  <2>2. Len(<<>>) = 0 /\ 0 + 0 = 0 /\ 0 \in Nat
    OBVIOUS
  <2>3. Arrived(s) = 0
    BY <2>1, <2>2 DEF Arrived
  <2>4. Carries(<<>>, s, 0, 0)
    BY <1>4, <2>2, CarriesNone
  <2> QED
    BY <2>1, <2>2, <2>3, <2>4, <1>3 DEF Ordered
<1>9. ASSUME NEW s \in Streams PROVE Counted(s)
  <2>1. client[s].pending = 0 /\ clientOut = Idle
    BY DEF Init
  <2>2. HeldOf(Idle, s) = 0 + 0
    BY <1>4, <1>5 DEF HeldOf, Idle
  <2> QED
    BY <2>1, <2>2 DEF Counted
<1>10. Throttled
  <2>1. BufferedAmount(clientOut) = 0 + 0
    BY <1>4, <1>5 DEF BufferedAmount, Idle, Init
  <2>2. {s \in Streams : client[s].wsPaused} = {}
    BY DEF Init
  <2>3. WsHigh + Cardinality({}) = WsHigh /\ 0 + 0 <= WsHigh
    BY <1>5, DownFlowAssumption
  <2> QED
    BY <2>1, <2>2, <2>3 DEF Throttled
<1>11. ASSUME NEW s \in Streams PROVE FlagsFollow(s)
  <2>1. /\ toClient = <<>> /\ toRelay = <<>> /\ client[s].peerPaused = FALSE
        /\ relay[s].clientPausedForAgent = FALSE /\ relay[s].agentPaused = FALSE
        /\ relay[s].wsBackpressured = FALSE /\ relay[s].pendingDrain = FALSE
        /\ socket[s].backpressured = FALSE
    BY DEF Init
  <2>2. LastWord(<<>>, s, FALSE, FALSE)
    BY LastWordEmpty
  <2>3. ~SocketFull(s)
    <3>1. Len(socket[s].queue) = 0
      BY DEF Init
    <3> QED
      BY <3>1, DownFlowAssumption DEF SocketFull
  <2> QED
    BY <2>1, <2>2, <2>3 DEF FlagsFollow
<1> QED
  BY <1>1, <1>6, <1>7, <1>8, <1>9, <1>10, <1>11 DEF DownInv

LEMMA StutterDown ==
  ASSUME DownInv, UNCHANGED vars
  PROVE  DownInv'
<1>1. UNCHANGED <<sent, client, clientOut, clientWire, relay, relayOut, toClient, relayWire,
                  agentOpen, toRelay, socket, app>>
  BY DEF vars, clientVars, relayVars, appVars
<1>2. Up' = Up /\ Down' = Down /\ \A s \in Streams : Arrived(s)' = Arrived(s)
  BY <1>1 DEF Up, Down, Arrived
<1>3. TypeOK'
  BY <1>1, Types, TypesNext DEF DownInv
<1>4. FrameKinds'
  BY <1>1, <1>2 DEF DownInv, FrameKinds
<1>5. \A s \in Streams : StreamEnds(s)'
  BY <1>1, <1>2 DEF DownInv, StreamEnds
<1>6. \A s \in Streams : Ordered(s)'
  BY <1>1, <1>2 DEF DownInv, Ordered
<1>7. \A s \in Streams : Counted(s)'
  BY <1>1 DEF DownInv, Counted
<1>8. Throttled'
  BY <1>1 DEF DownInv, Throttled
<1>9. \A s \in Streams : FlagsFollow(s)'
  BY <1>1 DEF DownInv, FlagsFollow, SocketFull
<1> QED
  BY <1>3, <1>4, <1>5, <1>6, <1>7, <1>8, <1>9 DEF DownInv

LEMMA StepDown ==
  ASSUME DownInv, [Next]_vars
  PROVE  DownInv'
<1>1. CASE \E s \in Streams : ServiceData(s)
  BY <1>1, ServiceDataStep
<1>2. CASE \E s \in Streams : ServiceClose(s)
  BY <1>2, ServiceCloseStep
<1>3. CASE ClientWritten
  BY <1>3, ClientWrittenStep
<1>4. CASE ClientControl
  BY <1>4, ClientControlStep
<1>5. CASE RelayTakesClientFrame
  BY <1>5, RelayTakesClientFrameStep
<1>6. CASE RelayTakesControl
  BY <1>6, RelayTakesControlStep
<1>7. CASE RelayWritten
  BY <1>7, RelayWrittenStep
<1>8. CASE AgentReceives
  BY <1>8, AgentReceivesStep
<1>9. CASE \E s \in Streams : AppTakes(s)
  BY <1>9, AppTakesStep
<1>10. CASE UNCHANGED vars
  BY <1>10, StutterDown
<1> QED
  BY <1>1, <1>2, <1>3, <1>4, <1>5, <1>6, <1>7, <1>8, <1>9, <1>10 DEF Next

\* The frames under way, the counts and the flags of every stream stay tied to
\* what was sent, what was received and what each side holds.
THEOREM DownHolds == Spec => []DownInv
<1>1. Init => DownInv
  BY InitDown
<1>2. DownInv /\ [Next]_vars => DownInv'
  BY StepDown
<1> QED
  BY <1>1, <1>2, PTL DEF Spec

\* Every variable keeps its type.
THEOREM DownTypes == Spec => []TypeOK
<1>1. DownInv => TypeOK
  BY DEF DownInv
<1> QED
  BY <1>1, DownHolds, PTL

-----------------------------------------------------------------------------
(* A client is not left paused.                                            *)

\* A full socket has yet to drain, and so has a full WebSocket: where no other
\* stream fills it, a callback of the stream is still to come.
ReasonHolds(s) ==
    relay[s].live =>
        /\ s \in Direct /\ relay[s].wsBackpressured => socket[s].queue # <<>>
        /\ s \notin Direct /\ socket[s].backpressured => socket[s].queue # <<>>
        /\ s \notin Direct /\ relay[s].wsBackpressured => relay[s].pendingDrain
        /\ Streams \ Direct = {s} /\ relay[s].wsBackpressured => HeldOf(relayOut, s) # 0

ReasonsHold == \A s \in Streams : ReasonHolds(s)

\* A step that leaves the flags and the socket of a stream alone, and takes no
\* frame of it from the agent's WebSocket.
LEMMA ReasonKept ==
  ASSUME NEW t \in Streams, ReasonHolds(t), relay'[t].live => relay[t].live,
         relay'[t].wsBackpressured = relay[t].wsBackpressured,
         relay'[t].pendingDrain = relay[t].pendingDrain,
         socket'[t] = socket[t],
         Streams \ Direct = {t} =>
            (HeldOf(relayOut, t) # 0 => HeldOf(relayOut', t) # 0)
  PROVE  ReasonHolds(t)'
BY DEF ReasonHolds, HeldOf

\* What is written is held, and so is what was.
LEMMA StillHeld ==
  ASSUME DownInv, NEW f \in Frames, relayOut' = Write(relayOut, f), NEW t
  PROVE  /\ HeldOf(relayOut, t) # 0 => HeldOf(relayOut', t) # 0
         /\ IsData(f) /\ f.stream = t => HeldOf(relayOut', t) # 0
<1>1. relayOut \in SenderOf(Frames) /\ NoIdleWaiting(relayOut)
  BY Types DEF DownInv, FrameKinds
<1>2. HeldOf(relayOut', t) = HeldOf(relayOut, t) + (IF IsData(f) /\ f.stream = t THEN 1 ELSE 0)
  BY <1>1, HeldOfWrite
<1>3. HeldOf(relayOut, t) \in Nat
  BY <1>1, HeldOfWritten
<1> QED
  BY <1>2, <1>3

LEMMA ClientFrameReasons ==
  ASSUME DownInv, ReasonsHold, RelayTakesClientFrame
  PROVE  ReasonsHold'
<1> DEFINE f == Head(clientWire)
           s == Head(clientWire).stream
<1> SUFFICES ASSUME NEW t \in Streams PROVE ReasonHolds(t)'
  BY DEF ReasonsHold
<1>0. ReasonHolds(t) /\ FlagsFollow(t)
  BY DEF ReasonsHold, DownInv
<1>1. /\ clientWire # <<>> /\ clientWire' = Tail(clientWire)
      /\ UNCHANGED <<clientVars, relayWire, agentOpen, toRelay, app>>
      /\ \/ ~relay[s].live /\ UNCHANGED <<relay, relayOut, toClient, socket>>
         \/ /\ relay[s].live /\ f.type = "TCP_DATA"
            /\ IF s \in Direct THEN WriteToSocket(s, f.chunk) ELSE WriteToAgent(s, f.chunk)
         \/ relay[s].live /\ f.type = "TCP_CLOSE" /\ RelayClose(s)
  BY DEF RelayTakesClientFrame
<1>2. f \in Frames /\ s \in Streams
  <2>1. clientWire \in Seq(Frames)
    BY Types DEF DownInv
  <2>2. f \in Frames
    BY <1>1, <2>1, TakenFrom
  <2> QED
    BY <2>2, FramesMade
<1>3. /\ relay \in [Streams -> RelayRec] /\ socket \in [Streams -> SocketRec]
      /\ TypeOK /\ FlagsFollow(s)
  BY <1>2, Types DEF DownInv
<1> HIDE DEF s
<1>4. CASE ~relay[s].live /\ UNCHANGED <<relay, relayOut, toClient, socket>>
  BY <1>0, <1>4, ReasonKept
<1>5. CASE f.type = "TCP_DATA" /\ s \in Direct /\ WriteToSocket(s, f.chunk)
  <2> DEFINE queue == Append(socket[s].queue, f.chunk)
             r == [relay[s] EXCEPT !.wsBackpressured = TRUE]
  <2>1. socket' = [socket EXCEPT ![s].queue = queue] /\ relayOut' = relayOut
    BY <1>5 DEF WriteToSocket
  <2>2. f.chunk \in 1..Chunks /\ socket[s].queue \in Seq(1..Chunks)
    BY <1>2, <1>3, <1>5, FramesMade DEF IsData, SocketRec
  <2>3. socket'[s].queue # <<>>
    <3>1. socket'[s].queue = queue /\ Len(queue) = Len(socket[s].queue) + 1
          /\ Len(socket[s].queue) \in Nat
      BY <1>2, <1>3, <2>1, <2>2 DEF SocketRec
    <3> HIDE DEF queue
    <3> QED
      BY <3>1, EmptySeq
  <2>4. r \in RelayRec
    BY <1>2, <1>3 DEF RelayRec
  <2>5. relay' = relay \/ Updates(s, SyncTcpBackpressure(r))
    BY <1>5 DEF WriteToSocket
  <2> HIDE DEF r
  <2>6. \A u \in Streams : u # s => relay'[u] = relay[u]
    BY <1>2, <1>3, <2>4, <2>5, SyncStep DEF SyncedTo
  <2>7. CASE t = s
    BY <1>5, <2>3, <2>7 DEF ReasonHolds
  <2>8. CASE t # s
    <3>1. socket'[t] = socket[t]
      BY <1>3, <2>1, <2>8
    <3> QED
      BY <1>0, <2>1, <2>6, <2>8, <3>1, ReasonKept
  <2> QED
    BY <2>7, <2>8
<1>6. CASE f.type = "TCP_DATA" /\ s \notin Direct /\ WriteToAgent(s, f.chunk)
  <2> DEFINE r == [relay[s] EXCEPT !.pendingDrain = TRUE, !.wsBackpressured = TRUE]
             d == Data(s, f.chunk)
  <2>1. socket' = socket /\ relayOut' = Write(relayOut, d)
    BY <1>6 DEF WriteToAgent
  <2>2. r \in RelayRec /\ r.live = relay[s].live /\ r.pendingDrain
    BY <1>2, <1>3 DEF RelayRec
  <2>3. relay' = relay \/ Updates(s, SyncTcpBackpressure(r))
    BY <1>6 DEF WriteToAgent
  <2>4. d \in Frames /\ IsData(d) /\ d.stream = s
    BY <1>2, <1>6, FramesMade, FrameFields DEF IsData
  <2> HIDE DEF r, d
  <2>5. HeldOf(relayOut', s) # 0
    BY <2>1, <2>4, StillHeld
  <2>6. \/ relay' = relay
        \/ /\ relay'[s].live = relay[s].live /\ relay'[s].pendingDrain
           /\ \A u \in Streams : u # s => relay'[u] = relay[u]
    BY <1>2, <1>3, <2>2, <2>3, SyncStep DEF SyncedTo
  <2>7. CASE t = s
    BY <1>0, <1>6, <2>1, <2>5, <2>6, <2>7 DEF ReasonHolds, HeldOf
  <2>8. CASE t # s
    BY <1>0, <1>2, <1>6, <2>1, <2>6, <2>8, ReasonKept
  <2> QED
    BY <2>7, <2>8
<1>7. CASE f.type = "TCP_CLOSE" /\ RelayClose(s)
  <2>1. /\ relay' = [relay EXCEPT ![s].live = FALSE]
        /\ relayOut' = relayOut \/ relayOut' = Write(relayOut, Control("TCP_CLOSE", s))
        /\ socket' = socket \/ socket' = [socket EXCEPT ![s].queue = <<>>]
    BY <1>7 DEF RelayClose
  <2>2. CASE t = s
    <3>1. ~relay'[t].live
      BY <1>2, <1>3, <2>1, <2>2 DEF RelayRec
    <3> QED
      BY <3>1 DEF ReasonHolds
  <2>3. CASE t # s
    <3>1. relay'[t] = relay[t] /\ socket'[t] = socket[t]
      BY <1>3, <2>1, <2>3
    <3>2. HeldOf(relayOut, t) # 0 => HeldOf(relayOut', t) # 0
      <4>1. Control("TCP_CLOSE", s) \in Frames
        BY <1>2, FramesMade
      <4> QED
        BY <2>1, <4>1, StillHeld
    <3> QED
      BY <1>0, <3>1, <3>2, ReasonKept
  <2> QED
    BY <2>2, <2>3
<1> QED
  BY <1>1, <1>4, <1>5, <1>6, <1>7

LEMMA ControlReasons ==
  ASSUME DownInv, ReasonsHold, RelayTakesControl
  PROVE  ReasonsHold'
<1> SUFFICES ASSUME NEW t \in Streams PROVE ReasonHolds(t)'
  BY DEF ReasonsHold
<1>0. ReasonHolds(t) /\ TypeOK
  BY DEF ReasonsHold, DownInv
<1> DEFINE s == Head(toRelay).stream
           r == [relay[s] EXCEPT !.agentPaused = Head(toRelay).type = "PAUSE"]
<1>1. /\ toRelay # <<>> /\ UNCHANGED <<relayOut, socket>>
      /\ relay' = relay \/ Updates(s, SyncTcpBackpressure(r))
  BY DEF RelayTakesControl, appVars
<1>2. s \in Streams
  <2>1. Head(toRelay) \in ControlFrames
    BY <1>0, <1>1, Types, TakenFrom
  <2> QED
    BY <2>1, FramesMade
<1>3. relay \in [Streams -> RelayRec]
  BY <1>0, Types
<1>4. /\ r \in RelayRec /\ r.live = relay[s].live /\ r.pendingDrain = relay[s].pendingDrain
      /\ r.wsBackpressured = relay[s].wsBackpressured
  BY <1>2, <1>3 DEF RelayRec
<1> HIDE DEF s, r
<1>5. /\ relay'[t].live = relay[t].live /\ relay'[t].pendingDrain = relay[t].pendingDrain
      /\ relay'[t].wsBackpressured = relay[t].wsBackpressured
  BY <1>0, <1>1, <1>2, <1>4, SyncStep DEF SyncedTo
<1> QED
  BY <1>0, <1>1, <1>5, ReasonKept

LEMMA TailOfMore ==
  ASSUME NEW S, NEW q \in Seq(S), Len(q) > 1
  PROVE  Tail(q) # <<>>
<1> DEFINE rest == Tail(q)
<1>1. Len(rest) = Len(q) - 1 /\ Len(q) \in Nat
  OBVIOUS
<1> HIDE DEF rest
<1>2. Len(rest) # 0
  <2>1. \A n \in Nat : n > 1 => n - 1 # 0
    OBVIOUS
  <2> QED
    BY <1>1, <2>1
<1>3. rest # <<>>
  BY <1>2, EmptySeq
<1> QED
  BY <1>3 DEF rest

\* Where the stream is alone on the agent's WebSocket, all its data are its own.
LEMMA AloneBuffers ==
  ASSUME DownInv, NEW s \in Streams, Streams \ Direct = {s}
  PROVE  BufferedAmount(Written(relayOut)) = HeldOf(Written(relayOut), s)
<1>1. /\ relayOut.sending \in Seq(Frames) /\ relayOut.waiting \in Seq(Frames)
      /\ relayWire \in Seq(Frames) /\ Down = relayWire \o (relayOut.sending \o relayOut.waiting)
  BY Types DEF DownInv, SenderOf, Down, Held
<1> DEFINE a == relayWire
           b == relayOut.sending
           q == relayOut.waiting
           d == b \o q
<1>2. ASSUME NEW i \in 1..Len(q) PROVE q[i].stream = s
  <2>1. /\ a \in Seq(Frames) /\ b \in Seq(Frames) /\ q \in Seq(Frames)
        /\ i \in 1..Len(q) /\ q[i] \in Frames
    BY <1>1, <1>2
  <2> HIDE DEF a, b, q, d
  <2>2. /\ d \in Seq(Frames) /\ Len(d) = Len(b) + Len(q)
        /\ Len(b) + i \in 1..Len(d) /\ d[Len(b) + i] = q[i]
    BY <2>1 DEF d
  <2>3. /\ Len(a \o d) = Len(a) + Len(d)
        /\ \A k \in 1..Len(d) : (a \o d)[Len(a) + k] = d[k]
    <3>1. a \in Seq(Frames) /\ d \in Seq(Frames)
      BY <2>1, <2>2
    <3> QED
      BY <3>1
  <2>4. \E k \in 1..Len(a \o d) : (a \o d)[k] = q[i]
    <3>1. Len(a) + (Len(b) + i) \in 1..(Len(a) + Len(d))
      BY <2>1, <2>2
    <3>2. (a \o d)[Len(a) + (Len(b) + i)] = q[i]
      BY <2>2, <2>3
    <3> QED
      BY <2>3, <3>1, <3>2
  <2>5. Down = a \o d
    BY <1>1 DEF a, b, q, d
  <2>6. PICK k \in 1..Len(Down) : Down[k] = q[i]
    BY <2>4, <2>5
  <2>7. q[i].stream \notin Direct /\ q[i].stream \in Streams
    BY <2>1, <2>6, FramesMade DEF DownInv, FrameKinds
  <2> QED
    BY <2>7
<1>3. DataIn(q) = DataOf(q, s) /\ DataIn(<<>>) = DataOf(<<>>, s)
  BY <1>2 DEF DataOf, DataIn
<1> QED
  BY <1>3 DEF BufferedAmount, HeldOf, Written

LEMMA WrittenReasons ==
  ASSUME DownInv, ReasonsHold, RelayWritten
  PROVE  ReasonsHold'
<1> DEFINE batch == relayOut.sending
           out   == Written(relayOut)
<1> SUFFICES ASSUME NEW t \in Streams PROVE ReasonHolds(t)'
  BY DEF ReasonsHold
<1>0. ReasonHolds(t) /\ TypeOK
  BY DEF ReasonsHold, DownInv
<1>1. relayOut' = out /\ socket' = socket /\ relay'[t] = AfterCallbacks(t, batch, out)
  BY DEF RelayWritten, appVars
<1>2. relay[t] \in RelayRec /\ relayOut \in SenderOf(Frames)
  BY <1>0, Types
<1>3. CASE Drained(t, batch, out)
  <2> DEFINE r == [relay[t] EXCEPT !.pendingDrain = FALSE, !.wsBackpressured = FALSE]
  <2>1. r \in RelayRec /\ r.live = relay[t].live /\ ~r.wsBackpressured
    BY <1>2 DEF RelayRec
  <2>2. relay'[t] = SyncTcpBackpressure(r)
    BY <1>1, <1>3 DEF AfterCallbacks
  <2> HIDE DEF r
  <2>3. relay'[t].live = relay[t].live /\ ~relay'[t].wsBackpressured
    BY <2>1, <2>2, SyncFields
  <2> QED
    BY <1>0, <1>1, <2>3 DEF ReasonHolds
<1>4. CASE ~Drained(t, batch, out)
  <2>1. relay'[t] = relay[t]
    BY <1>1, <1>4 DEF AfterCallbacks
  <2>2. ASSUME relay[t].live, relay[t].wsBackpressured, Streams \ Direct = {t}
        PROVE  HeldOf(out, t) # 0
    <3>1. HeldOf(relayOut, t) # 0 /\ relay[t].pendingDrain
      BY <1>0, <2>2 DEF ReasonHolds
    <3>2. DataOf(batch, t) = {} \/ ~(BufferedAmount(out) <= WsLow)
      BY <1>4, <2>2, <3>1 DEF Drained
    <3>3. /\ HeldOf(out, t) = HeldOf(relayOut, t) - Cardinality(DataOf(batch, t))
          /\ HeldOf(out, t) \in Nat /\ HeldOf(relayOut, t) \in Nat
      BY <1>2, HeldOfWritten
    <3>4. CASE DataOf(batch, t) = {}
      <4>1. Cardinality({}) = 0
        BY FS_EmptySet
      <4> QED
        BY <3>1, <3>3, <3>4, <4>1
    <3>5. CASE ~(BufferedAmount(out) <= WsLow)
      <4>1. BufferedAmount(out) = HeldOf(out, t)
        BY <2>2, AloneBuffers
      <4> QED
        BY <3>3, <3>5, <4>1, DownFlowAssumption
    <3> QED
      BY <3>2, <3>4, <3>5
  <2> QED
    BY <1>0, <1>1, <2>1, <2>2 DEF ReasonHolds, HeldOf
<1> QED
  BY <1>3, <1>4

LEMMA AgentReasons ==
  ASSUME DownInv, ReasonsHold, AgentReceives
  PROVE  ReasonsHold'
<1> DEFINE f == Head(relayWire)
           s == Head(relayWire).stream
           queue == Append(socket[s].queue, f.chunk)
<1> SUFFICES ASSUME NEW t \in Streams PROVE ReasonHolds(t)'
  BY DEF ReasonsHold
<1>0. ReasonHolds(t) /\ TypeOK
  BY DEF ReasonsHold, DownInv
<1>1. /\ relayWire # <<>> /\ relay' = relay /\ relayOut' = relayOut
      /\ \/ socket' = socket
         \/ /\ s \in agentOpen /\ f.type = "TCP_DATA"
            /\ \E b : socket' = [socket EXCEPT ![s].queue = queue, ![s].backpressured = b]
  BY DEF AgentReceives, AgentData, AgentClose, relayVars
<1>2. CASE socket' = socket
  BY <1>0, <1>1, <1>2, ReasonKept
<1>3. CASE /\ s \in agentOpen /\ f.type = "TCP_DATA"
           /\ \E b : socket' = [socket EXCEPT ![s].queue = queue, ![s].backpressured = b]
  <2>1. PICK b : socket' = [socket EXCEPT ![s].queue = queue, ![s].backpressured = b]
    BY <1>3
  <2>2. s \in Streams \ Direct /\ socket \in [Streams -> SocketRec]
    BY <1>0, <1>3, Types
  <2>3. f.chunk \in 1..Chunks /\ socket[s].queue \in Seq(1..Chunks)
    <3>1. f \in Frames
      BY <1>0, <1>1, Types, TakenFrom
    <3> QED
      BY <1>3, <2>2, <3>1, FramesMade DEF IsData, SocketRec
  <2>4. socket'[s].queue # <<>>
    <3>1. socket'[s].queue = queue /\ Len(queue) = Len(socket[s].queue) + 1
          /\ Len(socket[s].queue) \in Nat
      BY <2>1, <2>2, <2>3 DEF SocketRec
    <3> HIDE DEF queue
    <3> QED
      BY <3>1, EmptySeq
  <2>5. t # s => socket'[t] = socket[t]
    BY <2>1, <2>2
  <2> HIDE DEF s
  <2>6. CASE t = s
    BY <1>0, <1>1, <2>2, <2>4, <2>6 DEF ReasonHolds, HeldOf
  <2>7. CASE t # s
    BY <1>0, <1>1, <2>5, <2>7, ReasonKept
  <2> QED
    BY <2>6, <2>7
<1> QED
  BY <1>1, <1>2, <1>3

LEMMA AppReasons ==
  ASSUME DownInv, ReasonsHold, NEW s \in Streams, AppTakes(s)
  PROVE  ReasonsHold'
<1> SUFFICES ASSUME NEW t \in Streams PROVE ReasonHolds(t)'
  BY DEF ReasonsHold
<1>0. ReasonHolds(t) /\ ReasonHolds(s) /\ TypeOK /\ StreamEnds(s) /\ FlagsFollow(s)
  BY DEF ReasonsHold, DownInv
<1>1. /\ socket \in [Streams -> SocketRec] /\ relay \in [Streams -> RelayRec]
  BY <1>0, Types
<1>2. relayOut' = relayOut /\ socket[s].queue # <<>>
  BY DEF AppTakes
<1>3. CASE Len(socket[s].queue) > 1
  <2>1. socket' = [socket EXCEPT ![s].queue = Tail(@)] /\ relay' = relay
    BY <1>3 DEF AppTakes
  <2>2. socket'[s].queue = Tail(socket[s].queue)
    BY <1>1, <2>1 DEF SocketRec
  <2>3. socket'[s].queue # <<>>
    <3>1. socket[s].queue \in Seq(1..Chunks)
      BY <1>1 DEF SocketRec
    <3> QED
      BY <1>3, <2>2, <3>1, TailOfMore
  <2>4. CASE t = s
    BY <1>0, <1>2, <2>1, <2>3, <2>4 DEF ReasonHolds, HeldOf
  <2>5. CASE t # s
    <3>1. socket'[t] = socket[t]
      BY <1>1, <2>1, <2>5
    <3> QED
      BY <1>0, <1>2, <2>1, <3>1, ReasonKept
  <2> QED
    BY <2>4, <2>5
<1>4. CASE ~(Len(socket[s].queue) > 1) /\ s \in Direct
  <2>1. /\ socket' = [socket EXCEPT ![s].queue = <<>>]
        /\ IF relay[s].live /\ relay[s].wsBackpressured
           THEN Updates(s, SyncTcpBackpressure([relay[s] EXCEPT !.wsBackpressured = FALSE]))
           ELSE relay' = relay
    BY <1>4 DEF AppTakes, RelayDrain
  <2> DEFINE r == [relay[s] EXCEPT !.wsBackpressured = FALSE]
  <2>2. r \in RelayRec /\ ~r.wsBackpressured
    BY <1>1 DEF RelayRec
  <2>3. CASE relay[s].live /\ relay[s].wsBackpressured
    <3>1. Updates(s, SyncTcpBackpressure(r))
      BY <2>1, <2>3
    <3> HIDE DEF r
    <3>2. ~relay'[s].wsBackpressured /\ \A u \in Streams : u # s => relay'[u] = relay[u]
      BY <1>0, <2>2, <3>1, SyncStep DEF SyncedTo
    <3>3. CASE t = s
      BY <1>4, <3>2, <3>3 DEF ReasonHolds
    <3>4. CASE t # s
      <4>1. socket'[t] = socket[t] /\ relay'[t] = relay[t]
        BY <1>1, <2>1, <3>2, <3>4
      <4> QED
        BY <1>0, <1>2, <4>1, ReasonKept
    <3> QED
      BY <3>3, <3>4
  <2>4. CASE ~(relay[s].live /\ relay[s].wsBackpressured)
    <3>1. relay' = relay
      BY <2>1, <2>4
    <3>2. CASE t = s
      BY <1>4, <2>4, <3>1, <3>2 DEF ReasonHolds
    <3>3. CASE t # s
      <4>1. socket'[t] = socket[t]
        BY <1>1, <2>1, <3>3
      <4> QED
        BY <1>0, <1>2, <3>1, <4>1, ReasonKept
    <3> QED
      BY <3>2, <3>3
  <2> QED
    BY <2>3, <2>4
<1>5. CASE ~(Len(socket[s].queue) > 1) /\ s \notin Direct
  <2>1. relay' = relay /\ IF s \in agentOpen /\ socket[s].backpressured
        THEN socket' = [socket EXCEPT ![s].queue = <<>>, ![s].backpressured = FALSE]
        ELSE socket' = [socket EXCEPT ![s].queue = <<>>]
    BY <1>5 DEF AppTakes, AgentDrain
  <2>2. relay[s].live => s \in agentOpen
    BY <1>0, <1>5 DEF StreamEnds, EndsOnce
  <2>3. t # s => socket'[t] = socket[t]
    BY <1>1, <2>1
  <2>4. s \in agentOpen => ~socket'[s].backpressured
    BY <1>1, <2>1 DEF SocketRec
  <2>5. CASE t = s
    BY <1>0, <1>2, <1>5, <2>1, <2>2, <2>4, <2>5 DEF ReasonHolds, HeldOf
  <2>6. CASE t # s
    BY <1>0, <1>2, <2>1, <2>3, <2>6, ReasonKept
  <2> QED
    BY <2>5, <2>6
<1> QED
  BY <1>3, <1>4, <1>5

\* In every state each reason to pause a client comes with what will end it.
THEOREM ReasonsStay == Spec => []ReasonsHold
<1>1. Init => ReasonsHold
  BY DEF Init, ReasonsHold, ReasonHolds
<1>2. DownInv /\ ReasonsHold /\ [Next]_vars => ReasonsHold'
  <2> SUFFICES ASSUME DownInv, ReasonsHold, [Next]_vars PROVE ReasonsHold'
    OBVIOUS
  <2>1. CASE UNCHANGED <<relay, relayOut, socket>>
    BY <2>1 DEF ReasonsHold, ReasonHolds, HeldOf
  <2>2. CASE \/ \E s \in Streams : ServiceData(s) \/ ServiceClose(s)
             \/ ClientWritten \/ ClientControl \/ UNCHANGED vars
    BY <2>1, <2>2 DEF ServiceData, ServiceClose, ClientWritten, ClientControl, vars,
                      relayVars, appVars
  <2>3. CASE RelayTakesClientFrame
    BY <2>3, ClientFrameReasons
  <2>4. CASE RelayTakesControl
    BY <2>4, ControlReasons
  <2>5. CASE RelayWritten
    BY <2>5, WrittenReasons
  <2>6. CASE AgentReceives
    BY <2>6, AgentReasons
  <2>7. CASE \E s \in Streams : AppTakes(s)
    BY <2>7, AppReasons
  <2> QED
    BY <2>2, <2>3, <2>4, <2>5, <2>6, <2>7 DEF Next
<1> QED
  BY <1>1, <1>2, DownHolds, PTL DEF Spec

-----------------------------------------------------------------------------
(* What it means.                                                          *)

LEMMA BoundFromThrottled ==
  ASSUME DownInv
  PROVE  ClientBounded
<1> DEFINE P == {s \in Streams : client[s].wsPaused}
           amount == BufferedAmount(clientOut)
<1>1. Cardinality(P) \in Nat /\ Cardinality(Streams) \in Nat /\ Cardinality(P) <= Cardinality(Streams)
  BY DownFlowAssumption, FS_Subset, FS_CardinalityType
<1>2. amount <= WsHigh + Cardinality(P)
  BY DEF DownInv, Throttled
<1>3. amount \in Nat
  <2>1. clientOut \in SenderOf(Frames)
    BY Types DEF DownInv
  <2>2. clientOut.sending \in Seq(Frames) /\ clientOut.waiting \in Seq(Frames)
    BY <2>1 DEF SenderOf
  <2>3. \A q \in Seq(Frames) : Cardinality(DataIn(q)) \in Nat
    BY DataInPlaces, PlacesFinite
  <2> QED
    BY <2>2, <2>3 DEF BufferedAmount
<1> HIDE DEF P, amount
<1>4. amount <= WsHigh + Cardinality(Streams)
  BY <1>1, <1>2, <1>3, DownFlowAssumption
<1> QED
  BY <1>4 DEF ClientBounded, amount

\* The client's WebSocket never holds more than one chunk per stream above the
\* high-water mark, however the streams' data interleave.
THEOREM ClientStaysBounded == Spec => []ClientBounded
BY DownHolds, BoundFromThrottled, PTL

LEMMA QuietPaths ==
  ASSUME Quiet
  PROVE  Up = <<>> /\ Down = <<>>
BY DEF Quiet, Up, Down, Held, Idle

LEMMA AgreementFromFlags ==
  ASSUME DownInv, ReasonsHold
  PROVE  PausesAgree
<1> SUFFICES ASSUME Quiet, NEW s \in Streams, relay[s].live
             PROVE  /\ relay[s].agentPaused = (s \notin Direct /\ socket[s].backpressured)
                    /\ SocketFull(s) => relay[s].clientPausedForAgent
                    /\ relay[s].clientPausedForAgent =>
                          socket[s].queue # <<>> \/ (SharesAgent(s) /\ relay[s].wsBackpressured)
                    /\ client[s].open => client[s].peerPaused = relay[s].clientPausedForAgent
  BY DEF PausesAgree
<1>1. toClient = <<>> /\ toRelay = <<>> /\ Down = <<>>
  BY QuietPaths DEF Quiet
<1>2. FlagsFollow(s) /\ StreamEnds(s)
  BY DEF DownInv
<1>3. relay[s] \in RelayRec /\ socket[s] \in SocketRec
  BY Types DEF DownInv
<1>4. client[s].open => client[s].peerPaused = relay[s].clientPausedForAgent
  BY <1>1, <1>2, LastWordNone DEF FlagsFollow
<1>5. s \notin Direct => relay[s].agentPaused = socket[s].backpressured
  BY <1>1, <1>2, LastWordNone DEF FlagsFollow
<1>6. relay[s].agentPaused = (s \notin Direct /\ socket[s].backpressured)
  <2>1. CASE s \in Direct
    <3>1. relay[s].agentPaused = FALSE
      BY <2>1, <1>2, <1>3 DEF FlagsFollow, RelayRec
    <3> QED
      BY <2>1, <3>1
  <2>2. CASE s \notin Direct
    BY <2>2, <1>3, <1>5 DEF SocketRec
  <2> QED
    BY <2>1, <2>2
<1>7. s \notin Direct => s \in agentOpen
  BY <1>2 DEF StreamEnds, EndsOnce
<1>8. SocketFull(s) => relay[s].agentPaused \/ relay[s].wsBackpressured
  BY <1>2, <1>5, <1>7 DEF FlagsFollow
<1>9. ASSUME relay[s].clientPausedForAgent
      PROVE  socket[s].queue # <<>> \/ (SharesAgent(s) /\ relay[s].wsBackpressured)
  <2>1. ReasonHolds(s) /\ (relay[s].agentPaused \/ relay[s].wsBackpressured)
    BY <1>2, <1>9 DEF ReasonsHold, FlagsFollow
  <2>2. CASE relay[s].agentPaused \/ s \in Direct
    BY <1>6, <2>1, <2>2 DEF ReasonHolds
  <2>3. CASE relay[s].wsBackpressured /\ s \notin Direct
    <3>1. HeldOf(relayOut, s) = 0
      <4>1. relayOut.sending = <<>> /\ relayOut.waiting = <<>>
        BY DEF Quiet, Idle
      <4>2. DataOf(<<>>, s) = {}
        BY DEF DataOf, DataIn
      <4>3. Cardinality(DataOf(relayOut.sending, s)) = 0
        BY <4>1, <4>2, FS_EmptySet
      <4>4. Cardinality(DataOf(relayOut.waiting, s)) = 0
        BY <4>1, <4>2, FS_EmptySet
      <4> QED
        BY <4>3, <4>4 DEF HeldOf
    <3> QED
      BY <2>1, <2>3, <3>1 DEF ReasonHolds, SharesAgent
  <2> QED
    BY <2>1, <2>2, <2>3
<1> QED
  BY <1>2, <1>4, <1>6, <1>8, <1>9 DEF FlagsFollow

\* Once no frame is on its way, client, relay and agent agree on who is paused, and
\* a client is paused only for a socket that has yet to drain or, where streams share
\* the WebSocket of an agent, for that WebSocket: no PAUSE or RESUME was lost, left
\* out or overtaken.
THEOREM PausesStayAgreed == Spec => []PausesAgree
BY DownHolds, ReasonsStay, AgreementFromFlags, PTL

LEMMA NothingLostOnTheWay ==
  ASSUME DownInv
  PROVE  AgentCloseKeepsData
<1> SUFFICES ASSUME Quiet, NEW s \in Streams \ Direct
             PROVE  Len(app[s]) + Len(socket[s].queue) = sent[s]
  BY DEF AgentCloseKeepsData
<1>1. Up = <<>> /\ Down = <<>>
  BY QuietPaths
<1>2. TypeOK /\ Ordered(s)
  BY DEF DownInv
<1>3. Arrived(s) \in Nat /\ sent[s] \in Nat
  BY <1>2, ArrivedIsNat
<1>4. PICK n \in Nat : Carries(<<>>, s, Arrived(s), n) /\ Carries(<<>>, s, n, sent[s])
  BY <1>1, <1>2 DEF Ordered
<1>5. DataOf(<<>>, s) = {}
  BY DEF DataOf, DataIn
<1>6. Arrived(s) = n /\ n = sent[s]
  BY <1>3, <1>4, <1>5, CarriesNone
<1> QED
  BY <1>6 DEF Arrived

\* A service's orderly close overtakes none of its data on the way through an
\* agent.
THEOREM AgentClosesAfterData == Spec => []AgentCloseKeepsData
BY DownHolds, NothingLostOnTheWay, PTL

-----------------------------------------------------------------------------
(* The pipe.                                                               *)

LEMMA ArrivedWasSent ==
  ASSUME DownInv, NEW s \in Streams, socket[s].queue # <<>>
  PROVE  Len(app[s]) < sent[s]
<1>1. TypeOK /\ Ordered(s)
  BY DEF DownInv
<1>2. Arrived(s) \in Nat /\ sent[s] \in Nat /\ Len(app[s]) \in Nat
  BY <1>1, ArrivedIsNat
<1>3. Len(socket[s].queue) \in Nat \ {0}
  <2>1. socket[s].queue \in Seq(1..Chunks)
    BY <1>1, Types DEF SocketRec
  <2> QED
    BY <2>1
<1>4. Arrived(s) <= sent[s]
  <2>1. CASE s \in Direct
    BY <2>1, <1>1 DEF Ordered, Carries
  <2>2. CASE s \notin Direct
    <3>1. PICK n \in Nat : Carries(Down, s, Arrived(s), n) /\ Carries(Up, s, n, sent[s])
      BY <2>2, <1>1 DEF Ordered
    <3>2. Arrived(s) <= n /\ n <= sent[s]
      BY <3>1 DEF Carries
    <3> QED
      BY <3>2, <1>2
  <2> QED
    BY <2>1, <2>2
<1>5. Len(app[s]) + Len(socket[s].queue) <= sent[s]
  BY <1>4 DEF Arrived
<1>6. \A i, k \in Nat : \A j \in Nat \ {0} : i + j <= k => i < k
  OBVIOUS
<1> QED
  BY <1>2, <1>3, <1>5, <1>6

LEMMA PipeStep ==
  ASSUME DownInv, [Next]_vars
  PROVE  [Promise!Next]_<<sent, app>>
<1>1. ASSUME NEW s \in Streams, ServiceData(s) PROVE Promise!Send(s)
  BY <1>1 DEF ServiceData, appVars, Promise!Send
<1>2. ASSUME NEW s \in Streams, AppTakes(s) PROVE Promise!Deliver(s)
  <2>0. TypeOK /\ Ordered(s)
    BY DEF DownInv
  <2>1. /\ socket[s].queue # <<>> /\ sent' = sent
        /\ app' = [app EXCEPT ![s] = Append(@, Head(socket[s].queue))]
    BY <1>2 DEF AppTakes, clientVars
  <2>2. Len(app[s]) < sent[s]
    BY <2>1, ArrivedWasSent
  <2>3. Head(socket[s].queue) = Len(app[s]) + 1
    <3>1. NumberedFrom(socket[s].queue, Len(app[s])) /\ socket[s].queue \in Seq(1..Chunks)
      BY <2>0, Types DEF Ordered, NumberedFrom, SocketRec
    <3> QED
      BY <3>1, <2>0, <2>1, ArrivedIsNat, NumberedTail
  <2> QED
    BY <2>1, <2>2, <2>3 DEF Promise!Deliver
<1>3. CASE \/ \E s \in Streams : ServiceClose(s)
           \/ ClientWritten \/ ClientControl \/ RelayTakesClientFrame \/ RelayTakesControl
           \/ RelayWritten \/ AgentReceives
           \/ UNCHANGED vars
  <2>1. UNCHANGED <<sent, app>>
    BY <1>3 DEF ServiceClose, ClientWritten, ClientControl, RelayTakesClientFrame,
                RelayTakesControl, RelayWritten, AgentReceives, vars, clientVars, appVars
  <2> QED
    BY <2>1
<1> QED
  BY <1>1, <1>2, <1>3 DEF Next, Promise!Next

\* Each application receives the chunks of its service in order, each of them once
\* and none left out, for any streams, water marks and interleaving.
THEOREM DownImplementsPipe == Spec => ImplementsPipe
<1>1. Init => Promise!Init
  BY DEF Init, Promise!Init
<1>2. DownInv /\ [Next]_vars => [Promise!Next]_<<sent, app>>
  BY PipeStep
<1> QED
  BY <1>1, <1>2, DownHolds, PTL DEF Spec, ImplementsPipe, Promise!Spec
=============================================================================
