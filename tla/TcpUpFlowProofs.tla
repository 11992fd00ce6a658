--------------------------- MODULE TcpUpFlowProofs ---------------------------
(***************************************************************************)
(* Proofs about TcpUpFlow, for any streams, water marks and bounds: type   *)
(* correctness, the bounds on both WebSockets and on every VirtualSocket,  *)
(* that no pause outlives its reason, and that the detailed model          *)
(* implements Pipe.                                                        *)
(***************************************************************************)
EXTENDS TcpUpFlow, WsSenderProofs

-----------------------------------------------------------------------------
(* The inductive invariant.                                                *)

Frames    == ControlFrames \cup DataFrames
AgentRec  == [open : BOOLEAN, peerPaused : BOOLEAN, wsPaused : BOOLEAN, pending : Nat]
RelayRec  == [live : BOOLEAN, paused : BOOLEAN, buffered : Seq(1..Chunks),
              peerPaused : BOOLEAN, wsPaused : BOOLEAN, pending : Nat]
ClientRec == [open : BOOLEAN, backpressured : BOOLEAN, queue : Seq(1..Chunks)]

\* the frames between the agent and the relay, and between relay and client
AgentPath == PathOf(agentWire, agentOut)
RelayPath == PathOf(relayWire, relayOut)

\* The queues are used as their writers use them.
FrameKinds ==
    /\ NoIdleWaiting(agentOut) /\ NoIdleWaiting(relayOut)
    /\ \A i \in 1..Len(AgentPath) : AgentPath[i].stream \notin Direct
    /\ \A s \in Streams : agent[s].open \/ agent[s].wsPaused => s \notin Direct

\* A socket is paused for its two reasons, and only a VirtualSocket in use buffers.
Agreed(r) == r.paused = (r.peerPaused \/ r.wsPaused)
Stored(r, s) ==
    /\ r.buffered # <<>> => r.paused /\ r.live /\ s \notin Direct
    /\ Len(r.buffered) <= MaxDestBuffer

\* Above the high-water mark, every chunk has paused the stream it came from; the
\* chunks of one flush pause it together.
RoomOf(P) == WsHigh + Cardinality(P \cap Direct) + Cardinality(P \ Direct) * MaxDestBuffer
ThrottledIn(st) == {s \in Streams : st[s].wsPaused}
Fits(st, out) == BufferedAmount(out) <= RoomOf(ThrottledIn(st))

AgentThrottled ==
    BufferedAmount(agentOut) <= WsHigh + Cardinality({s \in Streams : agent[s].wsPaused})

\* pendingSends counts the data frames whose callbacks are to come.
Counted(s) ==
    /\ agent[s].pending = HeldOf(agentOut, s)
    /\ relay[s].pending = HeldOf(relayOut, s)

\* What was sent and has not arrived is on its way, in order: the chunks up to n
\* have left the relay's socket.
Arrived(s) == Len(service[s]) + Len(client[s].queue)

HandedOn(r, path, s, n, last) ==
    r.live => IF s \in Direct THEN n = last
              ELSE NumberedFrom(r.buffered, n) /\ Carries(path, s, n + Len(r.buffered), last)

Received(s) ==
    /\ NumberedFrom(service[s], 0)
    /\ NumberedFrom(client[s].queue, Len(service[s]))
    /\ ~client[s].open => client[s].queue = <<>>

Ordered(s) ==
    client[s].open =>
        \E n \in 0..sent[s] : /\ Carries(RelayPath, s, Arrived(s), n)
                              /\ HandedOn(relay[s], AgentPath, s, n, sent[s])

\* A flag that is copied over a WebSocket is right once its frames are read.  The
\* agent may be told to resume too early, but it is not left paused.
Tells(q, s, was, paused) == \E b \in BOOLEAN : LastWord(q, s, was, b) /\ (b => paused)

FlagsFollow(s) ==
    /\ relay[s].live /\ client[s].open =>
          LastWord(toRelay, s, relay[s].peerPaused, client[s].backpressured)
    /\ agent[s].open => Tells(toAgent, s, agent[s].peerPaused, relay[s].paused)

UpInv ==
    /\ TypeOK
    /\ FrameKinds
    /\ \A s \in Streams : Agreed(relay[s]) /\ Stored(relay[s], s)
    /\ AgentThrottled
    /\ Fits(relay, relayOut)
    /\ \A s \in Streams : Counted(s)
    /\ \A s \in Streams : EndsOnce(RelayPath, s, relay[s].live, client[s].open)
    /\ \A s \in Streams : Received(s)
    /\ \A s \in Streams : Ordered(s)
    /\ \A s \in Streams : FlagsFollow(s)

-----------------------------------------------------------------------------
(* Values.                                                                 *)

\* The parts of TypeOK, by name.
LEMMA Types ==
  ASSUME TypeOK
  PROVE  /\ sent \in [Streams -> 0..Chunks]
         /\ agent \in [Streams -> AgentRec]
         /\ agentOut \in SenderOf(Frames)
         /\ agentWire \in Seq(Frames)
         /\ relay \in [Streams -> RelayRec]
         /\ relayOut \in SenderOf(Frames)
         /\ relayWire \in Seq(Frames)
         /\ toAgent \in Seq(ControlFrames)
         /\ client \in [Streams -> ClientRec]
         /\ toRelay \in Seq(ControlFrames)
         /\ service \in [Streams -> Seq(1..Chunks)]
BY DEF TypeOK, Senders, SenderOf, AgentRec, RelayRec, ClientRec, Frames

\* and the same for the next state.
LEMMA TypesNext ==
  ASSUME /\ sent' \in [Streams -> 0..Chunks]
         /\ agent' \in [Streams -> AgentRec]
         /\ agentOut' \in SenderOf(Frames)
         /\ agentWire' \in Seq(Frames)
         /\ relay' \in [Streams -> RelayRec]
         /\ relayOut' \in SenderOf(Frames)
         /\ relayWire' \in Seq(Frames)
         /\ toAgent' \in Seq(ControlFrames)
         /\ client' \in [Streams -> ClientRec]
         /\ toRelay' \in Seq(ControlFrames)
         /\ service' \in [Streams -> Seq(1..Chunks)]
  PROVE  TypeOK'
BY DEF TypeOK, Senders, SenderOf, AgentRec, RelayRec, ClientRec, Frames

\* The elements of a sequence.
LEMMA ElementsIn ==
  ASSUME NEW F, NEW q \in Seq(F)
  PROVE  Len(q) \in Nat /\ \A i \in 1..Len(q) : q[i] \in F
OBVIOUS

\* The frames the processes make.
LEMMA FramesMade ==
  /\ ChunksAreNumbers(Frames)
  /\ \A s \in Streams, n \in 1..Chunks : Data(s, n) \in Frames
  /\ \A s \in Streams, t \in {"PAUSE", "RESUME", "TCP_CLOSE", "TCP_ABORT"} :
        Control(t, s) \in ControlFrames /\ Control(t, s) \in Frames
  /\ \A f \in Frames : f.stream \in Streams /\ (IsData(f) => f.chunk \in 1..Chunks)
  /\ \A f \in ControlFrames : f.stream \in Streams /\ ~IsData(f)
BY UpFlowAssumption DEF ChunksAreNumbers, Frames, DataFrames, ControlFrames, Data, Control, IsData

\* A frame says what it was made from.
LEMMA FrameFields ==
  ASSUME NEW s, NEW n, NEW t
  PROVE  /\ Data(s, n).stream = s /\ Data(s, n).chunk = n /\ IsData(Data(s, n))
         /\ Control(t, s).stream = s /\ Control(t, s).type = t
         /\ t # "TCP_DATA" => ~IsData(Control(t, s))
BY DEF Data, Control, IsData

\* Both paths are sequences of frames.
LEMMA PathTypes ==
  ASSUME NEW w \in Seq(Frames), NEW out \in SenderOf(Frames)
  PROVE  PathOf(w, out) \in Seq(Frames)
<1>1. Held(out) \in Seq(Frames)
  BY DEF SenderOf, Held
<1> QED
  BY <1>1 DEF PathOf
-----------------------------------------------------------------------------
(* The relay in the hands of a handler.                                    *)

RelayStates ==
    [st : [Streams -> RelayRec], out : SenderOf(Frames), toAgent : Seq(ControlFrames)]

\* The parts of such a state.
LEMMA StateFields ==
  ASSUME NEW x \in RelayStates
  PROVE  /\ x.st \in [Streams -> RelayRec]
         /\ x.out \in SenderOf(Frames)
         /\ x.toAgent \in Seq(ControlFrames)
BY DEF RelayStates

\* its queues are in order; the callbacks of `rest` are still to run
Based(x, rest) ==
    /\ x \in RelayStates /\ rest \in [Streams -> Nat]
    /\ NoIdleWaiting(x.out)
    /\ \A t \in Streams : x.st[t].pending = HeldOf(x.out, t) + rest[t]

\* the other streams of a WebSocket do not notice that `after` replaces `before`
PathKeeps(w, before, after, s) ==
    \A t \in Streams : t # s =>
        /\ \A lo, hi : Carries(PathOf(w, before), t, lo, hi) => Carries(PathOf(w, after), t, lo, hi)
        /\ \A a, b : EndsOnce(PathOf(w, before), t, a, b) => EndsOnce(PathOf(w, after), t, a, b)

ToldKeeps(before, after, s) ==
    \A t \in Streams : t # s =>
        \A was, is : LastWord(before, t, was, is) => LastWord(after, t, was, is)

OthersKeep(w, x, y, s) ==
    /\ \A t \in Streams : t # s => y.st[t] = x.st[t]
    /\ PathKeeps(w, x.out, y.out, s)
    /\ ToldKeeps(x.toAgent, y.toAgent, s)

\* a write concerns the stream of its frame,
LEMMA WriteKeeps ==
  ASSUME NEW w \in Seq(Frames), NEW out \in SenderOf(Frames), NEW f \in Frames,
         NoIdleWaiting(out)
  PROVE  PathKeeps(w, out, Write(out, f), f.stream)
<1> DEFINE q == PathOf(w, out)
<1>1. PathOf(w, Write(out, f)) = Append(q, f) /\ q \in Seq(Frames)
  BY PathWrite, PathTypes
<1> HIDE DEF q
<1>2. ASSUME NEW t \in Streams, t # f.stream, NEW lo, NEW hi, Carries(q, t, lo, hi)
      PROVE  Carries(Append(q, f), t, lo, hi)
  BY <1>1, <1>2, CarriesAppendOther
<1>3. ASSUME NEW t \in Streams, t # f.stream, NEW a, NEW b, EndsOnce(q, t, a, b)
      PROVE  EndsOnce(Append(q, f), t, a, b)
  BY <1>1, <1>3, EndsAppendOther
<1> QED
  BY <1>1, <1>2, <1>3 DEF PathKeeps, q

\* and a frame to the agent is the last word for its own.
LEMMA TellKeeps ==
  ASSUME NEW q \in Seq(ControlFrames), NEW f \in ControlFrames
  PROVE  /\ ToldKeeps(q, Append(q, f), f.stream)
         /\ \A was : LastWord(Append(q, f), f.stream, was, f.type = "PAUSE")
<1> DEFINE g == <<f>>
<1>1. Append(q, f) = q \o g
  BY AppendIsConcat
<1>2. g \in Seq(ControlFrames) /\ Len(g) = 1 /\ g[1] = f
  OBVIOUS
<1> HIDE DEF g
<1>3. ASSUME NEW t \in Streams, t # f.stream, NEW was, NEW is, LastWord(q, t, was, is)
      PROVE  LastWord(q \o g, t, was, is)
  <2>1. \A i \in 1..Len(g) : g[i].stream # t
    BY <1>2, <1>3
  <2> QED
    BY <2>1, <1>2, <1>3, LastWordConcat
<1>4. ASSUME NEW was PROVE LastWord(Append(q, f), f.stream, was, f.type = "PAUSE")
  <2> DEFINE v == Append(q, f)
  <2>1. Len(v) = Len(q) + 1 /\ v[Len(q) + 1] = f /\ Len(q) \in Nat
    OBVIOUS
  <2> HIDE DEF v
  <2>2. ~NoneOf(v, f.stream)
    BY <2>1 DEF NoneOf
  <2>3. ASSUME NEW i \in 1..Len(v), \A j \in 1..Len(v) : i < j => v[j].stream # f.stream
        PROVE  v[i] = f
    <3>1. ~(i < Len(q) + 1)
      BY <2>1, <2>3
    <3> QED
      BY <3>1, <2>1
  <2> QED
    BY <2>2, <2>3 DEF LastWord, v
<1> QED
  BY <1>1, <1>3, <1>4 DEF ToldKeeps

\* Nothing changes for them when nothing changes, and one change after another.
LEMMA KeepsSame ==
  ASSUME NEW w, NEW out, NEW q, NEW s
  PROVE  PathKeeps(w, out, out, s) /\ ToldKeeps(q, q, s)
BY DEF PathKeeps, ToldKeeps

LEMMA KeepsTransitive ==
  ASSUME NEW w, NEW x, NEW y, NEW z, NEW s, OthersKeep(w, x, y, s), OthersKeep(w, y, z, s)
  PROVE  OthersKeep(w, x, z, s)
<1>1. PathKeeps(w, x.out, z.out, s)
  BY DEF OthersKeep, PathKeeps
<1>2. ToldKeeps(x.toAgent, z.toAgent, s)
  BY DEF OthersKeep, ToldKeeps
<1> QED
  BY <1>1, <1>2 DEF OthersKeep

-----------------------------------------------------------------------------
(* A frame to the agent.                                                   *)

\* what a handler adds to the frames to the agent
LEMMA TellAgentFields ==
  ASSUME NEW x \in RelayStates, NEW s \in Streams,
         NEW type \in {"PAUSE", "RESUME", "TCP_ABORT"}
  PROVE  /\ TellAgent(x, type, s) \in RelayStates
         /\ TellAgent(x, type, s).st = x.st /\ TellAgent(x, type, s).out = x.out
         /\ TellAgent(x, type, s).toAgent =
               IF s \in Direct THEN x.toAgent ELSE Append(x.toAgent, Control(type, s))
<1>1. Control(type, s) \in ControlFrames
  BY FramesMade
<1> HIDE DEF Control
<1>2. x.toAgent \in Seq(ControlFrames)
  BY StateFields
<1>3. Append(x.toAgent, Control(type, s)) \in Seq(ControlFrames)
  BY <1>1, <1>2
<1> QED
  BY <1>3 DEF TellAgent, RelayStates

\* the agent that is told to pause knows it, and one told anything else may read
Heard(x, y, s) ==
    s \notin Direct => \A was :
        Tells(x.toAgent, s, was, x.st[s].paused) => Tells(y.toAgent, s, was, y.st[s].paused)

LEMMA TellAgentTells ==
  ASSUME NEW x \in RelayStates, NEW s \in Streams, s \notin Direct,
         NEW type \in {"PAUSE", "RESUME", "TCP_ABORT"}, NEW paused \in BOOLEAN,
         type = "PAUSE" => paused
  PROVE  \A was : Tells(TellAgent(x, type, s).toAgent, s, was, paused)
<1> DEFINE f == Control(type, s)
<1>1. f \in ControlFrames /\ f.stream = s /\ f.type = type
  BY FramesMade, FrameFields
<1> HIDE DEF f
<1>5. x.toAgent \in Seq(ControlFrames)
  BY StateFields
<1>6. TellAgent(x, type, s).toAgent = Append(x.toAgent, f)
  BY TellAgentFields DEF f
<1>2. x.toAgent \in Seq(ControlFrames) /\ TellAgent(x, type, s).toAgent = Append(x.toAgent, f)
  BY <1>5, <1>6
<1>3. \A was : LastWord(Append(x.toAgent, f), s, was, f.type = "PAUSE")
  BY <1>1, <1>2, TellKeeps
<1>4. (f.type = "PAUSE") \in BOOLEAN /\ (f.type = "PAUSE" => paused)
  BY <1>1
<1> QED
  BY <1>2, <1>3, <1>4 DEF Tells

LEMMA TellAgentKeeps ==
  ASSUME NEW x \in RelayStates, NEW s \in Streams, NEW w,
         NEW type \in {"PAUSE", "RESUME", "TCP_ABORT"}
  PROVE  OthersKeep(w, x, TellAgent(x, type, s), s)
<1> DEFINE f == Control(type, s)
<1>1. f \in ControlFrames /\ f.stream = s
  BY FramesMade, FrameFields
<1> HIDE DEF f
<1>2. x.toAgent \in Seq(ControlFrames)
  BY StateFields
<1>3. ToldKeeps(x.toAgent, Append(x.toAgent, f), s)
  BY <1>1, <1>2, TellKeeps
<1> QED
  BY <1>3, TellAgentFields, KeepsSame DEF OthersKeep, f

\* A step that changes neither the queue nor the pause is not heard.
LEMMA HeardSame ==
  ASSUME NEW x, NEW y, NEW s, y.toAgent = x.toAgent, x.st[s].paused => y.st[s].paused
  PROVE  Heard(x, y, s)
BY DEF Heard, Tells

LEMMA HeardTransitive ==
  ASSUME NEW x, NEW y, NEW z, NEW s, Heard(x, y, s), Heard(y, z, s)
  PROVE  Heard(x, z, s)
BY DEF Heard
-----------------------------------------------------------------------------
(* socket.pause().                                                         *)

\* the stream's record keeps all but what is said
SameRecord(r, q) == /\ q.live = r.live /\ q.peerPaused = r.peerPaused /\ q.buffered = r.buffered

Parked(r) == [r EXCEPT !.paused = TRUE]

LEMMA ParkedFields ==
  ASSUME NEW r \in RelayRec
  PROVE  /\ Parked(r) \in RelayRec /\ Parked(r).paused = TRUE
         /\ SameRecord(r, Parked(r))
         /\ Parked(r).wsPaused = r.wsPaused /\ Parked(r).pending = r.pending
BY DEF Parked, RelayRec, SameRecord

LEMMA SameParked ==
  ASSUME NEW r \in RelayRec, r.paused
  PROVE  Parked(r) = r
BY DEF Parked, RelayRec

\* The socket is paused, and the agent hears of it if it was not.
LEMMA PauseEffect ==
  ASSUME NEW x \in RelayStates, NEW s \in Streams, NEW w
  PROVE  /\ Pause(x, s) \in RelayStates
         /\ Pause(x, s).out = x.out
         /\ Pause(x, s).st[s] = Parked(x.st[s])
         /\ OthersKeep(w, x, Pause(x, s), s)
         /\ Heard(x, Pause(x, s), s)
<1>0. x.st \in [Streams -> RelayRec] /\ x.st[s] \in RelayRec
  BY StateFields
<1>1. CASE x.st[s].paused
  <2>1. Pause(x, s) = x
    BY <1>1 DEF Pause
  <2>2. Parked(x.st[s]) = x.st[s]
    BY <1>0, <1>1, SameParked
  <2>3. Heard(x, x, s)
    BY HeardSame
  <2>4. OthersKeep(w, x, x, s)
    BY KeepsSame DEF OthersKeep
  <2> QED
    BY <2>1, <2>2, <2>3, <2>4
<1>2. CASE ~x.st[s].paused
  <2> DEFINE y == [x EXCEPT !.st[s].paused = TRUE]
             z == TellAgent(y, "PAUSE", s)
  <2>1. Pause(x, s) = z
    BY <1>2 DEF Pause
  <2>2. y.st = [x.st EXCEPT ![s] = Parked(x.st[s])] /\ y.out = x.out /\ y.toAgent = x.toAgent
    BY DEF RelayStates, Parked
  <2>3. y \in RelayStates
    BY <1>0, ParkedFields DEF RelayStates, Parked
  <2>4. y.st[s] = Parked(x.st[s]) /\ \A t \in Streams : t # s => y.st[t] = x.st[t]
    BY <2>2, <1>0
  <2> HIDE DEF y
  <2>5. OthersKeep(w, x, y, s)
    BY <2>2, <2>4, KeepsSame DEF OthersKeep
  <2>6. z \in RelayStates /\ z.st = y.st /\ z.out = y.out /\ OthersKeep(w, y, z, s)
    BY <2>3, TellAgentFields, TellAgentKeeps
  <2>7. z.st[s].paused = TRUE
    BY <2>4, <2>6, <1>0, ParkedFields
  <2>8. s \notin Direct => \A was : Tells(z.toAgent, s, was, TRUE)
    BY <2>3, TellAgentTells
  <2>9. Heard(x, z, s)
    BY <2>7, <2>8 DEF Heard
  <2> HIDE DEF z
  <2> QED
    BY <2>1, <2>2, <2>4, <2>5, <2>6, <2>9, KeepsTransitive
<1> QED
  BY <1>1, <1>2

-----------------------------------------------------------------------------
(* The 'data' handler.                                                     *)

\* A chunk n is written for stream s.
OneSent(x, s, n) == [x EXCEPT !.out = Write(@, Data(s, n)), !.st[s].pending = @ + 1]

OneMore(r) == [r EXCEPT !.pending = @ + 1]
Throttle(r) == [r EXCEPT !.wsPaused = TRUE]

LEMMA OneMoreFields ==
  ASSUME NEW r \in RelayRec
  PROVE  /\ OneMore(r) \in RelayRec /\ OneMore(r).pending = r.pending + 1
         /\ SameRecord(r, OneMore(r))
         /\ OneMore(r).wsPaused = r.wsPaused /\ OneMore(r).paused = r.paused
<1>1. r.pending + 1 \in Nat
  BY DEF RelayRec
<1> QED
  BY <1>1 DEF OneMore, RelayRec, SameRecord

LEMMA ThrottleFields ==
  ASSUME NEW r \in RelayRec
  PROVE  /\ Throttle(r) \in RelayRec /\ Throttle(r).wsPaused = TRUE
         /\ SameRecord(r, Throttle(r))
         /\ Throttle(r).pending = r.pending /\ Throttle(r).paused = r.paused
BY DEF Throttle, RelayRec, SameRecord

\* What a chunk that is passed on does to its stream: the chunks up to hi were
\* ahead of it, and are followed by those up to new.
PassedOn(w, x, y, s, hi, new) ==
    \A lo \in Nat : Carries(PathOf(w, x.out), s, lo, hi) => Carries(PathOf(w, y.out), s, lo, new)

StillWrites(w, x, y, s) ==
    \A r \in BOOLEAN :
        EndsOnce(PathOf(w, x.out), s, TRUE, r) => EndsOnce(PathOf(w, y.out), s, TRUE, r)
\* The write counts for its stream alone, which carries on.
LEMMA OneSentEffect ==
  ASSUME NEW x, NEW rest, Based(x, rest), NEW s \in Streams, NEW n \in 1..Chunks,
         NEW w \in Seq(Frames)
  PROVE  /\ Based(OneSent(x, s, n), rest)
         /\ OneSent(x, s, n).st[s] = OneMore(x.st[s])
         /\ OneSent(x, s, n).toAgent = x.toAgent
         /\ BufferedAmount(x.out) \in Nat
         /\ BufferedAmount(OneSent(x, s, n).out) = BufferedAmount(x.out) + 1
         /\ OthersKeep(w, x, OneSent(x, s, n), s)
         /\ Heard(x, OneSent(x, s, n), s)
         /\ PassedOn(w, x, OneSent(x, s, n), s, n - 1, n)
         /\ StillWrites(w, x, OneSent(x, s, n), s)
<1> DEFINE f == Data(s, n)
           y == OneSent(x, s, n)
           out == Write(x.out, f)
<1>0. /\ x \in RelayStates /\ NoIdleWaiting(x.out) /\ rest \in [Streams -> Nat]
      /\ \A t \in Streams : x.st[t].pending = HeldOf(x.out, t) + rest[t]
  BY DEF Based
<1>1. x.st \in [Streams -> RelayRec] /\ x.out \in SenderOf(Frames)
      /\ x.toAgent \in Seq(ControlFrames) /\ x.st[s] \in RelayRec
  BY <1>0, StateFields
<1>2. f \in Frames /\ f.stream = s /\ f.chunk = n /\ IsData(f)
  BY FramesMade, FrameFields
<1>3. y.st = [x.st EXCEPT ![s] = OneMore(x.st[s])] /\ y.out = out /\ y.toAgent = x.toAgent
  BY <1>0 DEF RelayStates, OneSent, OneMore
<1> HIDE DEF f
<1>4. out \in SenderOf(Frames) /\ NoIdleWaiting(out)
  BY <1>0, <1>1, <1>2, WriteAppends
<1>5. y \in RelayStates
  <2>1. y.st \in [Streams -> RelayRec]
    BY <1>1, <1>3, OneMoreFields
  <2>2. Write(x.out, Data(s, n)) \in SenderOf(Frames)
    BY <1>4 DEF f
  <2>3. OneMore(x.st[s]) \in RelayRec
    BY <1>1, OneMoreFields
  <2> QED
    BY <1>0, <1>1, <2>2, <2>3 DEF RelayStates, OneSent, OneMore
<1> HIDE DEF y
<1>6. y.st[s] = OneMore(x.st[s]) /\ \A t \in Streams : t # s => y.st[t] = x.st[t]
  BY <1>1, <1>3
<1>7. /\ BufferedAmount(x.out) \in Nat
      /\ BufferedAmount(out) = BufferedAmount(x.out) + 1
  BY <1>0, <1>1, <1>2, WriteBuffers
<1>8. /\ HeldOf(out, s) = HeldOf(x.out, s) + 1
      /\ \A t \in Streams : t # s => HeldOf(out, t) = HeldOf(x.out, t) + 0
  BY <1>0, <1>1, <1>2, HeldOfWrite
<1>9. \A t \in Streams : HeldOf(x.out, t) \in Nat
  BY <1>1, HeldOfWritten
<1>10. \A t \in Streams : y.st[t].pending = HeldOf(y.out, t) + rest[t]
  <2> SUFFICES ASSUME NEW t \in Streams PROVE y.st[t].pending = HeldOf(out, t) + rest[t]
    BY <1>3
  <2>1. CASE t = s
    <3>1. y.st[s].pending = x.st[s].pending + 1
      BY <1>1, <1>6, OneMoreFields
    <3>2. x.st[s].pending = HeldOf(x.out, s) + rest[s] /\ x.st[s].pending \in Nat
      BY <1>0, <1>1 DEF RelayRec
    <3>3. HeldOf(x.out, s) \in Nat /\ rest[s] \in Nat
      BY <1>0, <1>9
    <3>4. \A a, b \in Nat : (a + b) + 1 = (a + 1) + b
      OBVIOUS
    <3>5. y.st[s].pending = (HeldOf(x.out, s) + 1) + rest[s]
      BY <3>1, <3>2, <3>3, <3>4
    <3> HIDE DEF out
    <3> QED
      BY <2>1, <3>5, <1>8
  <2>2. CASE t # s
    <3>1. y.st[t].pending = HeldOf(x.out, t) + rest[t]
      BY <2>2, <1>0, <1>6
    <3>2. HeldOf(out, t) = HeldOf(x.out, t)
      BY <2>2, <1>8, <1>9
    <3> HIDE DEF out
    <3> QED
      BY <3>1, <3>2
  <2> QED
    BY <2>1, <2>2
<1>11. Based(y, rest)
  BY <1>3, <1>4, <1>5, <1>10 DEF Based
<1>12. PathKeeps(w, x.out, out, s)
  BY <1>0, <1>1, <1>2, WriteKeeps
<1>13. OthersKeep(w, x, y, s)
  BY <1>3, <1>6, <1>12, KeepsSame DEF OthersKeep
<1>14. Heard(x, y, s)
  <2>1. y.st[s].paused = x.st[s].paused
    BY <1>1, <1>6, OneMoreFields
  <2> QED
    BY <2>1, <1>3, HeardSame
<1>15. PathOf(w, out) = Append(PathOf(w, x.out), f) /\ PathOf(w, x.out) \in Seq(Frames)
  BY <1>0, <1>1, <1>2, PathWrite, PathTypes
<1> DEFINE q == PathOf(w, x.out)
<1>16. PassedOn(w, x, y, s, n - 1, n)
  <2> SUFFICES ASSUME NEW lo \in Nat, Carries(q, s, lo, n - 1)
               PROVE  Carries(PathOf(w, out), s, lo, n)
    BY <1>3 DEF PassedOn
  <2> HIDE DEF q
  <2>1. n - 1 \in Nat /\ (n - 1) + 1 = n
    BY UpFlowAssumption
  <2>2. ChunksAreNumbers(Frames)
    BY FramesMade
  <2>3. Carries(Append(q, f), s, lo, (n - 1) + 1)
    BY <2>1, <2>2, <1>2, <1>15, CarriesAppend DEF q
  <2> QED
    BY <2>1, <2>3, <1>15 DEF q
<1>17. StillWrites(w, x, y, s)
  <2> SUFFICES ASSUME NEW r \in BOOLEAN, EndsOnce(q, s, TRUE, r)
               PROVE  EndsOnce(PathOf(w, out), s, TRUE, r)
    BY <1>3 DEF StillWrites
  <2> HIDE DEF q
  <2>1. EndsOnce(Append(q, f), s, TRUE, r)
    BY <1>2, <1>15, EndsAppend DEF q
  <2> QED
    BY <2>1, <1>15 DEF q
<1> QED
  BY <1>3, <1>6, <1>7, <1>11, <1>13, <1>14, <1>16, <1>17 DEF y
\* What a handler leaves on the stream of a chunk it has passed on.
Kept(w, x, y, s) ==
    /\ SameRecord(x.st[s], y.st[s])
    /\ x.st[s].paused => y.st[s].paused
    /\ Agreed(x.st[s]) => Agreed(y.st[s])
    /\ OthersKeep(w, x, y, s)
    /\ Heard(x, y, s)
    /\ StillWrites(w, x, y, s)

LEMMA KeptSame ==
  ASSUME NEW w, NEW x, NEW s
  PROVE  Kept(w, x, x, s)
<1>1. OthersKeep(w, x, x, s)
  BY KeepsSame DEF OthersKeep
<1>2. Heard(x, x, s)
  BY HeardSame
<1> QED
  BY <1>1, <1>2 DEF Kept, SameRecord, StillWrites

LEMMA KeptTransitive ==
  ASSUME NEW w, NEW x, NEW y, NEW z, NEW s, Kept(w, x, y, s), Kept(w, y, z, s)
  PROVE  Kept(w, x, z, s)
<1>1. OthersKeep(w, x, z, s)
  BY KeepsTransitive DEF Kept
<1>2. Heard(x, z, s)
  BY HeardTransitive DEF Kept
<1>3. StillWrites(w, x, z, s)
  BY DEF Kept, StillWrites
<1>4. SameRecord(x.st[s], z.st[s])
  BY DEF Kept, SameRecord
<1> QED
  BY <1>1, <1>2, <1>3, <1>4 DEF Kept

LEMMA PassedTransitive ==
  ASSUME NEW w, NEW x, NEW y, NEW z, NEW s, NEW a, NEW b, NEW c,
         PassedOn(w, x, y, s, a, b), PassedOn(w, y, z, s, b, c)
  PROVE  PassedOn(w, x, z, s, a, c)
BY DEF PassedOn

LEMMA BasedKept ==
  ASSUME NEW x, NEW y, NEW rest, Based(x, rest), y \in RelayStates, y.out = x.out,
         \A t \in Streams : y.st[t].pending = x.st[t].pending
  PROVE  Based(y, rest)
BY DEF Based

Throttled(x, s) == [x EXCEPT !.st[s].wsPaused = TRUE]

LEMMA ThrottledEffect ==
  ASSUME NEW x, NEW rest, Based(x, rest), NEW s \in Streams, NEW w
  PROVE  /\ Based(Throttled(x, s), rest)
         /\ Throttled(x, s).st[s] = Throttle(x.st[s])
         /\ Throttled(x, s).toAgent = x.toAgent /\ Throttled(x, s).out = x.out
         /\ OthersKeep(w, x, Throttled(x, s), s)
<1> DEFINE y == Throttled(x, s)
<1>0. x \in RelayStates
  BY DEF Based
<1>1. x.st \in [Streams -> RelayRec] /\ x.st[s] \in RelayRec
  BY <1>0, StateFields
<1>2. Throttle(x.st[s]) \in RelayRec
  BY <1>1, ThrottleFields
<1>3. y.st = [x.st EXCEPT ![s] = Throttle(x.st[s])] /\ y.out = x.out /\ y.toAgent = x.toAgent
  BY <1>0 DEF RelayStates, Throttled, Throttle
<1>4. y \in RelayStates
  BY <1>0, <1>1, <1>2 DEF RelayStates, Throttled, Throttle
<1> HIDE DEF y
<1>5. y.st[s] = Throttle(x.st[s]) /\ \A t \in Streams : t # s => y.st[t] = x.st[t]
  BY <1>1, <1>3
<1>6. y.st[s].pending = x.st[s].pending
  BY <1>1, <1>5, ThrottleFields
<1>9. \A t \in Streams : y.st[t].pending = x.st[t].pending
  BY <1>5, <1>6
<1>10. y.out = x.out
  BY <1>3
<1>7. Based(y, rest)
  BY <1>4, <1>9, <1>10, BasedKept
<1>8. OthersKeep(w, x, y, s)
  BY <1>3, <1>5, KeepsSame DEF OthersKeep
<1> QED
  BY <1>3, <1>5, <1>7, <1>8 DEF y

\* A chunk is written, and the socket paused if that is too much.
LEMMA OnDataEffect ==
  ASSUME NEW x, NEW rest, Based(x, rest), NEW s \in Streams, NEW n \in 1..Chunks,
         NEW w \in Seq(Frames)
  PROVE  /\ Based(OnData(x, s, n), rest)
         /\ Kept(w, x, OnData(x, s, n), s)
         /\ PassedOn(w, x, OnData(x, s, n), s, n - 1, n)
         /\ BufferedAmount(x.out) \in Nat
         /\ BufferedAmount(OnData(x, s, n).out) = BufferedAmount(x.out) + 1
         /\ OnData(x, s, n).st[s].wsPaused =
               (x.st[s].wsPaused \/ BufferedAmount(x.out) + 1 > WsHigh)
<1> DEFINE y == OneSent(x, s, n)
           full == BufferedAmount(y.out) > WsHigh /\ ~y.st[s].wsPaused
           t == Throttled(y, s)
           z == Pause(t, s)
<1>1. OnData(x, s, n) = IF full THEN z ELSE y
  BY DEF OnData, OneSent, Throttled
<1>2. /\ Based(y, rest)
      /\ y.st[s] = OneMore(x.st[s])
      /\ y.toAgent = x.toAgent
      /\ BufferedAmount(x.out) \in Nat
      /\ BufferedAmount(y.out) = BufferedAmount(x.out) + 1
      /\ OthersKeep(w, x, y, s)
      /\ Heard(x, y, s)
      /\ PassedOn(w, x, y, s, n - 1, n)
      /\ StillWrites(w, x, y, s)
  BY OneSentEffect
<1>3. x \in RelayStates /\ y \in RelayStates
  BY <1>2 DEF Based
<1>4. x.st[s] \in RelayRec /\ y.st[s] \in RelayRec
  BY <1>3, StateFields
<1>5. /\ SameRecord(x.st[s], y.st[s]) /\ y.st[s].wsPaused = x.st[s].wsPaused
      /\ y.st[s].paused = x.st[s].paused
  BY <1>2, <1>4, OneMoreFields
<1> HIDE DEF y
<1>6. CASE ~full
  <2>1. Agreed(x.st[s]) => Agreed(y.st[s])
    BY <1>5 DEF Agreed, SameRecord
  <2>2. Kept(w, x, y, s)
    BY <2>1, <1>2, <1>5 DEF Kept
  <2>3. x.st[s].wsPaused \in BOOLEAN
    BY <1>4 DEF RelayRec
  <2>4. y.st[s].wsPaused = (x.st[s].wsPaused \/ BufferedAmount(x.out) + 1 > WsHigh)
    BY <2>3, <1>2, <1>5, <1>6
  <2>5. OnData(x, s, n) = y
    BY <1>1, <1>6
  <2> QED
    BY <2>2, <2>4, <2>5, <1>2
<1>7. CASE full
  <2>1. /\ Based(t, rest) /\ t.st[s] = Throttle(y.st[s]) /\ t.toAgent = y.toAgent
        /\ t.out = y.out /\ OthersKeep(w, y, t, s)
    BY <1>2, ThrottledEffect
  <2>2. t \in RelayStates /\ t.st[s] \in RelayRec
    BY <2>1, <1>4, ThrottleFields DEF Based
  <2>3. /\ t.st[s].wsPaused = TRUE /\ SameRecord(y.st[s], t.st[s])
        /\ t.st[s].pending = y.st[s].pending /\ t.st[s].paused = y.st[s].paused
    BY <2>1, <1>4, ThrottleFields
  <2> HIDE DEF t
  <2>4. /\ z \in RelayStates /\ z.out = t.out /\ z.st[s] = Parked(t.st[s])
        /\ OthersKeep(w, t, z, s) /\ Heard(t, z, s)
    BY <2>2, PauseEffect
  <2>5. /\ z.st[s].paused = TRUE /\ SameRecord(t.st[s], z.st[s])
        /\ z.st[s].wsPaused = TRUE /\ z.st[s].pending = t.st[s].pending
    BY <2>2, <2>3, <2>4, ParkedFields
  <2> HIDE DEF z
  <2>6. \A u \in Streams : z.st[u].pending = t.st[u].pending
    BY <2>4, <2>5 DEF OthersKeep
  <2>7. Based(z, rest)
    BY <2>1, <2>4, <2>6, BasedKept
  <2>8. OthersKeep(w, x, z, s)
    BY <2>1, <2>4, <1>2, KeepsTransitive
  <2>9. Heard(x, z, s)
    <3>1. Heard(y, t, s)
      BY <2>1, <2>3, HeardSame
    <3> QED
      BY <3>1, <2>4, <1>2, HeardTransitive
  <2>10. SameRecord(x.st[s], z.st[s])
    BY <2>3, <2>5, <1>5 DEF SameRecord
  <2>11. Agreed(z.st[s])
    BY <2>5 DEF Agreed
  <2>12. PassedOn(w, x, z, s, n - 1, n) /\ StillWrites(w, x, z, s)
    BY <2>1, <2>4, <1>2 DEF PassedOn, StillWrites
  <2>13. Kept(w, x, z, s)
    BY <2>5, <2>8, <2>9, <2>10, <2>11, <2>12 DEF Kept
  <2>14. BufferedAmount(x.out) + 1 > WsHigh
    BY <1>2, <1>7
  <2>15. OnData(x, s, n) = z
    BY <1>1, <1>7 DEF z, t
  <2> QED
    BY <2>1, <2>4, <2>5, <2>7, <2>12, <2>13, <2>14, <2>15, <1>2
<1> QED
  BY <1>6, <1>7
-----------------------------------------------------------------------------
(* The chunks of a buffer, one after the other.                            *)

\* g[i] is the relay's state after i of the chunks.
FlushRun(g, n, x, s, chunks) ==
    g = [i \in 0..n |-> IF i = 0 THEN x ELSE OnData(g[i - 1], s, chunks[i])]

LEMMA FlushRuns ==
  ASSUME NEW x, NEW s, NEW chunks, Len(chunks) \in Nat
  PROVE  \A n \in 0..Len(chunks) : \E g : FlushRun(g, n, x, s, chunks)
<1> DEFINE S == {n \in 0..Len(chunks) : \E g : FlushRun(g, n, x, s, chunks)}
<1>1. 0 \in S
  <2> DEFINE g == [i \in 0..0 |-> x]
  <2>1. g = [i \in 0..0 |-> IF i = 0 THEN x ELSE OnData(g[i - 1], s, chunks[i])]
    OBVIOUS
  <2>2. FlushRun(g, 0, x, s, chunks)
    BY <2>1 DEF FlushRun
  <2> QED
    BY <2>2
<1>2. ASSUME NEW k \in 0..Len(chunks), k < Len(chunks), k \in S PROVE k + 1 \in S
  <2>1. PICK g : FlushRun(g, k, x, s, chunks)
    BY <1>2
  <2> DEFINE y == OnData(g[k], s, chunks[k + 1])
             h == [i \in 0..(k + 1) |-> IF i = k + 1 THEN y ELSE g[i]]
  <2>2. ASSUME NEW i \in 0..(k + 1), i # k + 1
        PROVE  h[i] = IF i = 0 THEN x ELSE OnData(h[i - 1], s, chunks[i])
    <3>1. g[i] = IF i = 0 THEN x ELSE OnData(g[i - 1], s, chunks[i])
      BY <2>1, <2>2 DEF FlushRun
    <3>2. i # 0 => i - 1 \in 0..(k + 1) /\ i - 1 # k + 1
      BY <2>2
    <3> QED
      BY <2>2, <3>1, <3>2
  <2>3. h[k + 1] = OnData(h[k], s, chunks[k + 1])
    BY DEF h
  <2>4. \A i \in 0..(k + 1) : h[i] = IF i = 0 THEN x ELSE OnData(h[i - 1], s, chunks[i])
    BY <2>2, <2>3
  <2>5. FlushRun(h, k + 1, x, s, chunks)
    BY <2>4 DEF FlushRun
  <2>6. k + 1 \in 0..Len(chunks)
    BY <1>2
  <2> QED
    BY <2>5, <2>6
<1> HIDE DEF S
<1>3. 0..Len(chunks) \subseteq S
  BY <1>1, <1>2, InductionUpTo
<1> QED
  BY <1>3 DEF S

LEMMA FlushedRuns ==
  ASSUME NEW x, NEW s, NEW chunks, Len(chunks) \in Nat
  PROVE  \E g : FlushRun(g, Len(chunks), x, s, chunks) /\ Flushed(x, s, chunks) = g[Len(chunks)]
<1>1. \E g : FlushRun(g, Len(chunks), x, s, chunks)
  <2>1. Len(chunks) \in 0..Len(chunks)
    OBVIOUS
  <2> QED
    BY <2>1, FlushRuns
<1> QED
  BY <1>1 DEF FlushRun, Flushed

\* after k chunks
FlushedTo(w, x, y, rest, s, chunks, k) ==
    /\ Based(y, rest)
    /\ Kept(w, x, y, s)
    /\ BufferedAmount(y.out) = BufferedAmount(x.out) + k
    /\ k = 0 \/ y.st[s].wsPaused \/ BufferedAmount(y.out) <= WsHigh
    /\ \A base \in Nat : NumberedFrom(chunks, base) => PassedOn(w, x, y, s, base, base + k)

\* All are passed on, in order; a flush that fills the WebSocket pauses the socket.
LEMMA FlushedEffect ==
  ASSUME NEW x, NEW rest, Based(x, rest), NEW s \in Streams, NEW chunks \in Seq(1..Chunks),
         NEW w \in Seq(Frames)
  PROVE  /\ FlushedTo(w, x, Flushed(x, s, chunks), rest, s, chunks, Len(chunks))
         /\ chunks = <<>> => Flushed(x, s, chunks) = x
         /\ BufferedAmount(x.out) \in Nat
<1> DEFINE n == Len(chunks)
<1>0. n \in Nat /\ \A i \in 1..n : chunks[i] \in 1..Chunks
  BY ElementsIn
<1>1. PICK g : FlushRun(g, n, x, s, chunks) /\ Flushed(x, s, chunks) = g[n]
  BY <1>0, FlushedRuns
<1>2. g[0] = x /\ \A i \in 0..n : i < n => g[i + 1] = OnData(g[i], s, chunks[i + 1])
  <2>1. \A i \in 0..n : g[i] = IF i = 0 THEN x ELSE OnData(g[i - 1], s, chunks[i])
    BY <1>1 DEF FlushRun
  <2>2. 0 \in 0..n /\ \A i \in 0..n : i < n => i + 1 \in 0..n /\ i + 1 # 0 /\ (i + 1) - 1 = i
    BY <1>0
  <2> QED
    BY <2>1, <2>2
<1>3. BufferedAmount(x.out) \in Nat
  BY <1>0, StateFields, WriteBuffers, FramesMade DEF Based
<1> DEFINE S == {k \in 0..n : FlushedTo(w, x, g[k], rest, s, chunks, k)}
<1>4. 0 \in S
  <2>1. PassedOn(w, x, x, s, 0, 0) /\ \A base \in Nat : PassedOn(w, x, x, s, base, base + 0)
    BY DEF PassedOn
  <2>2. FlushedTo(w, x, g[0], rest, s, chunks, 0)
    BY <2>1, <1>2, <1>3, KeptSame DEF FlushedTo
  <2> QED
    BY <2>2, <1>0
<1>5. ASSUME NEW k \in 0..n, k < n, k \in S PROVE k + 1 \in S
  <2> DEFINE y == g[k]
             c == chunks[k + 1]
             z == OnData(y, s, c)
  <2>1. g[k + 1] = z /\ k + 1 \in 1..n /\ c \in 1..Chunks
    BY <1>0, <1>2, <1>5
  <2>2. FlushedTo(w, x, y, rest, s, chunks, k)
    BY <1>5
  <2> HIDE DEF c, S
  <2>3. Based(y, rest)
    BY <2>2 DEF FlushedTo
  <2> HIDE DEF y
  <2>4. /\ Based(z, rest)
        /\ Kept(w, y, z, s)
        /\ PassedOn(w, y, z, s, c - 1, c)
        /\ BufferedAmount(z.out) = BufferedAmount(y.out) + 1
        /\ z.st[s].wsPaused = (y.st[s].wsPaused \/ BufferedAmount(y.out) + 1 > WsHigh)
    BY <2>1, <2>3, OnDataEffect
  <2> HIDE DEF z
  <2>5. Kept(w, x, z, s)
    BY <2>2, <2>4, KeptTransitive DEF FlushedTo
  <2>6. BufferedAmount(z.out) = BufferedAmount(x.out) + (k + 1)
    BY <2>2, <2>4, <1>3 DEF FlushedTo
  <2>7. z.st[s].wsPaused \/ BufferedAmount(z.out) <= WsHigh
    <3>1. BufferedAmount(y.out) \in Nat
      BY <2>2, <1>3 DEF FlushedTo
    <3>2. CASE BufferedAmount(y.out) + 1 > WsHigh
      BY <3>2, <2>4
    <3>3. CASE ~(BufferedAmount(y.out) + 1 > WsHigh)
      <4>1. BufferedAmount(y.out) + 1 <= WsHigh
        BY <3>1, <3>3, UpFlowAssumption
      <4> QED
        BY <4>1, <2>4
    <3> QED
      BY <3>2, <3>3
  <2>8. ASSUME NEW base \in Nat, NumberedFrom(chunks, base)
        PROVE  PassedOn(w, x, z, s, base, base + (k + 1))
    <3>1. c = base + (k + 1)
      BY <2>1, <2>8 DEF NumberedFrom, c
    <3>2. c - 1 = base + k
      BY <3>1
    <3>3. PassedOn(w, x, y, s, base, base + k)
      BY <2>2, <2>8 DEF FlushedTo
    <3> QED
      BY <3>1, <3>2, <3>3, <2>4, PassedTransitive
  <2>9. FlushedTo(w, x, z, rest, s, chunks, k + 1)
    BY <2>4, <2>5, <2>6, <2>7, <2>8 DEF FlushedTo
  <2> QED
    BY <2>1, <2>9 DEF S
<1> HIDE DEF S
<1>6. 0..n \subseteq S
  BY <1>0, <1>4, <1>5, InductionUpTo
<1>7. n \in S
  BY <1>0, <1>6
<1>8. chunks = <<>> => Flushed(x, s, chunks) = x
  BY <1>1, <1>2
<1> QED
  BY <1>1, <1>3, <1>7, <1>8 DEF S
-----------------------------------------------------------------------------
(* Room in the client's WebSocket.                                         *)

OwnRoom(s) == IF s \in Direct THEN 1 ELSE MaxDestBuffer

\* There is the high-water mark at least, and more for every throttled stream.
LEMMA RoomGrows ==
  ASSUME NEW P \in SUBSET Streams, NEW s \in Streams, s \notin P
  PROVE  /\ RoomOf(P) \in Nat /\ WsHigh <= RoomOf(P)
         /\ OwnRoom(s) \in Nat \ {0}
         /\ RoomOf(P \cup {s}) = RoomOf(P) + OwnRoom(s)
<1>1. /\ IsFiniteSet(P \cap Direct) /\ IsFiniteSet(P \ Direct)
      /\ MaxDestBuffer \in Nat \ {0} /\ WsHigh \in Nat
  BY UpFlowAssumption, FS_Subset
<1>2. Cardinality(P \cap Direct) \in Nat /\ Cardinality(P \ Direct) \in Nat
  BY <1>1, FS_CardinalityType
<1> DEFINE a == Cardinality(P \cap Direct)
           b == Cardinality(P \ Direct)
<1>3. b * MaxDestBuffer \in Nat
  BY <1>1, <1>2
<1>4. RoomOf(P) \in Nat /\ WsHigh <= RoomOf(P)
  BY <1>1, <1>2, <1>3 DEF RoomOf
<1>5. CASE s \in Direct
  <2>1. (P \cup {s}) \cap Direct = (P \cap Direct) \cup {s} /\ (P \cup {s}) \ Direct = P \ Direct
    BY <1>5
  <2>2. Cardinality((P \cup {s}) \cap Direct) = a + 1
    BY <2>1, <1>1, FS_AddElement
  <2>3. RoomOf(P \cup {s}) = WsHigh + (a + 1) + b * MaxDestBuffer
    BY <2>1, <2>2 DEF RoomOf
  <2>4. RoomOf(P) = WsHigh + a + b * MaxDestBuffer
    BY DEF RoomOf
  <2> DEFINE c == b * MaxDestBuffer
  <2> HIDE DEF a, b, c
  <2>5. WsHigh + (a + 1) + c = (WsHigh + a + c) + 1
    BY <1>1, <1>2, <1>3 DEF a, b, c
  <2>6. RoomOf(P \cup {s}) = RoomOf(P) + 1
    BY <2>3, <2>4, <2>5 DEF c
  <2>7. OwnRoom(s) = 1
    BY <1>5 DEF OwnRoom
  <2> QED
    BY <2>6, <2>7, <1>4
<1>6. CASE s \notin Direct
  <2>1. (P \cup {s}) \cap Direct = P \cap Direct /\ (P \cup {s}) \ Direct = (P \ Direct) \cup {s}
    BY <1>6
  <2>2. Cardinality((P \cup {s}) \ Direct) = b + 1
    BY <2>1, <1>1, FS_AddElement
  <2>3. \A c, m \in Nat : (c + 1) * m = c * m + m
    OBVIOUS
  <2>4. (b + 1) * MaxDestBuffer = b * MaxDestBuffer + MaxDestBuffer
    BY <2>3, <1>1, <1>2
  <2>5. RoomOf(P \cup {s}) = WsHigh + a + (b * MaxDestBuffer + MaxDestBuffer)
    BY <2>1, <2>2, <2>4 DEF RoomOf
  <2>6. RoomOf(P) = WsHigh + a + b * MaxDestBuffer
    BY DEF RoomOf
  <2> HIDE DEF a, b
  <2>7. a \in Nat /\ b * MaxDestBuffer \in Nat
    BY <1>2, <1>3 DEF a, b
  <2> DEFINE c == b * MaxDestBuffer
  <2> HIDE DEF c
  <2>8. WsHigh + a + (c + MaxDestBuffer) = (WsHigh + a + c) + MaxDestBuffer
    BY <2>7, <1>1 DEF c
  <2>9. RoomOf(P \cup {s}) = RoomOf(P) + MaxDestBuffer
    BY <2>5, <2>6, <2>8 DEF c
  <2>10. OwnRoom(s) = MaxDestBuffer
    BY <1>6 DEF OwnRoom
  <2> QED
    BY <2>9, <2>10, <1>1, <1>4
<1> QED
  BY <1>5, <1>6

\* Taking a stream out leaves the high-water mark.
LEMMA RoomLeast ==
  ASSUME NEW P \in SUBSET Streams
  PROVE  RoomOf(P) \in Nat /\ WsHigh <= RoomOf(P)
<1>1. /\ IsFiniteSet(P \cap Direct) /\ IsFiniteSet(P \ Direct)
      /\ MaxDestBuffer \in Nat \ {0} /\ WsHigh \in Nat
  BY UpFlowAssumption, FS_Subset
<1>2. Cardinality(P \cap Direct) \in Nat /\ Cardinality(P \ Direct) \in Nat
  BY <1>1, FS_CardinalityType
<1>3. Cardinality(P \ Direct) * MaxDestBuffer \in Nat
  BY <1>1, <1>2
<1> QED
  BY <1>1, <1>2, <1>3 DEF RoomOf

\* A step that adds k chunks of a stream fits, if it throttles the stream or
\* stays below the mark.
LEMMA RoomForMore ==
  ASSUME NEW x, NEW y, NEW s \in Streams, NEW w, NEW k \in Nat, NEW a \in Nat,
         x \in RelayStates, y \in RelayStates, OthersKeep(w, x, y, s),
         BufferedAmount(x.out) = a, BufferedAmount(y.out) = a + k,
         ~x.st[s].wsPaused, k <= OwnRoom(s), Fits(x.st, x.out),
         k = 0 \/ y.st[s].wsPaused \/ a + k <= WsHigh
  PROVE  Fits(y.st, y.out)
<1> DEFINE P == ThrottledIn(x.st)
           Q == ThrottledIn(y.st)
<1>1. s \notin P /\ P \in SUBSET Streams /\ Q \in SUBSET Streams
  BY DEF ThrottledIn
<1>2. Q = IF y.st[s].wsPaused THEN P \cup {s} ELSE P
  BY DEF ThrottledIn, OthersKeep
<1>3. a <= RoomOf(P)
  BY DEF Fits
<1> HIDE DEF P, Q
<1>4. /\ RoomOf(P) \in Nat /\ OwnRoom(s) \in Nat /\ WsHigh <= RoomOf(Q)
      /\ RoomOf(P \cup {s}) = RoomOf(P) + OwnRoom(s) /\ RoomOf(Q) \in Nat /\ WsHigh \in Nat
  BY <1>1, RoomGrows, RoomLeast, UpFlowAssumption
<1>5. CASE y.st[s].wsPaused
  <2>1. RoomOf(Q) = RoomOf(P) + OwnRoom(s)
    BY <1>2, <1>4, <1>5
  <2> QED
    BY <2>1, <1>3, <1>4 DEF Fits, Q
<1>6. CASE ~y.st[s].wsPaused /\ k = 0
  <2>1. Q = P
    BY <1>2, <1>6
  <2> QED
    BY <2>1, <1>3, <1>6 DEF Fits, Q
<1>7. CASE a + k <= WsHigh
  BY <1>4, <1>7 DEF Fits, Q
<1> QED
  BY <1>5, <1>6, <1>7

-----------------------------------------------------------------------------
(* socket.resume() and syncSocketReadState.                                *)

\* How a stream's data goes on in a handler that passes nothing new on.
Flows(w, x, y, s) ==
    \A lo \in Nat, n \in Nat :
        Carries(PathOf(w, x.out), s, lo, n) /\ NumberedFrom(x.st[s].buffered, n) =>
            \E m \in Nat :
                /\ Carries(PathOf(w, y.out), s, lo, m)
                /\ NumberedFrom(y.st[s].buffered, m)
                /\ m + Len(y.st[s].buffered) = n + Len(x.st[s].buffered)

Follows(w, x, y, s) ==
    /\ y.st[s].live = x.st[s].live /\ y.st[s].peerPaused = x.st[s].peerPaused
    /\ Heard(x, y, s)
    /\ Flows(w, x, y, s)
    /\ \A r \in BOOLEAN : EndsOnce(PathOf(w, x.out), s, x.st[s].live, r) =>
                          EndsOnce(PathOf(w, y.out), s, y.st[s].live, r)

\* Streams that keep their records and their frames follow.
LEMMA OthersFollow ==
  ASSUME NEW w, NEW x, NEW y, NEW s, NEW t \in Streams, OthersKeep(w, x, y, s), t # s
  PROVE  Follows(w, x, y, t)
<1>1. y.st[t] = x.st[t]
  BY DEF OthersKeep
<1>2. Heard(x, y, t)
  BY <1>1 DEF OthersKeep, ToldKeeps, Heard, Tells
<1>3. Flows(w, x, y, t)
  BY <1>1 DEF OthersKeep, PathKeeps, Flows
<1>4. \A r \in BOOLEAN : EndsOnce(PathOf(w, x.out), t, x.st[t].live, r) =>
                         EndsOnce(PathOf(w, y.out), t, y.st[t].live, r)
  BY <1>1 DEF OthersKeep, PathKeeps
<1> QED
  BY <1>1, <1>2, <1>3, <1>4 DEF Follows

LEMMA FollowsSame ==
  ASSUME NEW w, NEW x, NEW s
  PROVE  Follows(w, x, x, s)
<1>1. Heard(x, x, s)
  BY HeardSame
<1>2. Flows(w, x, x, s)
  BY DEF Flows
<1> QED
  BY <1>1, <1>2 DEF Follows

LEMMA FollowsTransitive ==
  ASSUME NEW w, NEW x, NEW y, NEW z, NEW s, Follows(w, x, y, s), Follows(w, y, z, s)
  PROVE  Follows(w, x, z, s)
<1>1. Heard(x, z, s)
  BY HeardTransitive DEF Follows
<1>2. Flows(w, x, z, s)
  <2> SUFFICES ASSUME NEW lo \in Nat, NEW n \in Nat,
                      Carries(PathOf(w, x.out), s, lo, n), NumberedFrom(x.st[s].buffered, n)
               PROVE  \E m \in Nat :
                          /\ Carries(PathOf(w, z.out), s, lo, m)
                          /\ NumberedFrom(z.st[s].buffered, m)
                          /\ m + Len(z.st[s].buffered) = n + Len(x.st[s].buffered)
    BY DEF Flows
  <2>1. PICK m \in Nat : /\ Carries(PathOf(w, y.out), s, lo, m)
                         /\ NumberedFrom(y.st[s].buffered, m)
                         /\ m + Len(y.st[s].buffered) = n + Len(x.st[s].buffered)
    BY DEF Follows, Flows
  <2>2. PICK o \in Nat : /\ Carries(PathOf(w, z.out), s, lo, o)
                         /\ NumberedFrom(z.st[s].buffered, o)
                         /\ o + Len(z.st[s].buffered) = m + Len(y.st[s].buffered)
    BY <2>1 DEF Follows, Flows
  <2> QED
    BY <2>1, <2>2
<1>3. \A r \in BOOLEAN : EndsOnce(PathOf(w, x.out), s, x.st[s].live, r) =>
                         EndsOnce(PathOf(w, z.out), s, z.st[s].live, r)
  BY DEF Follows
<1> QED
  BY <1>1, <1>2, <1>3 DEF Follows
\* A handler changes one stream's record.
Replace(x, s, r) == [x EXCEPT !.st[s] = r]

LEMMA ReplaceEffect ==
  ASSUME NEW x, NEW rest, Based(x, rest), NEW s \in Streams, NEW r \in RelayRec, NEW w,
         r.pending = x.st[s].pending
  PROVE  /\ Based(Replace(x, s, r), rest)
         /\ Replace(x, s, r).st[s] = r
         /\ Replace(x, s, r).toAgent = x.toAgent /\ Replace(x, s, r).out = x.out
         /\ OthersKeep(w, x, Replace(x, s, r), s)
<1> DEFINE y == Replace(x, s, r)
<1>0. x \in RelayStates
  BY DEF Based
<1>1. x.st \in [Streams -> RelayRec]
  BY <1>0, StateFields
<1>3. y.st = [x.st EXCEPT ![s] = r] /\ y.out = x.out /\ y.toAgent = x.toAgent
  BY <1>0 DEF RelayStates, Replace
<1>4. y \in RelayStates
  BY <1>0, <1>1 DEF RelayStates, Replace
<1> HIDE DEF y
<1>5. y.st[s] = r /\ \A t \in Streams : t # s => y.st[t] = x.st[t]
  BY <1>1, <1>3
<1>9. \A t \in Streams : y.st[t].pending = x.st[t].pending
  BY <1>5
<1>10. y.out = x.out
  BY <1>3
<1>7. Based(y, rest)
  BY <1>4, <1>9, <1>10, BasedKept
<1>8. OthersKeep(w, x, y, s)
  BY <1>3, <1>5, KeepsSame DEF OthersKeep
<1> QED
  BY <1>3, <1>5, <1>7, <1>8 DEF y

Emptied(r) == [r EXCEPT !.paused = FALSE, !.buffered = <<>>]

LEMMA EmptiedFields ==
  ASSUME NEW r \in RelayRec
  PROVE  /\ Emptied(r) \in RelayRec
         /\ Emptied(r).paused = FALSE /\ Emptied(r).buffered = <<>>
         /\ Emptied(r).live = r.live /\ Emptied(r).peerPaused = r.peerPaused
         /\ Emptied(r).wsPaused = r.wsPaused /\ Emptied(r).pending = r.pending
<1>1. <<>> \in Seq(1..Chunks)
  OBVIOUS
<1> QED
  BY <1>1 DEF Emptied, RelayRec

\* What syncSocketReadState leaves.
Synced(w, x, y, rest, s) ==
    /\ Based(y, rest)
    /\ Agreed(y.st[s]) /\ Stored(y.st[s], s)
    /\ OthersKeep(w, x, y, s)
    /\ Follows(w, x, y, s)
    /\ Fits(y.st, y.out)

LEMMA EmptyNumbered ==
  ASSUME NEW m \in Nat
  PROVE  NumberedFrom(<<>>, m) /\ m + Len(<<>>) = m
BY DEF NumberedFrom

LEMMA ResumeEffect ==
  ASSUME NEW x, NEW rest, Based(x, rest), NEW s \in Streams, NEW w \in Seq(Frames),
         x.st[s].live, ~x.st[s].peerPaused, ~x.st[s].wsPaused, Stored(x.st[s], s),
         Fits(x.st, x.out)
  PROVE  Synced(w, x, Resume(x, s), rest, s)
<1>0. x \in RelayStates
  BY DEF Based
<1>1. x.st \in [Streams -> RelayRec] /\ x.st[s] \in RelayRec
  BY <1>0, StateFields
<1>2. CASE ~x.st[s].paused
  <2>1. Resume(x, s) = x
    BY <1>2 DEF Resume
  <2>2. Agreed(x.st[s])
    BY <1>1, <1>2 DEF Agreed, RelayRec
  <2>3. OthersKeep(w, x, x, s)
    BY KeepsSame DEF OthersKeep
  <2> QED
    BY <2>1, <2>2, <2>3, FollowsSame DEF Synced
<1>3. CASE x.st[s].paused
  <2> DEFINE r == Emptied(x.st[s])
             u == Replace(x, s, r)
             chunks == x.st[s].buffered
             v == Flushed(u, s, chunks)
             z == TellAgent(v, "RESUME", s)
  <2>1. Resume(x, s) = z
    <3>1. [x EXCEPT !.st[s].paused = FALSE, !.st[s].buffered = <<>>] = u
      BY <1>0, <1>1 DEF Replace, Emptied, RelayStates
    <3> HIDE DEF u
    <3> QED
      BY <3>1, <1>3 DEF Resume
  <2>2. /\ r \in RelayRec /\ r.paused = FALSE /\ r.buffered = <<>>
        /\ r.live = x.st[s].live /\ r.peerPaused = x.st[s].peerPaused
        /\ r.wsPaused = x.st[s].wsPaused /\ r.pending = x.st[s].pending
    BY <1>1, EmptiedFields
  <2> HIDE DEF r
  <2>3. /\ Based(u, rest) /\ u.st[s] = r /\ u.toAgent = x.toAgent /\ u.out = x.out
        /\ OthersKeep(w, x, u, s)
    BY <2>2, ReplaceEffect
  <2>4. chunks \in Seq(1..Chunks) /\ Len(chunks) \in Nat
    BY <1>1 DEF RelayRec
  <2> HIDE DEF u, chunks
  <2>5. /\ FlushedTo(w, u, v, rest, s, chunks, Len(chunks))
        /\ BufferedAmount(u.out) \in Nat
    BY <2>3, <2>4, FlushedEffect
  <2> HIDE DEF v
  <2>6. /\ Based(v, rest) /\ Kept(w, u, v, s) /\ v \in RelayStates
        /\ BufferedAmount(v.out) = BufferedAmount(u.out) + Len(chunks)
        /\ Len(chunks) = 0 \/ v.st[s].wsPaused \/ BufferedAmount(v.out) <= WsHigh
        /\ \A base \in Nat : NumberedFrom(chunks, base) =>
                             PassedOn(w, u, v, s, base, base + Len(chunks))
    BY <2>5 DEF FlushedTo, Based
  <2>7. z \in RelayStates /\ z.st = v.st /\ z.out = v.out /\ OthersKeep(w, v, z, s)
    BY <2>6, TellAgentFields, TellAgentKeeps
  <2>8. z.st[s].paused \in BOOLEAN /\ z.st[s] \in RelayRec
    BY <2>7, StateFields DEF RelayRec
  <2>9. s \notin Direct => \A was : Tells(z.toAgent, s, was, z.st[s].paused)
    BY <2>6, <2>8, TellAgentTells
  <2> HIDE DEF z
  <2>10. Heard(x, z, s)
    BY <2>9 DEF Heard
  <2>11. OthersKeep(w, x, z, s)
    <3>1. OthersKeep(w, x, v, s)
      BY <2>3, <2>6, KeepsTransitive DEF Kept
    <3> QED
      BY <3>1, <2>7, KeepsTransitive
  <2>12. Based(z, rest)
    BY <2>6, <2>7, BasedKept
  <2>13. z.st[s].buffered = <<>> /\ z.st[s].live = x.st[s].live
         /\ z.st[s].peerPaused = x.st[s].peerPaused
    BY <2>2, <2>3, <2>6, <2>7 DEF Kept, SameRecord
  <2>14. Agreed(z.st[s])
    <3>1. Agreed(u.st[s])
      BY <2>2, <2>3 DEF Agreed
    <3> QED
      BY <3>1, <2>6, <2>7 DEF Kept
  <2>15. Stored(z.st[s], s)
    <3>1. Len(z.st[s].buffered) = 0
      BY <2>13
    <3> QED
      BY <3>1, <2>13, UpFlowAssumption DEF Stored
  <2>16. Flows(w, x, z, s)
    <3> SUFFICES ASSUME NEW lo \in Nat, NEW n \in Nat,
                        Carries(PathOf(w, x.out), s, lo, n), NumberedFrom(chunks, n)
                 PROVE  \E m \in Nat :
                            /\ Carries(PathOf(w, z.out), s, lo, m)
                            /\ NumberedFrom(z.st[s].buffered, m)
                            /\ m + Len(z.st[s].buffered) = n + Len(chunks)
      BY DEF Flows, chunks
    <3> DEFINE m == n + Len(chunks)
    <3>1. m \in Nat
      BY <2>4
    <3>2. Carries(PathOf(w, v.out), s, lo, m)
      BY <2>3, <2>6 DEF PassedOn
    <3> HIDE DEF m
    <3>3. NumberedFrom(z.st[s].buffered, m) /\ m + Len(z.st[s].buffered) = m
      BY <3>1, <2>13, EmptyNumbered
    <3> QED
      BY <3>1, <3>2, <3>3, <2>7 DEF m
  <2>17. \A b \in BOOLEAN : EndsOnce(PathOf(w, x.out), s, x.st[s].live, b) =>
                            EndsOnce(PathOf(w, z.out), s, z.st[s].live, b)
    <3>1. x.st[s].live = TRUE /\ z.st[s].live = TRUE
      BY <1>1, <2>13 DEF RelayRec
    <3>2. StillWrites(w, u, v, s)
      BY <2>6 DEF Kept
    <3> QED
      BY <3>1, <3>2, <2>3, <2>7 DEF StillWrites
  <2>18. Follows(w, x, z, s)
    BY <2>10, <2>13, <2>16, <2>17 DEF Follows
  <2>19. Fits(v.st, v.out)
    <3>1. ThrottledIn(u.st) = ThrottledIn(x.st)
      BY <2>2, <2>3 DEF ThrottledIn, OthersKeep
    <3>2. Fits(u.st, u.out)
      BY <3>1, <2>3 DEF Fits
    <3>3. Len(chunks) <= OwnRoom(s)
      <4>1. CASE s \in Direct
        <5>1. chunks = <<>>
          BY <4>1 DEF Stored, chunks
        <5>2. Len(chunks) = 0
          BY <5>1
        <5> QED
          BY <4>1, <5>2 DEF OwnRoom
      <4>2. CASE s \notin Direct
        BY <4>2 DEF OwnRoom, Stored, chunks
      <4> QED
        BY <4>1, <4>2
    <3>4. u \in RelayStates /\ OthersKeep(w, u, v, s) /\ ~u.st[s].wsPaused
      BY <2>2, <2>3, <2>6 DEF Based, Kept
    <3>5. Len(chunks) = 0 \/ v.st[s].wsPaused \/ BufferedAmount(u.out) + Len(chunks) <= WsHigh
      BY <2>6
    <3> QED
      BY <3>2, <3>3, <3>4, <3>5, <2>4, <2>5, <2>6, RoomForMore
  <2> QED
    BY <2>1, <2>7, <2>11, <2>12, <2>14, <2>15, <2>18, <2>19 DEF Synced
<1> QED
  BY <1>2, <1>3
LEMMA SyncEffect ==
  ASSUME NEW x, NEW rest, Based(x, rest), NEW s \in Streams, NEW w \in Seq(Frames),
         x.st[s].live, Stored(x.st[s], s), Fits(x.st, x.out)
  PROVE  Synced(w, x, SyncSocketReadState(x, s), rest, s)
<1> DEFINE y == Pause(x, s)
<1>0. x \in RelayStates
  BY DEF Based
<1>1. x.st[s] \in RelayRec
  BY <1>0, StateFields
<1>2. CASE ~(x.st[s].peerPaused \/ x.st[s].wsPaused)
  BY <1>2, ResumeEffect DEF SyncSocketReadState
<1>3. CASE x.st[s].peerPaused \/ x.st[s].wsPaused
  <2>1. SyncSocketReadState(x, s) = y
    BY <1>3 DEF SyncSocketReadState
  <2>2. /\ y \in RelayStates /\ y.out = x.out /\ y.st[s] = Parked(x.st[s])
        /\ OthersKeep(w, x, y, s) /\ Heard(x, y, s)
    BY <1>0, PauseEffect
  <2>3. /\ y.st[s].paused = TRUE /\ SameRecord(x.st[s], y.st[s])
        /\ y.st[s].wsPaused = x.st[s].wsPaused /\ y.st[s].pending = x.st[s].pending
    BY <1>1, <2>2, ParkedFields
  <2> HIDE DEF y
  <2>4. \A t \in Streams : y.st[t].pending = x.st[t].pending
    BY <2>2, <2>3 DEF OthersKeep
  <2>5. Based(y, rest)
    BY <2>2, <2>4, BasedKept
  <2>6. Agreed(y.st[s])
    BY <1>3, <2>3 DEF Agreed, SameRecord
  <2>7. Stored(y.st[s], s)
    BY <2>3 DEF Stored, SameRecord
  <2>8. Flows(w, x, y, s)
    BY <2>2, <2>3 DEF Flows, SameRecord
  <2>9. Follows(w, x, y, s)
    BY <2>2, <2>3, <2>8 DEF Follows, SameRecord
  <2>10. ThrottledIn(y.st) = ThrottledIn(x.st)
    BY <2>2, <2>3 DEF ThrottledIn, OthersKeep
  <2>11. Fits(y.st, y.out)
    BY <2>2, <2>10 DEF Fits
  <2> QED
    BY <2>1, <2>2, <2>5, <2>6, <2>7, <2>9, <2>11 DEF Synced
<1> QED
  BY <1>2, <1>3

-----------------------------------------------------------------------------
(* The send callbacks.                                                     *)

\* what holds of the relay between two handlers
Good(x, rest) ==
    /\ Based(x, rest)
    /\ \A t \in Streams : Agreed(x.st[t]) /\ Stored(x.st[t], t)
    /\ Fits(x.st, x.out)

\* Once its stream is synchronized, the others being left alone, it holds again.
LEMMA GoodAfter ==
  ASSUME NEW x, NEW y, NEW rest, NEW s \in Streams, NEW w,
         Synced(w, x, y, rest, s),
         \A t \in Streams : t # s => Agreed(x.st[t]) /\ Stored(x.st[t], t)
  PROVE  Good(y, rest) /\ \A t \in Streams : Follows(w, x, y, t)
<1>1. ASSUME NEW t \in Streams PROVE Agreed(y.st[t]) /\ Stored(y.st[t], t)
  BY DEF Synced, OthersKeep
<1>2. ASSUME NEW t \in Streams PROVE Follows(w, x, y, t)
  <2>1. CASE t = s
    BY <2>1 DEF Synced
  <2>2. CASE t # s
    BY <2>2, OthersFollow DEF Synced
  <2> QED
    BY <2>1, <2>2
<1> QED
  BY <1>1, <1>2 DEF Good, Synced

OneLess(r) == [r EXCEPT !.pending = @ - 1]
Awake(r)   == [r EXCEPT !.wsPaused = FALSE]

LEMMA OneLessFields ==
  ASSUME NEW r \in RelayRec, r.pending > 0
  PROVE  /\ OneLess(r) \in RelayRec /\ OneLess(r).pending = r.pending - 1
         /\ SameRecord(r, OneLess(r))
         /\ OneLess(r).wsPaused = r.wsPaused /\ OneLess(r).paused = r.paused
<1>1. r.pending \in Nat /\ r.pending - 1 \in Nat
  BY DEF RelayRec
<1> QED
  BY <1>1 DEF OneLess, RelayRec, SameRecord

LEMMA AwakeFields ==
  ASSUME NEW r \in RelayRec
  PROVE  /\ Awake(r) \in RelayRec /\ Awake(r).pending = r.pending
         /\ SameRecord(r, Awake(r))
         /\ Awake(r).wsPaused = FALSE /\ Awake(r).paused = r.paused
BY DEF Awake, RelayRec, SameRecord

Called1(rest, s) == [rest EXCEPT ![s] = @ - 1]

\* One pending send less.
LEMMA OneLessEffect ==
  ASSUME NEW x, NEW rest, Good(x, rest), NEW s \in Streams, rest[s] > 0, NEW w
  PROVE  LET y == Replace(x, s, OneLess(x.st[s]))
         IN  /\ Good(y, Called1(rest, s))
             /\ y.st[s] = OneLess(x.st[s]) /\ SameRecord(x.st[s], y.st[s])
             /\ y.st[s].wsPaused = x.st[s].wsPaused
             /\ y.out = x.out
             /\ \A t \in Streams : Follows(w, x, y, t)
<1> DEFINE r == OneLess(x.st[s])
           y == Replace(x, s, r)
           less == Called1(rest, s)
<1>0. /\ x \in RelayStates /\ rest \in [Streams -> Nat] /\ NoIdleWaiting(x.out)
      /\ \A t \in Streams : x.st[t].pending = HeldOf(x.out, t) + rest[t]
  BY DEF Good, Based
<1>1. /\ x.st \in [Streams -> RelayRec] /\ x.st[s] \in RelayRec
      /\ \A t \in Streams : HeldOf(x.out, t) \in Nat
  BY <1>0, StateFields, HeldOfWritten
<1>2. x.st[s].pending > 0
  BY <1>0, <1>1
<1>3. /\ r \in RelayRec /\ r.pending = x.st[s].pending - 1 /\ SameRecord(x.st[s], r)
      /\ r.wsPaused = x.st[s].wsPaused /\ r.paused = x.st[s].paused
  BY <1>1, <1>2, OneLessFields
<1> HIDE DEF r
<1>4. y.st = [x.st EXCEPT ![s] = r] /\ y.out = x.out /\ y.toAgent = x.toAgent
  BY <1>0 DEF RelayStates, Replace
<1>5. y \in RelayStates
  BY <1>0, <1>1, <1>3 DEF RelayStates, Replace
<1> HIDE DEF y
<1>6. y.st[s] = r /\ \A t \in Streams : t # s => y.st[t] = x.st[t]
  BY <1>1, <1>4
<1>7. less \in [Streams -> Nat] /\ less[s] = rest[s] - 1 /\ \A t \in Streams : t # s => less[t] = rest[t]
  BY <1>0 DEF Called1
<1> HIDE DEF less
<1>8. Based(y, less)
  <2>1. \A t \in Streams : t # s => y.st[t].pending = HeldOf(y.out, t) + less[t]
    BY <1>0, <1>4, <1>6, <1>7
  <2>2. y.st[s].pending = HeldOf(y.out, s) + less[s]
    <3>1. \A a \in Nat, b \in Nat : (a + b) - 1 = a + (b - 1)
      OBVIOUS
    <3>2. rest[s] \in Nat /\ HeldOf(x.out, s) \in Nat
      BY <1>0, <1>1
    <3>3. (HeldOf(x.out, s) + rest[s]) - 1 = HeldOf(x.out, s) + (rest[s] - 1)
      BY <3>1, <3>2
    <3> QED
      BY <3>3, <1>0, <1>3, <1>4, <1>6, <1>7
  <2> QED
    BY <2>1, <2>2, <1>0, <1>4, <1>5, <1>7 DEF Based
<1>9. ASSUME NEW t \in Streams PROVE Agreed(y.st[t]) /\ Stored(y.st[t], t)
  BY <1>3, <1>6 DEF Good, Agreed, Stored, SameRecord
<1>10. Fits(y.st, y.out)
  <2>1. ThrottledIn(y.st) = ThrottledIn(x.st)
    BY <1>3, <1>6 DEF ThrottledIn
  <2> QED
    BY <2>1, <1>4 DEF Fits, Good
<1>11. ASSUME NEW t \in Streams PROVE Follows(w, x, y, t)
  <2>1. /\ y.st[t].live = x.st[t].live /\ y.st[t].peerPaused = x.st[t].peerPaused
        /\ y.st[t].buffered = x.st[t].buffered /\ y.st[t].paused = x.st[t].paused
    BY <1>3, <1>6 DEF SameRecord
  <2>2. Heard(x, y, t)
    BY <2>1, <1>4, HeardSame
  <2>3. Flows(w, x, y, t)
    BY <2>1, <1>4 DEF Flows
  <2> QED
    BY <2>1, <2>2, <2>3, <1>4 DEF Follows
<1>12. Good(y, less)
  BY <1>8, <1>9, <1>10 DEF Good
<1> QED
  BY <1>3, <1>4, <1>6, <1>11, <1>12 DEF r, y, less

\* what is left to do once the pending send is counted
CalledBack(y, s) ==
    IF y.st[s].live /\ y.st[s].wsPaused /\ y.st[s].pending = 0 /\ BufferedAmount(y.out) <= WsLow
    THEN SyncSocketReadState([y EXCEPT !.st[s].wsPaused = FALSE], s)
    ELSE y

\* A callback counts its frame, and resumes the socket once its stream's last
\* frame is sent and the WebSocket is below the low-water mark.
LEMMA SendCallbackEffect ==
  ASSUME NEW x, NEW rest, Good(x, rest), NEW f \in Frames, NEW w \in Seq(Frames),
         IsData(f) => rest[f.stream] > 0
  PROVE  /\ Good(SendCallback(x, f), IF IsData(f) THEN Called1(rest, f.stream) ELSE rest)
         /\ \A t \in Streams : Follows(w, x, SendCallback(x, f), t)
<1> DEFINE s == f.stream
           y == Replace(x, s, OneLess(x.st[s]))
           less == Called1(rest, s)
           wake == /\ y.st[s].live /\ y.st[s].wsPaused /\ y.st[s].pending = 0
                   /\ BufferedAmount(y.out) <= WsLow
           u == Replace(y, s, Awake(y.st[s]))
           z == SyncSocketReadState(u, s)
<1>0. s \in Streams
  BY FramesMade
<1>1. CASE ~IsData(f)
  BY <1>1, FollowsSame DEF SendCallback
<1>2. CASE IsData(f)
  <2>1. SendCallback(x, f) = IF wake THEN z ELSE y
    <3>1. x \in RelayStates
      BY DEF Good, Based
    <3>2. [x EXCEPT !.st[s].pending = @ - 1] = y
      BY <3>1 DEF Replace, OneLess, RelayStates
    <3>3. Based(y, less)
      BY <1>0, <1>2, OneLessEffect DEF Good
    <3>6. SendCallback(x, f) = CalledBack([x EXCEPT !.st[s].pending = @ - 1], s)
      BY <1>2 DEF SendCallback, CalledBack
    <3> HIDE DEF y, s
    <3>4. y \in RelayStates
      BY <3>3 DEF Based
    <3>5. [y EXCEPT !.st[s].wsPaused = FALSE] = u
      BY <3>4 DEF Replace, Awake, RelayStates
    <3> HIDE DEF u
    <3>7. CalledBack(y, s) = IF wake THEN z ELSE y
      BY <3>5 DEF CalledBack
    <3> QED
      BY <3>2, <3>6, <3>7
  <2> HIDE DEF s
  <2>2. /\ Good(y, less) /\ y.out = x.out
        /\ \A t \in Streams : Follows(w, x, y, t)
    BY <1>0, <1>2, OneLessEffect DEF s
  <2> HIDE DEF y
  <2>3. CASE ~wake
    BY <2>1, <2>2, <2>3, <1>2 DEF s, less
  <2>4. CASE wake
    <3>1. Based(y, less) /\ y \in RelayStates /\ y.st[s] \in RelayRec
      BY <2>2, <1>0, StateFields DEF Good, Based
    <3>2. /\ Awake(y.st[s]) \in RelayRec /\ Awake(y.st[s]).pending = y.st[s].pending
          /\ SameRecord(y.st[s], Awake(y.st[s])) /\ Awake(y.st[s]).wsPaused = FALSE
          /\ Awake(y.st[s]).paused = y.st[s].paused
      BY <3>1, AwakeFields
    <3> DEFINE r == Awake(y.st[s])
    <3> HIDE DEF r
    <3>3. /\ Based(u, less) /\ u.st[s] = r /\ u.toAgent = y.toAgent /\ u.out = y.out
          /\ OthersKeep(w, y, u, s)
      BY <1>0, <3>1, <3>2, ReplaceEffect DEF r
    <3> HIDE DEF u
    <3>4. u.st[s].live /\ Stored(u.st[s], s)
      BY <1>0, <2>2, <2>4, <3>2, <3>3 DEF Good, Stored, SameRecord, r
    <3>5. Fits(u.st, u.out)
      <4>1. ThrottledIn(u.st) \in SUBSET Streams
        BY DEF ThrottledIn
      <4>2. RoomOf(ThrottledIn(u.st)) \in Nat /\ WsHigh <= RoomOf(ThrottledIn(u.st))
        BY <4>1, RoomLeast
      <4>3. BufferedAmount(u.out) \in Nat
        <5>1. u.out \in SenderOf(Frames) /\ NoIdleWaiting(u.out)
          BY <3>3, StateFields DEF Based
        <5> QED
          BY <5>1, WriteBuffers
      <4> QED
        BY <4>2, <4>3, <2>4, <3>3, UpFlowAssumption DEF Fits
    <3>6. Synced(w, u, z, less, s)
      BY <1>0, <3>3, <3>4, <3>5, SyncEffect
    <3> HIDE DEF z
    <3>7. \A t \in Streams : t # s => Agreed(u.st[t]) /\ Stored(u.st[t], t)
      BY <2>2, <3>3 DEF Good, OthersKeep
    <3>8. Good(z, less) /\ \A t \in Streams : Follows(w, u, z, t)
      BY <1>0, <3>6, <3>7, GoodAfter
    <3>9. ASSUME NEW t \in Streams PROVE Follows(w, y, u, t)
      <4>1. CASE t # s
        BY <3>3, <4>1, OthersFollow
      <4>2. CASE t = s
        <5>1. SameRecord(y.st[t], u.st[t]) /\ u.st[t].paused = y.st[t].paused
          BY <3>2, <3>3, <4>2 DEF r
        <5>2. Heard(y, u, t)
          BY <5>1, <3>3, HeardSame
        <5>3. Flows(w, y, u, t)
          BY <5>1, <3>3 DEF Flows, SameRecord
        <5> QED
          BY <5>1, <5>2, <5>3, <3>3 DEF Follows, SameRecord
      <4> QED
        BY <4>1, <4>2
    <3>10. ASSUME NEW t \in Streams PROVE Follows(w, x, z, t)
      <4>1. Follows(w, x, u, t)
        BY <2>2, <3>9, FollowsTransitive
      <4> QED
        BY <4>1, <3>8, FollowsTransitive
    <3> QED
      BY <2>1, <2>4, <3>8, <3>10, <1>2 DEF s, less
  <2> QED
    BY <2>3, <2>4
<1> QED
  BY <1>1, <1>2
-----------------------------------------------------------------------------
(* The send callbacks of a batch, in order.                                *)

\* g[i] is the relay's state after i of them.
CallRun(g, n, x, batch) ==
    g = [i \in 0..n |-> IF i = 0 THEN x ELSE SendCallback(g[i - 1], batch[i])]

LEMMA CallRuns ==
  ASSUME NEW x, NEW batch, Len(batch) \in Nat
  PROVE  \A n \in 0..Len(batch) : \E g : CallRun(g, n, x, batch)
<1> DEFINE S == {n \in 0..Len(batch) : \E g : CallRun(g, n, x, batch)}
<1>1. 0 \in S
  <2> DEFINE g == [i \in 0..0 |-> x]
  <2>1. g = [i \in 0..0 |-> IF i = 0 THEN x ELSE SendCallback(g[i - 1], batch[i])]
    OBVIOUS
  <2>2. CallRun(g, 0, x, batch)
    BY <2>1 DEF CallRun
  <2> QED
    BY <2>2
<1>2. ASSUME NEW k \in 0..Len(batch), k < Len(batch), k \in S PROVE k + 1 \in S
  <2>1. PICK g : CallRun(g, k, x, batch)
    BY <1>2
  <2> DEFINE y == SendCallback(g[k], batch[k + 1])
             h == [i \in 0..(k + 1) |-> IF i = k + 1 THEN y ELSE g[i]]
  <2>2. ASSUME NEW i \in 0..(k + 1), i # k + 1
        PROVE  h[i] = IF i = 0 THEN x ELSE SendCallback(h[i - 1], batch[i])
    <3>1. g[i] = IF i = 0 THEN x ELSE SendCallback(g[i - 1], batch[i])
      BY <2>1, <2>2 DEF CallRun
    <3>2. i # 0 => i - 1 \in 0..(k + 1) /\ i - 1 # k + 1
      BY <2>2
    <3> QED
      BY <2>2, <3>1, <3>2
  <2>3. h[k + 1] = SendCallback(h[k], batch[k + 1])
    BY DEF h
  <2>4. \A i \in 0..(k + 1) : h[i] = IF i = 0 THEN x ELSE SendCallback(h[i - 1], batch[i])
    BY <2>2, <2>3
  <2>5. CallRun(h, k + 1, x, batch)
    BY <2>4 DEF CallRun
  <2>6. k + 1 \in 0..Len(batch)
    BY <1>2
  <2> QED
    BY <2>5, <2>6
<1> HIDE DEF S
<1>3. 0..Len(batch) \subseteq S
  BY <1>1, <1>2, InductionUpTo
<1> QED
  BY <1>3 DEF S

LEMMA CalledRuns ==
  ASSUME NEW x, NEW batch, Len(batch) \in Nat
  PROVE  \E g : CallRun(g, Len(batch), x, batch) /\ Called(x, batch) = g[Len(batch)]
<1>1. \E g : CallRun(g, Len(batch), x, batch)
  <2>1. Len(batch) \in 0..Len(batch)
    OBVIOUS
  <2> QED
    BY <2>1, CallRuns
<1> QED
  BY <1>1 DEF CallRun, Called

\* the callbacks that are to come after i of them, of each stream
RestOf(batch, i) ==
    [t \in Streams |-> Cardinality({k \in DataOf(batch, t) : i < k})]

\* What one callback takes from them.
RestTakes(batch, i) ==
    LET f == batch[i + 1]
    IN  /\ RestOf(batch, i) \in [Streams -> Nat]
        /\ IsData(f) => RestOf(batch, i)[f.stream] > 0
        /\ RestOf(batch, i + 1) = IF IsData(f) THEN Called1(RestOf(batch, i), f.stream)
                                                ELSE RestOf(batch, i)

LEMMA RestStep ==
  ASSUME NEW batch \in Seq(Frames), NEW i \in 0..Len(batch), i < Len(batch)
  PROVE  RestTakes(batch, i)
<1> DEFINE f == batch[i + 1]
           R(j, t) == {k \in DataOf(batch, t) : j < k}
<1>0. f \in Frames /\ f.stream \in Streams /\ i + 1 \in 1..Len(batch) /\ Len(batch) \in Nat
  <2>1. i + 1 \in 1..Len(batch) /\ Len(batch) \in Nat
    OBVIOUS
  <2>2. f \in Frames
    BY <2>1, ElementsIn
  <2> QED
    BY <2>1, <2>2, FramesMade
<1>1. ASSUME NEW j, NEW t PROVE IsFiniteSet(R(j, t)) /\ Cardinality(R(j, t)) \in Nat
  <2>1. R(j, t) \subseteq 1..Len(batch)
    BY DEF DataOf, DataIn
  <2>2. IsFiniteSet(1..Len(batch))
    BY <1>0, FS_Interval
  <2>3. IsFiniteSet(R(j, t))
    BY <2>1, <2>2, FS_Subset
  <2> QED
    BY <2>3, FS_CardinalityType
<1>2. RestOf(batch, i) \in [Streams -> Nat]
  BY <1>1 DEF RestOf
<1>3. ASSUME NEW t \in Streams, ~(IsData(f) /\ f.stream = t) PROVE R(i + 1, t) = R(i, t)
  BY <1>0, <1>3 DEF DataOf, DataIn
<1>4. ASSUME IsData(f)
      PROVE  /\ R(i, f.stream) = R(i + 1, f.stream) \cup {i + 1}
             /\ i + 1 \notin R(i + 1, f.stream)
  BY <1>0, <1>4 DEF DataOf, DataIn
<1>5. ASSUME IsData(f)
      PROVE  /\ Cardinality(R(i, f.stream)) > 0
             /\ Cardinality(R(i + 1, f.stream)) = Cardinality(R(i, f.stream)) - 1
  <2> DEFINE a == Cardinality(R(i, f.stream))
             b == Cardinality(R(i + 1, f.stream))
  <2>1. a = b + 1
    <3> DEFINE P == R(i + 1, f.stream)
    <3>1. IsFiniteSet(P) /\ i + 1 \notin P /\ R(i, f.stream) = P \cup {i + 1}
      BY <1>1, <1>4, <1>5
    <3> HIDE DEF P
    <3>2. Cardinality(P \cup {i + 1}) = Cardinality(P) + 1
      BY <3>1, FS_AddElement
    <3> QED
      BY <3>1, <3>2 DEF P
  <2>2. b \in Nat
    BY <1>1
  <2> HIDE DEF a, b
  <2>3. a > 0 /\ b = a - 1
    BY <2>1, <2>2
  <2> QED
    BY <2>3 DEF a, b
<1>6. \A j \in Nat, t \in Streams : RestOf(batch, j)[t] = Cardinality(R(j, t))
  BY DEF RestOf
<1> HIDE DEF R
<1>7. IsData(f) => RestOf(batch, i)[f.stream] > 0
  BY <1>0, <1>5, <1>6
<1>8. CASE ~IsData(f)
  <2>1. RestOf(batch, i + 1) = RestOf(batch, i)
    BY <1>3, <1>8 DEF RestOf, R
  <2> QED
    BY <2>1, <1>2, <1>8 DEF RestTakes
<1>9. CASE IsData(f)
  <2>1. ASSUME NEW t \in Streams
        PROVE  RestOf(batch, i + 1)[t] = Called1(RestOf(batch, i), f.stream)[t]
    <3>1. CASE t = f.stream
      BY <3>1, <1>0, <1>2, <1>5, <1>6, <1>9 DEF Called1
    <3>2. CASE t # f.stream
      <4>1. R(i + 1, t) = R(i, t)
        BY <3>2, <1>3
      <4>2. Called1(RestOf(batch, i), f.stream)[t] = RestOf(batch, i)[t]
        BY <3>2, <1>2 DEF Called1
      <4> QED
        BY <4>1, <4>2, <1>0, <1>6
    <3> QED
      BY <3>1, <3>2
  <2>2. RestOf(batch, i + 1) = Called1(RestOf(batch, i), f.stream)
    <3>1. RestOf(batch, i + 1) = [t \in Streams |-> RestOf(batch, i + 1)[t]]
      BY DEF RestOf
    <3>2. Called1(RestOf(batch, i), f.stream) =
             [t \in Streams |-> Called1(RestOf(batch, i), f.stream)[t]]
      BY <1>2 DEF Called1
    <3> QED
      BY <2>1, <3>1, <3>2
  <2> QED
    BY <2>2, <1>2, <1>7, <1>9 DEF RestTakes
<1> QED
  BY <1>8, <1>9

\* At first they are all to come, and at last none.
LEMMA RestEnds ==
  ASSUME NEW batch \in Seq(Frames)
  PROVE  /\ RestOf(batch, 0) = [t \in Streams |-> Cardinality(DataOf(batch, t))]
         /\ RestOf(batch, Len(batch)) = [t \in Streams |-> 0]
<1>1. ASSUME NEW t PROVE {k \in DataOf(batch, t) : 0 < k} = DataOf(batch, t)
  BY DEF DataOf, DataIn
<1>2. ASSUME NEW t PROVE {k \in DataOf(batch, t) : Len(batch) < k} = {}
  BY DEF DataOf, DataIn
<1>3. Cardinality({}) = 0
  BY FS_EmptySet
<1> QED
  BY <1>1, <1>2, <1>3 DEF RestOf

\* All the callbacks of a batch: nothing is left of it, and every stream goes on.
LEMMA CalledEffect ==
  ASSUME NEW batch \in Seq(Frames), NEW x, Good(x, RestOf(batch, 0)), NEW w \in Seq(Frames)
  PROVE  /\ Good(Called(x, batch), RestOf(batch, Len(batch)))
         /\ \A t \in Streams : Follows(w, x, Called(x, batch), t)
<1> DEFINE n == Len(batch)
           Done(g, k) == /\ Good(g[k], RestOf(batch, k))
                         /\ \A t \in Streams : Follows(w, x, g[k], t)
<1>0. n \in Nat /\ \A i \in 1..n : batch[i] \in Frames
  BY ElementsIn
<1>1. PICK g : CallRun(g, n, x, batch) /\ Called(x, batch) = g[n]
  BY <1>0, CalledRuns
<1>2. g[0] = x /\ \A i \in 0..n : i < n => g[i + 1] = SendCallback(g[i], batch[i + 1])
  <2>1. \A i \in 0..n : g[i] = IF i = 0 THEN x ELSE SendCallback(g[i - 1], batch[i])
    BY <1>1 DEF CallRun
  <2>2. 0 \in 0..n /\ \A i \in 0..n : i < n => i + 1 \in 0..n /\ i + 1 # 0 /\ (i + 1) - 1 = i
    BY <1>0
  <2> QED
    BY <2>1, <2>2
<1> DEFINE S == {k \in 0..n : Done(g, k)}
<1>3. 0 \in S
  <2>1. Done(g, 0)
    BY <1>2, FollowsSame
  <2> QED
    BY <2>1, <1>0
<1>4. ASSUME NEW k \in 0..n, k < n, k \in S PROVE k + 1 \in S
  <2> DEFINE y == g[k]
             f == batch[k + 1]
             z == SendCallback(y, f)
  <2>1. g[k + 1] = z /\ k + 1 \in 1..n /\ k + 1 \in 0..n /\ f \in Frames
    BY <1>0, <1>2, <1>4
  <2>2. RestTakes(batch, k)
    BY <1>4, RestStep
  <2>3. Good(y, RestOf(batch, k)) /\ \A t \in Streams : Follows(w, x, y, t)
    BY <1>4
  <2>4. IsData(f) => RestOf(batch, k)[f.stream] > 0
    BY <2>2 DEF RestTakes
  <2>5. RestOf(batch, k + 1) = IF IsData(f) THEN Called1(RestOf(batch, k), f.stream)
                                            ELSE RestOf(batch, k)
    BY <2>2 DEF RestTakes
  <2> HIDE DEF y, f, S
  <2>6. /\ Good(z, RestOf(batch, k + 1))
        /\ \A t \in Streams : Follows(w, y, z, t)
    BY <2>1, <2>3, <2>4, <2>5, SendCallbackEffect
  <2> HIDE DEF z
  <2>7. \A t \in Streams : Follows(w, x, z, t)
    BY <2>3, <2>6, FollowsTransitive
  <2>8. Done(g, k + 1)
    BY <2>1, <2>6, <2>7
  <2> QED
    BY <2>1, <2>8 DEF S
<1> HIDE DEF S, Done
<1>5. 0..n \subseteq S
  BY <1>0, <1>3, <1>4, InductionUpTo
<1>6. n \in S
  BY <1>0, <1>5
<1> QED
  BY <1>1, <1>6 DEF S, Done
-----------------------------------------------------------------------------
(* The socket's 'close' handler.                                           *)

\* The stream's record and frames when it has ended.
Closes(w, x, y, s) ==
    /\ ~y.st[s].live
    /\ OthersKeep(w, x, y, s)
    /\ Heard(x, y, s)
    /\ \A lo, hi : Carries(PathOf(w, x.out), s, lo, hi) => Carries(PathOf(w, y.out), s, lo, hi)
    /\ \A r \in BOOLEAN :
          EndsOnce(PathOf(w, x.out), s, TRUE, r) => EndsOnce(PathOf(w, y.out), s, FALSE, r)

Ended(r) == [r EXCEPT !.live = FALSE, !.buffered = <<>>]

LEMMA EndedFields ==
  ASSUME NEW r \in RelayRec
  PROVE  /\ Ended(r) \in RelayRec
         /\ Ended(r).live = FALSE /\ Ended(r).buffered = <<>> /\ Ended(r).paused = r.paused
         /\ Ended(r).peerPaused = r.peerPaused
         /\ Ended(r).wsPaused = r.wsPaused /\ Ended(r).pending = r.pending
<1>1. <<>> \in Seq(1..Chunks)
  OBVIOUS
<1> QED
  BY <1>1 DEF Ended, RelayRec

\* A control frame is written.
Sent(x, f) == [x EXCEPT !.out = Write(@, f)]

LEMMA SentEffect ==
  ASSUME NEW x, NEW rest, Based(x, rest), NEW f \in Frames, ~IsData(f), NEW w \in Seq(Frames)
  PROVE  /\ Based(Sent(x, f), rest)
         /\ Sent(x, f).st = x.st /\ Sent(x, f).toAgent = x.toAgent
         /\ BufferedAmount(Sent(x, f).out) = BufferedAmount(x.out)
         /\ OthersKeep(w, x, Sent(x, f), f.stream)
         /\ \A s, lo, hi : Carries(PathOf(w, x.out), s, lo, hi) =>
                           Carries(PathOf(w, Sent(x, f).out), s, lo, hi)
         /\ \A r \in BOOLEAN : EndsOnce(PathOf(w, x.out), f.stream, TRUE, r) =>
                               EndsOnce(PathOf(w, Sent(x, f).out), f.stream, FALSE, r)
<1> DEFINE y == Sent(x, f)
           q == PathOf(w, x.out)
<1>0. /\ x \in RelayStates /\ NoIdleWaiting(x.out) /\ rest \in [Streams -> Nat]
      /\ \A t \in Streams : x.st[t].pending = HeldOf(x.out, t) + rest[t]
  BY DEF Based
<1>1. x.out \in SenderOf(Frames)
  BY <1>0, StateFields
<1>2. Write(x.out, f) \in SenderOf(Frames) /\ NoIdleWaiting(Write(x.out, f))
  BY <1>0, <1>1, WriteAppends
<1>3. y.st = x.st /\ y.out = Write(x.out, f) /\ y.toAgent = x.toAgent /\ y \in RelayStates
  BY <1>0, <1>2 DEF Sent, RelayStates
<1>4. \A t \in Streams : HeldOf(y.out, t) = HeldOf(x.out, t)
  <2> SUFFICES ASSUME NEW t \in Streams PROVE HeldOf(y.out, t) = HeldOf(x.out, t)
    OBVIOUS
  <2>1. HeldOf(Write(x.out, f), t) = HeldOf(x.out, t) + (IF IsData(f) /\ f.stream = t THEN 1 ELSE 0)
    BY <1>0, <1>1, HeldOfWrite
  <2>2. HeldOf(x.out, t) \in Nat
    BY <1>1, HeldOfWritten
  <2> QED
    BY <2>1, <2>2, <1>3
<1>5. BufferedAmount(y.out) = BufferedAmount(x.out)
  <2>1. BufferedAmount(x.out) \in Nat
        /\ BufferedAmount(Write(x.out, f)) = BufferedAmount(x.out) + (IF IsData(f) THEN 1 ELSE 0)
    BY <1>0, <1>1, WriteBuffers
  <2> QED
    BY <2>1, <1>3
<1>6. PathOf(w, y.out) = Append(q, f) /\ q \in Seq(Frames)
  BY <1>0, <1>1, <1>3, PathWrite, PathTypes
<1>7. PathKeeps(w, x.out, y.out, f.stream)
  BY <1>0, <1>1, <1>3, WriteKeeps
<1> HIDE DEF y, q
<1>8. Based(y, rest)
  BY <1>0, <1>2, <1>3, <1>4 DEF Based
<1>9. OthersKeep(w, x, y, f.stream)
  BY <1>3, <1>7, KeepsSame DEF OthersKeep
<1>10. ASSUME NEW s, NEW lo, NEW hi, Carries(q, s, lo, hi) PROVE Carries(Append(q, f), s, lo, hi)
  BY <1>6, <1>10, CarriesAppendOther
<1>11. ASSUME NEW r \in BOOLEAN, EndsOnce(q, f.stream, TRUE, r)
       PROVE  EndsOnce(Append(q, f), f.stream, FALSE, r)
  BY <1>6, <1>11, EndsAppend
<1> QED
  BY <1>3, <1>5, <1>6, <1>8, <1>9, <1>10, <1>11 DEF y, q

LEMMA OnCloseEffect ==
  ASSUME NEW x, NEW rest, Good(x, rest), NEW s \in Streams, NEW w \in Seq(Frames)
  PROVE  Good(OnClose(x, s), rest) /\ Closes(w, x, OnClose(x, s), s)
<1> DEFINE f == Control("TCP_CLOSE", s)
           r == Ended(x.st[s])
           y == Replace(x, s, r)
           z == Sent(y, f)
<1>0. x \in RelayStates /\ Based(x, rest)
  BY DEF Good, Based
<1>1. x.st \in [Streams -> RelayRec] /\ x.st[s] \in RelayRec
  BY <1>0, StateFields
<1>2. OnClose(x, s) = z
  <2>1. Cleaned(x, s) = y
    BY <1>0, <1>1 DEF Cleaned, Replace, Ended, RelayStates
  <2> HIDE DEF y
  <2> QED
    BY <2>1 DEF OnClose, Sent
<1>3. f \in Frames /\ f.stream = s /\ ~IsData(f)
  BY FramesMade, FrameFields
<1>4. /\ r \in RelayRec /\ r.live = FALSE /\ r.buffered = <<>> /\ r.paused = x.st[s].paused
      /\ r.peerPaused = x.st[s].peerPaused
      /\ r.wsPaused = x.st[s].wsPaused /\ r.pending = x.st[s].pending
  BY <1>1, EndedFields
<1> HIDE DEF f, r
<1>5. /\ Based(y, rest) /\ y.st[s] = r /\ y.toAgent = x.toAgent /\ y.out = x.out
      /\ OthersKeep(w, x, y, s)
  BY <1>0, <1>4, ReplaceEffect
<1> HIDE DEF y
<1>6. /\ Based(z, rest) /\ z.st = y.st /\ z.toAgent = y.toAgent
      /\ BufferedAmount(z.out) = BufferedAmount(y.out)
      /\ OthersKeep(w, y, z, s)
      /\ \A t, lo, hi : Carries(PathOf(w, y.out), t, lo, hi) =>
                        Carries(PathOf(w, z.out), t, lo, hi)
      /\ \A b \in BOOLEAN : EndsOnce(PathOf(w, y.out), s, TRUE, b) =>
                            EndsOnce(PathOf(w, z.out), s, FALSE, b)
  BY <1>3, <1>5, SentEffect
<1> HIDE DEF z
<1>7. OthersKeep(w, x, z, s)
  BY <1>5, <1>6, KeepsTransitive
<1>8. ASSUME NEW t \in Streams PROVE Agreed(z.st[t]) /\ Stored(z.st[t], t)
  <2>1. CASE t = s
    <3>1. Agreed(x.st[s])
      BY DEF Good
    <3>2. Agreed(z.st[s])
      BY <3>1, <1>4, <1>5, <1>6 DEF Agreed
    <3>3. z.st[s].buffered = <<>> /\ Len(z.st[s].buffered) = 0
      BY <1>4, <1>5, <1>6
    <3> QED
      BY <2>1, <3>2, <3>3, UpFlowAssumption DEF Stored
  <2>2. CASE t # s
    <3>1. z.st[t] = x.st[t]
      BY <2>2, <1>7 DEF OthersKeep
    <3> QED
      BY <3>1 DEF Good
  <2> QED
    BY <2>1, <2>2
<1>9. Fits(z.st, z.out)
  <2>1. ThrottledIn(z.st) = ThrottledIn(x.st)
    BY <1>4, <1>5, <1>6 DEF ThrottledIn, OthersKeep
  <2> QED
    BY <2>1, <1>5, <1>6 DEF Fits, Good
<1>10. Heard(x, z, s)
  <2>1. z.toAgent = x.toAgent /\ z.st[s].paused = x.st[s].paused
    BY <1>4, <1>5, <1>6
  <2> QED
    BY <2>1, HeardSame
<1>11. ~z.st[s].live
  BY <1>4, <1>5, <1>6
<1>12. Closes(w, x, z, s)
  BY <1>5, <1>6, <1>7, <1>10, <1>11 DEF Closes
<1> QED
  BY <1>2, <1>6, <1>8, <1>9, <1>12 DEF Good

-----------------------------------------------------------------------------
(* VirtualSocket.pushInbound and the frames of the agent.                  *)

\* What a handler does that takes the chunk c of s.
Accepts(w, x, y, s, c) ==
    /\ y.st[s].live = x.st[s].live /\ y.st[s].peerPaused = x.st[s].peerPaused
    /\ OthersKeep(w, x, y, s)
    /\ Heard(x, y, s)
    /\ StillWrites(w, x, y, s)
    /\ \A lo \in Nat, n \in Nat :
          Carries(PathOf(w, x.out), s, lo, n) /\ NumberedFrom(x.st[s].buffered, n)
          /\ c = (n + Len(x.st[s].buffered)) + 1 =>
             \E m \in Nat : /\ Carries(PathOf(w, y.out), s, lo, m)
                            /\ NumberedFrom(y.st[s].buffered, m)
                            /\ m + Len(y.st[s].buffered) = c

\* The 'data' handler takes it at once,
LEMMA OnDataAccepts ==
  ASSUME NEW x, NEW rest, Good(x, rest), NEW s \in Streams, NEW c \in 1..Chunks,
         NEW w \in Seq(Frames), ~x.st[s].paused
  PROVE  Good(OnData(x, s, c), rest) /\ Accepts(w, x, OnData(x, s, c), s, c)
<1> DEFINE y == OnData(x, s, c)
<1>0. x \in RelayStates /\ Based(x, rest) /\ Fits(x.st, x.out)
      /\ \A t \in Streams : Agreed(x.st[t]) /\ Stored(x.st[t], t)
  BY DEF Good, Based
<1>1. x.st[s] \in RelayRec
  BY <1>0, StateFields
<1>2. x.st[s].buffered = <<>> /\ ~x.st[s].wsPaused
  <2>1. Agreed(x.st[s]) /\ Stored(x.st[s], s)
    BY <1>0
  <2> QED
    BY <2>1 DEF Agreed, Stored
<1>3. /\ Based(y, rest) /\ Kept(w, x, y, s) /\ PassedOn(w, x, y, s, c - 1, c)
      /\ BufferedAmount(x.out) \in Nat
      /\ BufferedAmount(y.out) = BufferedAmount(x.out) + 1
      /\ y.st[s].wsPaused = (x.st[s].wsPaused \/ BufferedAmount(x.out) + 1 > WsHigh)
  BY <1>0, OnDataEffect
<1> HIDE DEF y
<1>4. y \in RelayStates /\ OthersKeep(w, x, y, s) /\ SameRecord(x.st[s], y.st[s])
  BY <1>3 DEF Based, Kept
<1>5. Fits(y.st, y.out)
  <2> DEFINE a == BufferedAmount(x.out)
  <2>1. OwnRoom(s) \in Nat \ {0}
    BY UpFlowAssumption DEF OwnRoom
  <2>2. y.st[s].wsPaused \/ a + 1 <= WsHigh
    <3>1. CASE a + 1 > WsHigh
      BY <3>1, <1>3
    <3>2. CASE ~(a + 1 > WsHigh)
      BY <3>2, <1>3, UpFlowAssumption
    <3> QED
      BY <3>1, <3>2
  <2>3. a \in Nat /\ BufferedAmount(y.out) = a + 1
    BY <1>3
  <2> HIDE DEF a
  <2>4. 1 \in Nat /\ 1 <= OwnRoom(s) /\ BufferedAmount(x.out) = a
    BY <2>1 DEF a
  <2> QED
    BY <2>2, <2>3, <2>4, <1>0, <1>2, <1>4, RoomForMore
<1>6. ASSUME NEW t \in Streams PROVE Agreed(y.st[t]) /\ Stored(y.st[t], t)
  <2>1. CASE t = s
    <3>1. Agreed(y.st[s])
      BY <1>0, <1>3 DEF Kept
    <3>2. y.st[s].buffered = <<>> /\ Len(y.st[s].buffered) = 0
      BY <1>2, <1>4 DEF SameRecord
    <3> QED
      BY <2>1, <3>1, <3>2, UpFlowAssumption DEF Stored
  <2>2. CASE t # s
    BY <2>2, <1>0, <1>4 DEF OthersKeep
  <2> QED
    BY <2>1, <2>2
<1>7. ASSUME NEW lo \in Nat, NEW n \in Nat, Carries(PathOf(w, x.out), s, lo, n),
             c = (n + Len(x.st[s].buffered)) + 1
      PROVE  \E m \in Nat : /\ Carries(PathOf(w, y.out), s, lo, m)
                            /\ NumberedFrom(y.st[s].buffered, m)
                            /\ m + Len(y.st[s].buffered) = c
  <2>1. Len(x.st[s].buffered) = 0 /\ y.st[s].buffered = <<>>
    BY <1>2, <1>4 DEF SameRecord
  <2>2. c - 1 = n /\ c \in Nat
    BY <2>1, <1>7
  <2>3. Carries(PathOf(w, y.out), s, lo, c)
    BY <2>2, <1>3, <1>7 DEF PassedOn
  <2>4. NumberedFrom(y.st[s].buffered, c) /\ c + Len(y.st[s].buffered) = c
    BY <2>1, <2>2, EmptyNumbered
  <2> QED
    BY <2>2, <2>3, <2>4
<1>8. Accepts(w, x, y, s, c)
  BY <1>3, <1>4, <1>7 DEF Accepts, Kept, SameRecord
<1> QED
  BY <1>3, <1>5, <1>6, <1>8 DEF Good, y

\* and a paused socket keeps it,
Keeping(r, c) == [r EXCEPT !.buffered = Append(@, c)]

LEMMA KeepingFields ==
  ASSUME NEW r \in RelayRec, NEW c \in 1..Chunks
  PROVE  /\ Keeping(r, c) \in RelayRec
         /\ Keeping(r, c).buffered = Append(r.buffered, c)
         /\ Len(Keeping(r, c).buffered) = Len(r.buffered) + 1 /\ Len(r.buffered) \in Nat
         /\ Keeping(r, c).live = r.live /\ Keeping(r, c).peerPaused = r.peerPaused
         /\ Keeping(r, c).paused = r.paused
         /\ Keeping(r, c).wsPaused = r.wsPaused /\ Keeping(r, c).pending = r.pending
<1>1. r.buffered \in Seq(1..Chunks)
  BY DEF RelayRec
<1> DEFINE q == Append(r.buffered, c)
<1>2. q \in Seq(1..Chunks) /\ Len(q) = Len(r.buffered) + 1 /\ Len(r.buffered) \in Nat
  BY <1>1
<1>3. Keeping(r, c) = [r EXCEPT !.buffered = q]
  BY DEF Keeping
<1> HIDE DEF q
<1>4. /\ Keeping(r, c) \in RelayRec /\ Keeping(r, c).buffered = q
      /\ Keeping(r, c).live = r.live /\ Keeping(r, c).peerPaused = r.peerPaused
      /\ Keeping(r, c).paused = r.paused
      /\ Keeping(r, c).wsPaused = r.wsPaused /\ Keeping(r, c).pending = r.pending
  BY <1>2, <1>3 DEF RelayRec
<1> QED
  BY <1>2, <1>4 DEF q

LEMMA KeepingAccepts ==
  ASSUME NEW x, NEW rest, Good(x, rest), NEW s \in Streams, s \notin Direct,
         NEW c \in 1..Chunks, NEW w \in Seq(Frames), x.st[s].live, x.st[s].paused,
         Len(x.st[s].buffered) < MaxDestBuffer
  PROVE  LET y == Replace(x, s, Keeping(x.st[s], c))
         IN  Good(y, rest) /\ Accepts(w, x, y, s, c)
<1> DEFINE r == Keeping(x.st[s], c)
           y == Replace(x, s, r)
<1>0. x \in RelayStates /\ Based(x, rest) /\ Fits(x.st, x.out)
      /\ \A t \in Streams : Agreed(x.st[t]) /\ Stored(x.st[t], t)
  BY DEF Good, Based
<1>1. x.st[s] \in RelayRec
  BY <1>0, StateFields
<1>2. /\ r \in RelayRec
      /\ r.buffered = Append(x.st[s].buffered, c)
      /\ Len(r.buffered) = Len(x.st[s].buffered) + 1 /\ Len(x.st[s].buffered) \in Nat
      /\ r.live = x.st[s].live /\ r.peerPaused = x.st[s].peerPaused
      /\ r.paused = x.st[s].paused
      /\ r.wsPaused = x.st[s].wsPaused /\ r.pending = x.st[s].pending
  BY <1>1, KeepingFields
<1> HIDE DEF r
<1>3. /\ Based(y, rest) /\ y.st[s] = r /\ y.toAgent = x.toAgent /\ y.out = x.out
      /\ OthersKeep(w, x, y, s)
  BY <1>0, <1>2, ReplaceEffect
<1> HIDE DEF y
<1>4. ASSUME NEW t \in Streams PROVE Agreed(y.st[t]) /\ Stored(y.st[t], t)
  <2>1. CASE t = s
    <3>1. Agreed(r)
      <4>1. Agreed(x.st[s])
        BY <1>0
      <4> QED
        BY <4>1, <1>2 DEF Agreed
    <3>2. Len(r.buffered) <= MaxDestBuffer
      BY <1>2, UpFlowAssumption
    <3>3. Stored(r, s)
      BY <3>2, <1>2 DEF Stored
    <3> QED
      BY <2>1, <3>1, <3>3, <1>3
  <2>2. CASE t # s
    BY <2>2, <1>0, <1>3 DEF OthersKeep
  <2> QED
    BY <2>1, <2>2
<1>5. Fits(y.st, y.out)
  <2>1. ThrottledIn(y.st) = ThrottledIn(x.st)
    BY <1>2, <1>3 DEF ThrottledIn, OthersKeep
  <2> QED
    BY <2>1, <1>0, <1>3 DEF Fits
<1>6. Heard(x, y, s)
  BY <1>2, <1>3, HeardSame
<1>7. ASSUME NEW lo \in Nat, NEW n \in Nat, Carries(PathOf(w, x.out), s, lo, n),
             NumberedFrom(x.st[s].buffered, n), c = (n + Len(x.st[s].buffered)) + 1
      PROVE  \E m \in Nat : /\ Carries(PathOf(w, y.out), s, lo, m)
                            /\ NumberedFrom(y.st[s].buffered, m)
                            /\ m + Len(y.st[s].buffered) = c
  <2>1. x.st[s].buffered \in Seq(1..Chunks)
    BY <1>1 DEF RelayRec
  <2>2. NumberedFrom(Append(x.st[s].buffered, c), n)
    BY <2>1, <1>7, NumberedAppend
  <2>3. n + Len(y.st[s].buffered) = c
    <3>1. \A a, b \in Nat : a + (b + 1) = (a + b) + 1
      OBVIOUS
    <3> QED
      BY <3>1, <1>2, <1>3, <1>7
  <2> QED
    BY <2>2, <2>3, <1>2, <1>3, <1>7
<1>8. Accepts(w, x, y, s, c)
  BY <1>2, <1>3, <1>6, <1>7 DEF Accepts, StillWrites
<1> QED
  BY <1>3, <1>4, <1>5, <1>8 DEF Good, r, y

\* unless its buffer is full: then the stream ends, and the agent is told.
LEMMA AbortCloses ==
  ASSUME NEW x, NEW rest, Good(x, rest), NEW s \in Streams, NEW w \in Seq(Frames)
  PROVE  LET y == OnClose(TellAgent(x, "TCP_ABORT", s), s)
         IN  Good(y, rest) /\ Closes(w, x, y, s)
<1> DEFINE u == TellAgent(x, "TCP_ABORT", s)
           y == OnClose(u, s)
<1>0. x \in RelayStates /\ Based(x, rest)
  BY DEF Good, Based
<1>1. u \in RelayStates /\ u.st = x.st /\ u.out = x.out /\ OthersKeep(w, x, u, s)
  BY <1>0, TellAgentFields, TellAgentKeeps
<1>2. Heard(x, u, s)
  <2>1. x.st[s].paused \in BOOLEAN
    BY <1>0, StateFields DEF RelayRec
  <2>2. s \notin Direct => \A was : Tells(u.toAgent, s, was, x.st[s].paused)
    BY <2>1, <1>0, TellAgentTells
  <2> HIDE DEF u
  <2> QED
    BY <2>2, <1>1 DEF Heard
<1> HIDE DEF u
<1>3. Good(u, rest)
  <2>1. Based(u, rest)
    BY <1>0, <1>1, BasedKept
  <2> QED
    BY <2>1, <1>1 DEF Good
<1>4. Good(y, rest) /\ Closes(w, u, y, s)
  BY <1>3, OnCloseEffect
<1> HIDE DEF y
<1>5. Heard(x, y, s) /\ OthersKeep(w, x, y, s)
  BY <1>1, <1>2, <1>4, HeardTransitive, KeepsTransitive DEF Closes
<1>6. Closes(w, x, y, s)
  BY <1>1, <1>4, <1>5 DEF Closes
<1> QED
  BY <1>4, <1>6 DEF u, y

\* A frame for a stream that has ended is answered, and changes nothing else.
Answered(w, x, y, s) ==
    /\ y.st[s] = x.st[s]
    /\ OthersKeep(w, x, y, s)
    /\ Heard(x, y, s)
    /\ y.out = x.out

LEMMA AnsweredEffect ==
  ASSUME NEW x, NEW rest, Good(x, rest), NEW s \in Streams, NEW w \in Seq(Frames)
  PROVE  LET y == TellAgent(x, "TCP_ABORT", s)
         IN  Good(y, rest) /\ Answered(w, x, y, s)
<1> DEFINE y == TellAgent(x, "TCP_ABORT", s)
<1>0. x \in RelayStates /\ Based(x, rest)
  BY DEF Good, Based
<1>1. y \in RelayStates /\ y.st = x.st /\ y.out = x.out /\ OthersKeep(w, x, y, s)
  BY <1>0, TellAgentFields, TellAgentKeeps
<1>2. x.st[s].paused \in BOOLEAN
  BY <1>0, StateFields DEF RelayRec
<1>3. s \notin Direct => \A was : Tells(y.toAgent, s, was, x.st[s].paused)
  BY <1>0, <1>2, TellAgentTells
<1> HIDE DEF y
<1>4. Heard(x, y, s)
  BY <1>1, <1>3 DEF Heard
<1>5. Based(y, rest)
  BY <1>0, <1>1, BasedKept
<1>6. Good(y, rest)
  BY <1>1, <1>5 DEF Good
<1>7. Answered(w, x, y, s)
  BY <1>1, <1>4 DEF Answered
<1> QED
  BY <1>6, <1>7 DEF y

\* What a frame of the agent does.
TakenIn(w, x, y, f) ==
    \/ ~x.st[f.stream].live /\ Answered(w, x, y, f.stream)
    \/ x.st[f.stream].live /\ Closes(w, x, y, f.stream)
    \/ x.st[f.stream].live /\ IsData(f) /\ Accepts(w, x, y, f.stream, f.chunk)

LEMMA FromAgentEffect ==
  ASSUME NEW x, NEW rest, Good(x, rest), NEW f \in Frames, f.stream \notin Direct,
         NEW w \in Seq(Frames)
  PROVE  Good(FromAgent(x, f), rest) /\ TakenIn(w, x, FromAgent(x, f), f)
<1> DEFINE s == f.stream
           c == f.chunk
<1>0. s \in Streams /\ (IsData(f) => c \in 1..Chunks) /\ x \in RelayStates
  BY FramesMade DEF Good, Based
<1>1. x.st[s] \in RelayRec
  BY <1>0, StateFields
<1>2. CASE ~x.st[s].live
  <2>1. FromAgent(x, f) = TellAgent(x, "TCP_ABORT", s)
    BY <1>2 DEF FromAgent
  <2> HIDE DEF s, c
  <2>2. Good(FromAgent(x, f), rest) /\ Answered(w, x, FromAgent(x, f), s)
    BY <2>1, <1>0, AnsweredEffect
  <2> QED
    BY <2>2, <1>2 DEF TakenIn, s
<1>3. CASE x.st[s].live /\ ~IsData(f)
  <2>1. FromAgent(x, f) = OnClose(x, s)
    BY <1>3 DEF FromAgent, IsData
  <2> HIDE DEF s, c
  <2>2. Good(FromAgent(x, f), rest) /\ Closes(w, x, FromAgent(x, f), s)
    BY <2>1, <1>0, OnCloseEffect
  <2> QED
    BY <2>2, <1>3 DEF TakenIn, s
<1>4. CASE x.st[s].live /\ IsData(f) /\ ~x.st[s].paused
  <2>1. FromAgent(x, f) = OnData(x, s, c)
    BY <1>4 DEF FromAgent, PushInbound, IsData
  <2> HIDE DEF s, c
  <2>2. Good(FromAgent(x, f), rest) /\ Accepts(w, x, FromAgent(x, f), s, c)
    BY <2>1, <1>0, <1>4, OnDataAccepts
  <2> QED
    BY <2>2, <1>4 DEF TakenIn, s, c
<1>5. CASE /\ x.st[s].live /\ IsData(f) /\ x.st[s].paused
           /\ Len(x.st[s].buffered) >= MaxDestBuffer
  <2>1. FromAgent(x, f) = OnClose(TellAgent(x, "TCP_ABORT", s), s)
    BY <1>5 DEF FromAgent, PushInbound, IsData
  <2> HIDE DEF s, c
  <2>2. Good(FromAgent(x, f), rest) /\ Closes(w, x, FromAgent(x, f), s)
    BY <2>1, <1>0, AbortCloses
  <2> QED
    BY <2>2, <1>5 DEF TakenIn, s
<1>6. CASE /\ x.st[s].live /\ IsData(f) /\ x.st[s].paused
           /\ ~(Len(x.st[s].buffered) >= MaxDestBuffer)
  <2> DEFINE y == Replace(x, s, Keeping(x.st[s], c))
  <2>1. FromAgent(x, f) = [x EXCEPT !.st[s].buffered = Append(@, c)]
    BY <1>6 DEF FromAgent, PushInbound, IsData
  <2>2. [x EXCEPT !.st[s].buffered = Append(@, c)] = y
    BY <1>0, <1>1 DEF Replace, Keeping, RelayStates
  <2>3. s \notin Direct /\ c \in 1..Chunks /\ Len(x.st[s].buffered) < MaxDestBuffer
    <3>1. Len(x.st[s].buffered) \in Nat
      BY <1>1 DEF RelayRec
    <3> QED
      BY <3>1, <1>0, <1>6, UpFlowAssumption
  <2>6. x.st[s].live /\ x.st[s].paused
    BY <1>6
  <2> HIDE DEF s, c
  <2>4. Good(y, rest) /\ Accepts(w, x, y, s, c)
    BY <2>3, <2>6, <1>0, KeepingAccepts
  <2> HIDE DEF y
  <2>5. Good(FromAgent(x, f), rest) /\ Accepts(w, x, FromAgent(x, f), s, c)
    BY <2>1, <2>2, <2>4
  <2> QED
    BY <2>5, <1>6 DEF TakenIn, s, c
<1> QED
  BY <1>2, <1>3, <1>4, <1>5, <1>6
-----------------------------------------------------------------------------
(* A handler of the relay and the invariant.                               *)

NoRest == [t \in Streams |-> 0]

\* What the invariant says of one stream on its way to the service.
Settled(s) ==
    /\ EndsOnce(RelayPath, s, relay[s].live, client[s].open)
    /\ Ordered(s)
    /\ FlagsFollow(s)

\* The parts of UpInv, by name.
LEMMA Parts ==
  ASSUME UpInv
  PROVE  /\ TypeOK /\ FrameKinds /\ AgentThrottled
         /\ \A s \in Streams : Agreed(relay[s]) /\ Stored(relay[s], s)
         /\ Fits(relay, relayOut)
         /\ \A s \in Streams : Counted(s)
         /\ \A s \in Streams : Received(s)
         /\ \A s \in Streams : Settled(s)
BY DEF UpInv, Settled

LEMMA PartsNext ==
  ASSUME /\ TypeOK' /\ FrameKinds' /\ AgentThrottled'
         /\ \A s \in Streams : (Agreed(relay[s]) /\ Stored(relay[s], s))'
         /\ Fits(relay, relayOut)'
         /\ \A s \in Streams : Counted(s)'
         /\ \A s \in Streams : Received(s)'
         /\ \A s \in Streams : Settled(s)'
  PROVE  UpInv'
BY DEF UpInv, Settled

\* The relay as a handler finds it.
LEMMA HereGood ==
  ASSUME UpInv
  PROVE  /\ Good(Here, NoRest)
         /\ Here.st = relay /\ Here.out = relayOut /\ Here.toAgent = toAgent
         /\ RelayPath = PathOf(relayWire, Here.out)
<1>1. Here.st = relay /\ Here.out = relayOut /\ Here.toAgent = toAgent
  BY DEF Here
<1>2. Here \in RelayStates
  BY Types DEF UpInv, Here, RelayStates
<1>3. \A t \in Streams : Here.st[t].pending = HeldOf(Here.out, t) + NoRest[t]
  <2> SUFFICES ASSUME NEW t \in Streams PROVE relay[t].pending = HeldOf(relayOut, t) + 0
    BY <1>1 DEF NoRest
  <2>1. HeldOf(relayOut, t) \in Nat
    BY Types, HeldOfWritten DEF UpInv
  <2>2. relay[t].pending = HeldOf(relayOut, t)
    BY DEF UpInv, Counted
  <2> QED
    BY <2>1, <2>2
<1>4. NoRest \in [Streams -> Nat] /\ NoIdleWaiting(relayOut)
  BY DEF NoRest, UpInv, FrameKinds
<1>5. Based(Here, NoRest)
  BY <1>1, <1>2, <1>3, <1>4 DEF Based
<1>6. \A t \in Streams : Agreed(relay[t]) /\ Stored(relay[t], t)
  BY DEF UpInv
<1>7. Fits(relay, relayOut)
  BY DEF UpInv
<1> QED
  BY <1>1, <1>5, <1>6, <1>7 DEF Good, RelayPath

\* What a handler keeps beyond the streams.
LEMMA HandlerKeeps ==
  ASSUME UpInv, NEW y, Becomes(y), Good(y, NoRest),
         UNCHANGED <<agent, agentOut, client, service>>,
         sent' \in [Streams -> 0..Chunks], agentWire' \in Seq(Frames),
         relayWire' \in Seq(Frames), toRelay' \in Seq(ControlFrames),
         \A i \in 1..Len(AgentPath') : AgentPath'[i].stream \notin Direct,
         \A s \in Streams : Settled(s)'
  PROVE  UpInv'
<1>0. TypeOK /\ FrameKinds /\ AgentThrottled
      /\ (\A s \in Streams : Counted(s)) /\ \A s \in Streams : Received(s)
  BY Parts
<1>1. relay' = y.st /\ relayOut' = y.out /\ toAgent' = y.toAgent
  BY DEF Becomes
<1>2. /\ y \in RelayStates /\ NoIdleWaiting(y.out)
      /\ \A t \in Streams : y.st[t].pending = HeldOf(y.out, t) + NoRest[t]
  BY DEF Good, Based
<1>3. y.st \in [Streams -> RelayRec] /\ y.out \in SenderOf(Frames) /\ y.toAgent \in Seq(ControlFrames)
  BY <1>2, StateFields
<1>4. TypeOK'
  BY <1>0, <1>1, <1>3, Types, TypesNext
<1>5. FrameKinds'
  BY <1>0, <1>1, <1>2 DEF FrameKinds
<1>6. AgentThrottled'
  BY <1>0 DEF AgentThrottled
<1>7. ASSUME NEW t \in Streams PROVE (Agreed(relay[t]) /\ Stored(relay[t], t))'
  <2>1. Agreed(y.st[t]) /\ Stored(y.st[t], t)
    BY DEF Good
  <2> QED
    BY <2>1, <1>1
<1>8. Fits(relay, relayOut)'
  BY <1>1 DEF Good
<1>9. ASSUME NEW t \in Streams PROVE Counted(t)'
  <2>1. HeldOf(y.out, t) \in Nat
    BY <1>3, HeldOfWritten
  <2>2. y.st[t].pending = HeldOf(y.out, t)
    BY <2>1, <1>2 DEF NoRest
  <2>3. agent[t].pending = HeldOf(agentOut, t)
    BY <1>0 DEF Counted
  <2> QED
    BY <2>2, <2>3, <1>1 DEF Counted
<1>10. ASSUME NEW t \in Streams PROVE Received(t)'
  BY <1>0 DEF Received
<1> QED
  BY <1>4, <1>5, <1>6, <1>7, <1>8, <1>9, <1>10, PartsNext

\* The numbers of chunks.
LEMMA ArrivedIsNat ==
  ASSUME TypeOK, NEW t \in Streams
  PROVE  /\ Arrived(t) \in Nat /\ sent[t] \in 0..Chunks /\ sent[t] \in Nat /\ Chunks \in Nat
         /\ Len(service[t]) \in Nat /\ Len(client[t].queue) \in Nat
<1>1. service[t] \in Seq(1..Chunks) /\ client[t].queue \in Seq(1..Chunks)
  BY Types DEF ClientRec
<1>2. Len(service[t]) \in Nat /\ Len(client[t].queue) \in Nat
  BY <1>1
<1>3. \A a, b \in Nat : a + b \in Nat
  OBVIOUS
<1>4. Arrived(t) \in Nat
  BY <1>2, <1>3 DEF Arrived
<1>5. sent[t] \in 0..Chunks /\ Chunks \in Nat
  BY Types, UpFlowAssumption
<1> QED
  BY <1>2, <1>4, <1>5

\* the agent still hears
LEMMA AgentHears ==
  ASSUME UpInv, NEW x, NEW y, NEW t \in Streams, Becomes(y), agent' = agent,
         x.toAgent = toAgent, x.st[t].paused = relay[t].paused, Heard(x, y, t)
  PROVE  agent'[t].open => Tells(toAgent', t, agent'[t].peerPaused, relay'[t].paused)
<1> SUFFICES ASSUME agent[t].open
             PROVE  Tells(y.toAgent, t, agent[t].peerPaused, y.st[t].paused)
  BY DEF Becomes
<1>1. t \notin Direct
  BY DEF UpInv, FrameKinds
<1>2. Tells(x.toAgent, t, agent[t].peerPaused, x.st[t].paused)
  BY DEF UpInv, FlagsFollow
<1> QED
  BY <1>1, <1>2 DEF Heard

\* A stream that follows stays settled.
LEMMA SettledFollows ==
  ASSUME UpInv, NEW x, NEW y, Becomes(y), Good(y, NoRest), NEW w, NEW t \in Streams,
         x.toAgent = toAgent, x.st[t].live = relay[t].live,
         x.st[t].buffered = relay[t].buffered, x.st[t].paused = relay[t].paused,
         RelayPath = PathOf(w, x.out), RelayPath' = PathOf(w, y.out), Follows(w, x, y, t),
         UNCHANGED <<agent, client, service>>, sent'[t] = sent[t],
         \A lo, hi : Carries(AgentPath, t, lo, hi) => Carries(AgentPath', t, lo, hi),
         relay'[t].live /\ client[t].open =>
            LastWord(toRelay', t, relay'[t].peerPaused, client[t].backpressured)
  PROVE  Settled(t)'
<1>0. TypeOK /\ Settled(t) /\ Agreed(relay[t]) /\ Stored(relay[t], t)
  BY Parts
<1>1. relay' = y.st /\ relayOut' = y.out /\ toAgent' = y.toAgent /\ y.st[t].live = relay[t].live
  BY DEF Becomes, Follows
<1>2. EndsOnce(RelayPath, t, relay[t].live, client[t].open)'
  <2>1. client[t].open \in BOOLEAN
    BY <1>0, Types DEF ClientRec
  <2>2. EndsOnce(PathOf(w, x.out), t, x.st[t].live, client[t].open)
    BY <1>0 DEF Settled
  <2>3. EndsOnce(PathOf(w, y.out), t, y.st[t].live, client[t].open)
    BY <2>1, <2>2 DEF Follows
  <2> QED
    BY <2>3, <1>1
<1>3. Ordered(t)'
  <2> SUFFICES ASSUME client[t].open
               PROVE  \E m \in 0..sent[t] :
                         /\ Carries(PathOf(w, y.out), t, Arrived(t), m)
                         /\ HandedOn(y.st[t], AgentPath', t, m, sent[t])
    <3>1. Arrived(t)' = Arrived(t)
      BY DEF Arrived
    <3> QED
      BY <3>1, <1>1 DEF Ordered
  <2>1. PICK n \in 0..sent[t] : /\ Carries(RelayPath, t, Arrived(t), n)
                                /\ HandedOn(relay[t], AgentPath, t, n, sent[t])
    BY <1>0 DEF Settled, Ordered
  <2> DEFINE k == Len(relay[t].buffered)
             j == Len(y.st[t].buffered)
  <2>2. k \in Nat /\ j \in Nat /\ Arrived(t) \in Nat /\ sent[t] \in Nat /\ n \in Nat
    <3>1. relay[t] \in RelayRec /\ y \in RelayStates
      BY <1>0, Types DEF Good, Based
    <3>2. y.st[t] \in RelayRec
      BY <3>1, StateFields
    <3> QED
      BY <3>1, <3>2, <1>0, ArrivedIsNat DEF RelayRec
  <2>3. ASSUME ~(relay[t].live /\ t \notin Direct)
        PROVE  relay[t].buffered = <<>> /\ k = 0
    BY <2>3, <1>0 DEF Stored
  <2>4. NumberedFrom(relay[t].buffered, n) /\ n + k <= sent[t]
    <3>1. CASE relay[t].live /\ t \notin Direct
      BY <3>1, <2>1 DEF HandedOn, Carries
    <3>2. CASE ~(relay[t].live /\ t \notin Direct)
      BY <3>2, <2>2, <2>3, EmptyNumbered
    <3> QED
      BY <3>1, <3>2
  <2>5. PICK m \in Nat : /\ Carries(PathOf(w, y.out), t, Arrived(t), m)
                         /\ NumberedFrom(y.st[t].buffered, m)
                         /\ m + j = n + k
    BY <2>1, <2>2, <2>4 DEF Follows, Flows
  <2> HIDE DEF k, j
  <2>6. m \in 0..sent[t]
    BY <2>2, <2>4, <2>5
  <2>7. HandedOn(y.st[t], AgentPath', t, m, sent[t])
    <3>1. CASE ~y.st[t].live
      BY <3>1 DEF HandedOn
    <3>2. CASE y.st[t].live /\ t \in Direct
      <4>1. n = sent[t]
        BY <3>2, <2>1, <1>1 DEF HandedOn
      <4>2. Stored(y.st[t], t)
        BY DEF Good
      <4>3. j = 0
        BY <4>2, <3>2 DEF Stored, j
      <4>4. k = 0
        BY <3>2, <2>3
      <4>5. m = sent[t]
        BY <4>1, <4>3, <4>4, <2>2, <2>5
      <4> QED
        BY <4>5, <3>2 DEF HandedOn
    <3>3. CASE y.st[t].live /\ t \notin Direct
      <4>1. Carries(AgentPath, t, n + k, sent[t])
        BY <3>3, <2>1, <1>1 DEF HandedOn, k
      <4>2. Carries(AgentPath', t, m + j, sent[t])
        BY <4>1, <2>5
      <4> QED
        BY <4>2, <3>3, <2>5 DEF HandedOn, j
    <3> QED
      BY <3>1, <3>2, <3>3
  <2> QED
    BY <2>5, <2>6, <2>7
<1>4. FlagsFollow(t)'
  BY AgentHears DEF FlagsFollow, Follows
<1> QED
  BY <1>2, <1>3, <1>4 DEF Settled

\* A stream that ends is settled,
LEMMA SettledCloses ==
  ASSUME UpInv, NEW y, Becomes(y), NEW t \in Streams, relay[t].live,
         RelayPath' = PathOf(relayWire, y.out), Closes(relayWire, Here, y, t),
         UNCHANGED <<agent, client, service>>, sent'[t] \in Nat, sent[t] <= sent'[t]
  PROVE  Settled(t)'
<1>0. TypeOK /\ Settled(t)
  BY Parts
<1>1. relay' = y.st /\ ~y.st[t].live
  BY DEF Becomes, Closes
<1>h. /\ Here.st = relay /\ Here.toAgent = toAgent /\ RelayPath = PathOf(relayWire, Here.out)
  BY HereGood
<1>2. EndsOnce(RelayPath, t, relay[t].live, client[t].open)'
  <2>1. client[t].open \in BOOLEAN /\ relay[t].live = TRUE
    BY <1>0, Types DEF ClientRec, RelayRec
  <2>2. EndsOnce(RelayPath, t, TRUE, client[t].open)
    BY <2>1, <1>0 DEF Settled
  <2>3. EndsOnce(PathOf(relayWire, y.out), t, FALSE, client[t].open)
    BY <2>1, <2>2, <1>h DEF Closes
  <2>4. EndsOnce(PathOf(relayWire, y.out), t, y.st[t].live, client[t].open)
    BY <2>3, <1>1 DEF EndsOnce
  <2> QED
    BY <2>4, <1>1
<1>3. Ordered(t)'
  <2>1. Arrived(t)' = Arrived(t)
    BY DEF Arrived
  <2>2. \A n, m : HandedOn(y.st[t], AgentPath', t, n, m)
    BY <1>1 DEF HandedOn
  <2>3. ASSUME client[t].open
        PROVE  \E n \in 0..sent'[t] : Carries(PathOf(relayWire, y.out), t, Arrived(t), n)
    <3>1. PICK n \in 0..sent[t] : Carries(RelayPath, t, Arrived(t), n)
      BY <2>3, <1>0 DEF Settled, Ordered
    <3>2. n \in 0..sent'[t]
      BY <3>1, <1>0, ArrivedIsNat
    <3> QED
      BY <3>1, <3>2, <1>h DEF Closes
  <2> QED
    BY <2>1, <2>2, <2>3, <1>1 DEF Ordered
<1>4. FlagsFollow(t)'
  <2>1. Heard(Here, y, t)
    BY DEF Closes
  <2> QED
    BY <2>1, <1>1, <1>h, AgentHears DEF FlagsFollow
<1> QED
  BY <1>2, <1>3, <1>4 DEF Settled

\* so is one that had ended,
LEMMA SettledAnswered ==
  ASSUME UpInv, NEW y, Becomes(y), NEW t \in Streams, ~relay[t].live,
         RelayPath' = PathOf(relayWire, y.out), Answered(relayWire, Here, y, t),
         UNCHANGED <<agent, client, service, sent>>
  PROVE  Settled(t)'
<1>0. TypeOK /\ Settled(t)
  BY Parts
<1>h. /\ Here.st = relay /\ Here.toAgent = toAgent /\ RelayPath = PathOf(relayWire, Here.out)
  BY HereGood
<1>1. relay' = y.st /\ y.st[t] = relay[t] /\ RelayPath' = RelayPath
  BY <1>h DEF Becomes, Answered
<1>2. EndsOnce(RelayPath, t, relay[t].live, client[t].open)'
  BY <1>0, <1>1 DEF Settled
<1>3. Ordered(t)'
  <2>1. Arrived(t)' = Arrived(t)
    BY DEF Arrived
  <2>2. \A n, m : HandedOn(relay[t], AgentPath', t, n, m)
    BY DEF HandedOn
  <2> QED
    BY <2>1, <2>2, <1>0, <1>1 DEF Settled, Ordered
<1>4. FlagsFollow(t)'
  <2>1. Heard(Here, y, t)
    BY DEF Answered
  <2> QED
    BY <2>1, <1>1, <1>h, AgentHears DEF FlagsFollow
<1> QED
  BY <1>2, <1>3, <1>4 DEF Settled

\* and one whose next chunk c is taken.
LEMMA SettledAccepts ==
  ASSUME UpInv, NEW y, Becomes(y), Good(y, NoRest), NEW t \in Streams, NEW c \in Nat,
         relay[t].live, RelayPath' = PathOf(relayWire, y.out),
         Accepts(relayWire, Here, y, t, c),
         UNCHANGED <<agent, client, service, toRelay>>, sent'[t] \in Nat,
         \A n \in 0..sent[t] : HandedOn(relay[t], AgentPath, t, n, sent[t]) =>
            /\ NumberedFrom(relay[t].buffered, n) /\ c = (n + Len(relay[t].buffered)) + 1
            /\ c <= sent'[t]
            /\ IF t \in Direct THEN c = sent'[t] ELSE Carries(AgentPath', t, c, sent'[t])
  PROVE  Settled(t)'
<1>0. TypeOK /\ Settled(t)
  BY Parts
<1>h. /\ Here.st = relay /\ Here.toAgent = toAgent /\ RelayPath = PathOf(relayWire, Here.out)
  BY HereGood
<1>1. relay' = y.st /\ y.st[t].live = relay[t].live /\ y.st[t].peerPaused = relay[t].peerPaused
  BY <1>h DEF Becomes, Accepts
<1>2. EndsOnce(RelayPath, t, relay[t].live, client[t].open)'
  <2>1. client[t].open \in BOOLEAN /\ relay[t].live = TRUE
    BY <1>0, Types DEF ClientRec, RelayRec
  <2>2. EndsOnce(RelayPath, t, TRUE, client[t].open)
    BY <2>1, <1>0 DEF Settled
  <2>3. EndsOnce(PathOf(relayWire, y.out), t, TRUE, client[t].open)
    BY <2>1, <2>2, <1>h DEF Accepts, StillWrites
  <2> QED
    BY <2>1, <2>3, <1>1
<1>3. Ordered(t)'
  <2> SUFFICES ASSUME client[t].open
               PROVE  \E m \in 0..sent'[t] :
                         /\ Carries(PathOf(relayWire, y.out), t, Arrived(t), m)
                         /\ HandedOn(y.st[t], AgentPath', t, m, sent'[t])
    <3>1. Arrived(t)' = Arrived(t)
      BY DEF Arrived
    <3> QED
      BY <3>1, <1>1 DEF Ordered
  <2>1. PICK n \in 0..sent[t] : /\ Carries(RelayPath, t, Arrived(t), n)
                                /\ HandedOn(relay[t], AgentPath, t, n, sent[t])
    BY <1>0 DEF Settled, Ordered
  <2>2. /\ NumberedFrom(relay[t].buffered, n) /\ c = (n + Len(relay[t].buffered)) + 1
        /\ c <= sent'[t]
        /\ IF t \in Direct THEN c = sent'[t] ELSE Carries(AgentPath', t, c, sent'[t])
    BY <2>1
  <2>3. n \in Nat /\ Arrived(t) \in Nat
    BY <2>1, <1>0, ArrivedIsNat
  <2>4. PICK m \in Nat : /\ Carries(PathOf(relayWire, y.out), t, Arrived(t), m)
                         /\ NumberedFrom(y.st[t].buffered, m)
                         /\ m + Len(y.st[t].buffered) = c
    BY <2>1, <2>2, <2>3, <1>h DEF Accepts
  <2>5. Len(y.st[t].buffered) \in Nat
    <3>1. y.st[t] \in RelayRec
      BY StateFields DEF Good, Based
    <3> QED
      BY <3>1 DEF RelayRec
  <2>6. m \in 0..sent'[t]
    BY <2>2, <2>4, <2>5
  <2>7. CASE t \in Direct
    <3>1. Stored(y.st[t], t)
      BY DEF Good
    <3>2. Len(y.st[t].buffered) = 0
      BY <3>1, <2>7 DEF Stored
    <3>3. m = sent'[t]
      BY <3>2, <2>2, <2>4, <2>7
    <3>4. HandedOn(y.st[t], AgentPath', t, m, sent'[t])
      BY <3>3, <2>7 DEF HandedOn
    <3> QED
      BY <3>4, <2>4, <2>6
  <2>8. CASE t \notin Direct
    <3>1. HandedOn(y.st[t], AgentPath', t, m, sent'[t])
      BY <2>2, <2>4, <2>8 DEF HandedOn
    <3> QED
      BY <3>1, <2>4, <2>6
  <2> QED
    BY <2>7, <2>8
<1>4. FlagsFollow(t)'
  <2>1. Heard(Here, y, t)
    BY DEF Accepts
  <2>2. relay[t].live /\ client[t].open =>
           LastWord(toRelay, t, relay[t].peerPaused, client[t].backpressured)
    BY <1>0 DEF Settled, FlagsFollow
  <2> QED
    BY <2>1, <2>2, <1>1, <1>h, AgentHears DEF FlagsFollow
<1> QED
  BY <1>2, <1>3, <1>4 DEF Settled

-----------------------------------------------------------------------------
(* The frames of the agent at the relay.                                   *)

LEMMA RelayTakesAgentFrameStep ==
  ASSUME UpInv, RelayTakesAgentFrame
  PROVE  UpInv'
<1>0. TypeOK /\ FrameKinds /\ agentWire # <<>>
  BY Parts DEF RelayTakesAgentFrame
<1>f. PICK f \in Frames : f = Head(agentWire)
  <2>1. agentWire \in Seq(Frames)
    BY <1>0, Types
  <2> QED
    BY <2>1, <1>0
<1> DEFINE s == f.stream
           y == FromAgent(Here, f)
<1>u. /\ agentWire # <<>> /\ agentWire' = Tail(agentWire) /\ Becomes(y)
      /\ UNCHANGED <<sent, agent, agentOut, relayWire, client, service, toRelay>>
  BY <1>f DEF RelayTakesAgentFrame, agentVars, clientVars
<1>h. /\ Good(Here, NoRest) /\ Here.st = relay /\ Here.out = relayOut /\ Here.toAgent = toAgent
      /\ RelayPath = PathOf(relayWire, Here.out)
  BY HereGood
<1>p. /\ AgentPath # <<>> /\ Head(AgentPath) = f /\ AgentPath' = Tail(AgentPath)
      /\ AgentPath \in Seq(Frames) /\ f \in Frames /\ agentWire' \in Seq(Frames)
  <2>1. /\ PathOf(agentWire, agentOut) # <<>>
        /\ Head(PathOf(agentWire, agentOut)) = Head(agentWire)
        /\ PathOf(Tail(agentWire), agentOut) = Tail(PathOf(agentWire, agentOut))
        /\ Head(agentWire) \in Frames /\ Tail(agentWire) \in Seq(Frames)
    BY <1>0, <1>u, Types, PathTail
  <2> QED
    BY <2>1, <1>0, <1>u, <1>f, Types, PathTypes DEF AgentPath, PathOf
<1>d. /\ s \in Streams /\ s \notin Direct
      /\ \A i \in 1..Len(AgentPath') : AgentPath'[i].stream \notin Direct
  <2>1. Head(AgentPath) = AgentPath[1] /\ 1 \in 1..Len(AgentPath)
        /\ \A i \in 1..Len(Tail(AgentPath)) : i + 1 \in 1..Len(AgentPath)
                                              /\ Tail(AgentPath)[i] = AgentPath[i + 1]
    BY <1>p
  <2>2. \A i \in 1..Len(AgentPath) : AgentPath[i].stream \notin Direct
    BY <1>0 DEF FrameKinds
  <2> QED
    BY <2>1, <2>2, <1>p, FramesMade
<1>w. relayWire \in Seq(Frames)
  BY <1>0, Types
<1>e. Good(y, NoRest) /\ TakenIn(relayWire, Here, y, f)
  BY <1>d, <1>h, <1>p, <1>w, FromAgentEffect
<1> HIDE DEF y
<1>r. RelayPath' = PathOf(relayWire, y.out) /\ relay' = y.st
  BY <1>u DEF RelayPath, Becomes
<1>o. OthersKeep(relayWire, Here, y, s)
  BY <1>e DEF TakenIn, Answered, Closes, Accepts
<1>1. ASSUME NEW t \in Streams, t # s PROVE Settled(t)'
  <2>1. Follows(relayWire, Here, y, t) /\ y.st[t] = relay[t]
    BY <1>1, <1>h, <1>o, OthersFollow DEF OthersKeep
  <2>2. \A lo, hi : Carries(AgentPath, t, lo, hi) => Carries(AgentPath', t, lo, hi)
    BY <1>1, <1>p, CarriesTailOther
  <2>3. relay[t].live /\ client[t].open =>
           LastWord(toRelay, t, relay[t].peerPaused, client[t].backpressured)
    BY DEF UpInv, FlagsFollow
  <2>4. relay'[t].live /\ client[t].open =>
           LastWord(toRelay', t, relay'[t].peerPaused, client[t].backpressured)
    BY <2>1, <2>3, <1>r, <1>u
  <2> QED
    BY <2>1, <2>2, <2>4, <1>e, <1>h, <1>r, <1>u, SettledFollows
<1>2. Settled(s)'
  <2>0. sent[s] \in 0..Chunks /\ sent[s] \in Nat /\ sent' = sent
    BY <1>0, <1>d, <1>u, ArrivedIsNat
  <2>1. CASE ~relay[s].live /\ Answered(relayWire, Here, y, s)
    BY <2>1, <1>d, <1>r, <1>u, SettledAnswered
  <2>2. CASE relay[s].live /\ Closes(relayWire, Here, y, s)
    BY <2>0, <2>2, <1>d, <1>r, <1>u, SettledCloses
  <2>3. CASE relay[s].live /\ IsData(f) /\ Accepts(relayWire, Here, y, s, f.chunk)
    <3> DEFINE c == f.chunk
    <3>1. c \in 1..Chunks /\ c \in Nat
      <4>1. c \in 1..Chunks
        BY <2>3, <1>p, FramesMade
      <4> QED
        BY <4>1
    <3>2. ASSUME NEW n \in 0..sent[s], HandedOn(relay[s], AgentPath, s, n, sent[s])
          PROVE  /\ NumberedFrom(relay[s].buffered, n)
                 /\ c = (n + Len(relay[s].buffered)) + 1 /\ c <= sent[s]
                 /\ Carries(AgentPath', s, c, sent[s])
      <4> DEFINE k == Len(relay[s].buffered)
      <4>1. NumberedFrom(relay[s].buffered, n) /\ Carries(AgentPath, s, n + k, sent[s])
        BY <2>3, <3>2, <1>d DEF HandedOn
      <4>2. k \in Nat /\ n \in Nat /\ n + k \in Nat
        <5>1. relay[s] \in RelayRec
          BY <1>0, <1>d, Types
        <5>2. k \in Nat
          BY <5>1 DEF RelayRec
        <5> QED
          BY <5>2, <3>2
      <4> HIDE DEF k
      <4>3. /\ Head(AgentPath).chunk = (n + k) + 1 /\ (n + k) + 1 <= sent[s]
            /\ Carries(Tail(AgentPath), s, (n + k) + 1, sent[s])
        BY <4>1, <4>2, <2>0, <2>3, <1>p, FramesMade, CarriesTail
      <4> QED
        BY <4>1, <4>3, <1>p DEF k
    <3>3. \A n \in 0..sent[s] : HandedOn(relay[s], AgentPath, s, n, sent[s]) =>
             /\ NumberedFrom(relay[s].buffered, n) /\ c = (n + Len(relay[s].buffered)) + 1
             /\ c <= sent'[s]
             /\ IF s \in Direct THEN c = sent'[s] ELSE Carries(AgentPath', s, c, sent'[s])
      BY <3>2, <2>0, <1>d
    <3>4. relay[s].live /\ Accepts(relayWire, Here, y, s, c) /\ sent'[s] \in Nat
      BY <2>0, <2>3
    <3> HIDE DEF c
    <3> QED
      BY <3>1, <3>3, <3>4, <1>d, <1>e, <1>r, <1>u, SettledAccepts
  <2> QED
    BY <2>1, <2>2, <2>3, <1>e, <1>h DEF TakenIn
<1>3. \A t \in Streams : Settled(t)'
  BY <1>1, <1>2
<1> HIDE DEF s
<1> QED
  BY <1>0, <1>3, <1>d, <1>e, <1>p, <1>u, <1>w, Types, HandlerKeeps

-----------------------------------------------------------------------------
(* PAUSE and RESUME of the client at the relay.                            *)

Asked(r, b) == [r EXCEPT !.peerPaused = b]

LEMMA AskedFields ==
  ASSUME NEW r \in RelayRec, NEW b \in BOOLEAN
  PROVE  /\ Asked(r, b) \in RelayRec /\ Asked(r, b).peerPaused = b
         /\ Asked(r, b).live = r.live /\ Asked(r, b).buffered = r.buffered
         /\ Asked(r, b).paused = r.paused
         /\ Asked(r, b).wsPaused = r.wsPaused /\ Asked(r, b).pending = r.pending
BY DEF Asked, RelayRec

LEMMA RelayTakesControlStep ==
  ASSUME UpInv, RelayTakesControl
  PROVE  UpInv'
<1>0. TypeOK /\ FrameKinds /\ toRelay # <<>> /\ toRelay \in Seq(ControlFrames)
  BY Parts, Types DEF RelayTakesControl
<1>f. PICK f \in ControlFrames : f = Head(toRelay)
  BY <1>0
<1> DEFINE s == f.stream
           b == f.type = "PAUSE"
<1>u. /\ toRelay' = Tail(toRelay) /\ toRelay' \in Seq(ControlFrames)
      /\ UNCHANGED <<sent, agent, agentOut, agentWire, relayWire, client, service>>
      /\ AgentPath' = AgentPath
  BY <1>0 DEF RelayTakesControl, agentVars, clientVars, AgentPath
<1>s. s \in Streams /\ b \in BOOLEAN
  BY FramesMade
<1>h. /\ Good(Here, NoRest) /\ Here.st = relay /\ Here.out = relayOut /\ Here.toAgent = toAgent
      /\ RelayPath = PathOf(relayWire, Here.out)
  BY HereGood
<1>w. relayWire \in Seq(Frames) /\ agentWire \in Seq(Frames) /\ sent \in [Streams -> 0..Chunks]
      /\ \A i \in 1..Len(AgentPath) : AgentPath[i].stream \notin Direct
  BY <1>0, Types DEF FrameKinds
<1>l. ASSUME NEW t \in Streams, relay[t].live, client[t].open
      PROVE  LastWord(toRelay', t, IF s = t THEN b ELSE relay[t].peerPaused,
                      client[t].backpressured)
  <2>1. LastWord(toRelay, t, relay[t].peerPaused, client[t].backpressured)
    BY <1>l DEF UpInv, FlagsFollow
  <2> QED
    BY <2>1, <1>0, <1>f, <1>u, LastWordTail
<1>1. CASE ~relay[s].live
  <2>1. UNCHANGED <<relay, relayOut, toAgent>>
    BY <1>1, <1>f DEF RelayTakesControl, relayVars
  <2>2. Becomes(Here) /\ RelayPath' = PathOf(relayWire, Here.out)
    BY <2>1, <1>h, <1>u DEF Becomes, RelayPath
  <2>3. ASSUME NEW t \in Streams PROVE Settled(t)'
    <3>1. relay'[t].live /\ client[t].open =>
             LastWord(toRelay', t, relay'[t].peerPaused, client[t].backpressured)
      BY <1>1, <1>l, <2>1
    <3>2. Follows(relayWire, Here, Here, t)
      BY FollowsSame
    <3> QED
      BY <3>1, <3>2, <2>2, <1>h, <1>u, SettledFollows
  <2> QED
    BY <2>2, <2>3, <1>h, <1>u, <1>w, HandlerKeeps
<1>2. CASE relay[s].live
  <2> DEFINE r == Asked(relay[s], b)
             x == Replace(Here, s, r)
             y == SyncSocketReadState(x, s)
  <2>0. Based(Here, NoRest) /\ Here \in RelayStates /\ relay[s] \in RelayRec
    BY <1>0, <1>h, <1>s, Types DEF Good, Based
  <2>1. Becomes(y)
    <3>1. [Here EXCEPT !.st[s].peerPaused = b] = x
      BY <2>0, <1>h DEF Replace, Asked, RelayStates
    <3>2. Becomes(SyncSocketReadState([Here EXCEPT !.st[s].peerPaused = b], s))
      BY <1>2, <1>f DEF RelayTakesControl
    <3> HIDE DEF x
    <3> QED
      BY <3>1, <3>2
  <2>2. /\ r \in RelayRec /\ r.peerPaused = b
        /\ r.live = relay[s].live /\ r.buffered = relay[s].buffered
        /\ r.paused = relay[s].paused
        /\ r.wsPaused = relay[s].wsPaused /\ r.pending = relay[s].pending
    BY <2>0, <1>s, AskedFields
  <2> HIDE DEF r
  <2>3. /\ Based(x, NoRest) /\ x.st[s] = r /\ x.toAgent = toAgent /\ x.out = relayOut
        /\ OthersKeep(relayWire, Here, x, s)
    BY <2>0, <2>2, <1>h, <1>s, ReplaceEffect
  <2> HIDE DEF x
  <2>4. \A t \in Streams : t # s => x.st[t] = relay[t]
    BY <2>3, <1>h DEF OthersKeep
  <2>5. x.st[s].live /\ Stored(x.st[s], s)
    <3>1. Stored(relay[s], s)
      BY <1>s, Parts
    <3> QED
      BY <3>1, <2>2, <2>3, <1>2 DEF Stored
  <2>6. Fits(x.st, x.out)
    <3>1. ThrottledIn(x.st) = ThrottledIn(relay)
      BY <2>2, <2>3, <2>4 DEF ThrottledIn
    <3> QED
      BY <3>1, <2>3, Parts DEF Fits
  <2>7. Synced(relayWire, x, y, NoRest, s)
    BY <2>3, <2>5, <2>6, <1>s, <1>w, SyncEffect
  <2> HIDE DEF y
  <2>8. \A t \in Streams : t # s => Agreed(x.st[t]) /\ Stored(x.st[t], t)
    BY <2>4, Parts
  <2>9. Good(y, NoRest) /\ \A t \in Streams : Follows(relayWire, x, y, t)
    BY <2>7, <2>8, <1>s, GoodAfter
  <2>10. RelayPath' = PathOf(relayWire, y.out) /\ RelayPath = PathOf(relayWire, x.out)
    BY <2>1, <2>3, <1>u DEF Becomes, RelayPath
  <2>11. ASSUME NEW t \in Streams PROVE Settled(t)'
    <3>1. /\ x.st[t].live = relay[t].live /\ x.st[t].buffered = relay[t].buffered
          /\ x.st[t].paused = relay[t].paused
          /\ x.st[t].peerPaused = IF s = t THEN b ELSE relay[t].peerPaused
      BY <2>2, <2>3, <2>4
    <3>2. relay'[t].live = relay[t].live /\ relay'[t].peerPaused = x.st[t].peerPaused
      BY <3>1, <2>1, <2>9 DEF Becomes, Follows
    <3>3. relay'[t].live /\ client[t].open =>
             LastWord(toRelay', t, relay'[t].peerPaused, client[t].backpressured)
      BY <3>1, <3>2, <1>l
    <3> QED
      BY <3>1, <3>3, <2>1, <2>3, <2>9, <2>10, <1>u, SettledFollows
  <2> QED
    BY <2>1, <2>9, <2>11, <1>u, <1>w, HandlerKeeps
<1> QED
  BY <1>1, <1>2

-----------------------------------------------------------------------------
(* The end of a batch at the relay.                                        *)

LEMMA AmountIsNat ==
  ASSUME NEW out \in SenderOf(Frames)
  PROVE  BufferedAmount(out) \in Nat
<1>1. out.sending \in Seq(Frames) /\ out.waiting \in Seq(Frames)
  BY DEF SenderOf
<1>2. Cardinality(DataIn(out.sending)) \in Nat /\ Cardinality(DataIn(out.waiting)) \in Nat
  BY <1>1, DataInPlaces, PlacesFinite
<1> QED
  BY <1>2 DEF BufferedAmount

LEMMA RelayWrittenStep ==
  ASSUME UpInv, RelayWritten
  PROVE  UpInv'
<1> DEFINE out == Written(relayOut)
           x == [Here EXCEPT !.out = Written(@)]
<1>0. TypeOK /\ FrameKinds /\ relayOut \in SenderOf(Frames)
  BY Parts, Types
<1>b. PICK batch \in Seq(Frames) : batch = relayOut.sending
  BY <1>0 DEF SenderOf
<1>v. PICK w \in Seq(Frames) : w = relayWire \o relayOut.sending
  <2>1. relayWire \in Seq(Frames) /\ relayOut.sending \in Seq(Frames)
    BY <1>0, <1>b, Types
  <2>2. relayWire \o relayOut.sending \in Seq(Frames)
    BY <2>1
  <2> QED
    BY <2>2
<1> DEFINE y == Called(x, batch)
<1>u. /\ relayWire' = w /\ Becomes(y)
      /\ UNCHANGED <<sent, agent, agentOut, agentWire, client, service, toRelay>>
      /\ AgentPath' = AgentPath
  BY <1>b, <1>v DEF RelayWritten, agentVars, clientVars, AgentPath
<1>h. /\ Good(Here, NoRest) /\ Here.st = relay /\ Here.out = relayOut /\ Here.toAgent = toAgent
      /\ RelayPath = PathOf(relayWire, Here.out) /\ Here \in RelayStates
  BY HereGood DEF Good, Based
<1>w. /\ agentWire \in Seq(Frames) /\ sent \in [Streams -> 0..Chunks]
      /\ toRelay \in Seq(ControlFrames) /\ relayWire \in Seq(Frames)
      /\ \A i \in 1..Len(AgentPath) : AgentPath[i].stream \notin Direct
  BY <1>0, Types DEF FrameKinds
<1>o. out \in SenderOf(Frames) /\ NoIdleWaiting(out)
  BY <1>0, WrittenMoves
<1>x. x.st = relay /\ x.out = out /\ x.toAgent = toAgent /\ x \in RelayStates
  BY <1>h, <1>o DEF RelayStates
<1> HIDE DEF x
<1>r. /\ RestOf(batch, 0) = [t \in Streams |-> Cardinality(DataOf(batch, t))]
      /\ RestOf(batch, Len(batch)) = NoRest
  BY RestEnds DEF NoRest
<1>1. Based(x, RestOf(batch, 0))
  <2>1. ASSUME NEW t \in Streams
        PROVE  /\ Cardinality(DataOf(batch, t)) \in Nat
               /\ relay[t].pending = HeldOf(out, t) + Cardinality(DataOf(batch, t))
    <3> DEFINE a == HeldOf(relayOut, t)
               d == Cardinality(DataOf(batch, t))
               e == HeldOf(out, t)
    <3>1. e = a - d /\ a \in Nat /\ d \in Nat /\ e \in Nat
      BY <1>0, <1>b, HeldOfWritten
    <3>2. relay[t].pending = a
      BY Parts DEF Counted
    <3> HIDE DEF a, d, e
    <3>3. a = e + d
      BY <3>1
    <3> QED
      BY <3>1, <3>2, <3>3 DEF d, e
  <2>2. RestOf(batch, 0) \in [Streams -> Nat]
    BY <2>1, <1>r
  <2> HIDE DEF out
  <2>3. \A t \in Streams : x.st[t].pending = HeldOf(x.out, t) + RestOf(batch, 0)[t]
    BY <2>1, <1>r, <1>x
  <2> QED
    BY <2>2, <2>3, <1>o, <1>x DEF Based
<1>2. Fits(x.st, x.out)
  <2>1. BufferedAmount(out) <= BufferedAmount(relayOut) /\ BufferedAmount(out) \in Nat
    BY <1>0, WrittenBuffers
  <2>2. BufferedAmount(relayOut) <= RoomOf(ThrottledIn(relay))
    BY Parts DEF Fits
  <2>3. RoomOf(ThrottledIn(relay)) \in Nat
    <3>1. ThrottledIn(relay) \in SUBSET Streams
      BY DEF ThrottledIn
    <3> QED
      BY <3>1, RoomLeast
  <2>4. BufferedAmount(relayOut) \in Nat
    BY <1>0, AmountIsNat
  <2> HIDE DEF out
  <2>5. BufferedAmount(out) <= RoomOf(ThrottledIn(relay))
    BY <2>1, <2>2, <2>3, <2>4
  <2> QED
    BY <2>5, <1>x DEF Fits
<1>3. Good(x, RestOf(batch, 0))
  <2>1. \A t \in Streams : Agreed(x.st[t]) /\ Stored(x.st[t], t)
    BY <1>x, Parts
  <2> QED
    BY <2>1, <1>1, <1>2 DEF Good
<1>4. Good(y, NoRest) /\ \A t \in Streams : Follows(w, x, y, t)
  BY <1>3, <1>r, CalledEffect
<1> HIDE DEF y
<1>5. RelayPath = PathOf(w, x.out) /\ RelayPath' = PathOf(w, y.out)
  <2>1. PathOf(relayWire \o relayOut.sending, Written(relayOut)) = PathOf(relayWire, relayOut)
    BY <1>0, <1>w, PathWritten
  <2>2. RelayPath = PathOf(w, x.out)
    BY <2>1, <1>v, <1>x DEF RelayPath
  <2> QED
    BY <2>2, <1>u DEF RelayPath, Becomes
<1>6. ASSUME NEW t \in Streams PROVE Settled(t)'
  <2>1. relay'[t].live = relay[t].live /\ relay'[t].peerPaused = relay[t].peerPaused
    BY <1>4, <1>u, <1>x DEF Becomes, Follows
  <2>2. relay[t].live /\ client[t].open =>
           LastWord(toRelay, t, relay[t].peerPaused, client[t].backpressured)
    BY DEF UpInv, FlagsFollow
  <2>3. relay'[t].live /\ client[t].open =>
           LastWord(toRelay', t, relay'[t].peerPaused, client[t].backpressured)
    BY <2>1, <2>2, <1>u
  <2> QED
    BY <2>3, <1>4, <1>5, <1>u, <1>x, SettledFollows
<1> QED
  BY <1>4, <1>6, <1>u, <1>w, HandlerKeeps

-----------------------------------------------------------------------------
(* The socket of a direct connection.                                      *)

LEMMA DirectDataStep ==
  ASSUME UpInv, NEW s \in Streams, DirectData(s)
  PROVE  UpInv'
<1>0. TypeOK /\ FrameKinds /\ s \in Direct /\ relay[s].live /\ ~relay[s].paused
  BY Parts DEF DirectData, DirectReads
<1>1. /\ sent[s] \in 0..Chunks /\ sent[s] < Chunks /\ Chunks \in Nat /\ sent[s] \in Nat
      /\ sent \in [Streams -> 0..Chunks]
  BY <1>0, ArrivedIsNat, Types DEF DirectData
<1>c. PICK c \in 1..Chunks : c = sent[s] + 1
  BY <1>1
<1> DEFINE y == OnData(Here, s, c)
<1>u. /\ Becomes(y) /\ sent' = [sent EXCEPT ![s] = c]
      /\ UNCHANGED <<agent, agentOut, agentWire, relayWire, client, service, toRelay>>
      /\ AgentPath' = AgentPath
  BY <1>c DEF DirectData, clientVars, AgentPath
<1>h. /\ Good(Here, NoRest) /\ Here.st = relay /\ Here.out = relayOut /\ Here.toAgent = toAgent
      /\ RelayPath = PathOf(relayWire, Here.out)
  BY HereGood
<1>w. /\ agentWire \in Seq(Frames) /\ relayWire \in Seq(Frames) /\ toRelay \in Seq(ControlFrames)
      /\ \A i \in 1..Len(AgentPath) : AgentPath[i].stream \notin Direct
  BY <1>0, Types DEF FrameKinds
<1>n. /\ sent' \in [Streams -> 0..Chunks] /\ sent'[s] = c /\ c \in Nat
      /\ \A t \in Streams : t # s => sent'[t] = sent[t]
  BY <1>1, <1>u
<1>e. Good(y, NoRest) /\ Accepts(relayWire, Here, y, s, c)
  BY <1>0, <1>h, <1>w, OnDataAccepts
<1> HIDE DEF y
<1>r. RelayPath' = PathOf(relayWire, y.out) /\ relay' = y.st
  BY <1>u DEF RelayPath, Becomes
<1>2. ASSUME NEW t \in Streams, t # s PROVE Settled(t)'
  <2>1. Follows(relayWire, Here, y, t) /\ y.st[t] = relay[t]
    BY <1>2, <1>h, <1>e, OthersFollow DEF OthersKeep, Accepts
  <2>2. relay[t].live /\ client[t].open =>
           LastWord(toRelay, t, relay[t].peerPaused, client[t].backpressured)
    BY DEF UpInv, FlagsFollow
  <2>3. relay'[t].live /\ client[t].open =>
           LastWord(toRelay', t, relay'[t].peerPaused, client[t].backpressured)
    BY <2>1, <2>2, <1>r, <1>u
  <2>4. sent'[t] = sent[t]
    BY <1>2, <1>n
  <2> QED
    BY <2>1, <2>3, <2>4, <1>e, <1>h, <1>r, <1>u, SettledFollows
<1>3. Settled(s)'
  <2>1. relay[s].buffered = <<>>
    BY <1>0, Parts DEF Stored
  <2>2. ASSUME NEW n \in 0..sent[s], HandedOn(relay[s], AgentPath, s, n, sent[s])
        PROVE  /\ NumberedFrom(relay[s].buffered, n)
               /\ c = (n + Len(relay[s].buffered)) + 1
    <3>1. n = sent[s] /\ n \in Nat
      BY <2>2, <1>0 DEF HandedOn
    <3>2. NumberedFrom(relay[s].buffered, n) /\ n + Len(relay[s].buffered) = n
      BY <3>1, <2>1, EmptyNumbered
    <3> QED
      BY <3>1, <3>2, <1>c
  <2>3. \A n \in 0..sent[s] : HandedOn(relay[s], AgentPath, s, n, sent[s]) =>
             /\ NumberedFrom(relay[s].buffered, n) /\ c = (n + Len(relay[s].buffered)) + 1
             /\ c <= sent'[s]
             /\ IF s \in Direct THEN c = sent'[s] ELSE Carries(AgentPath', s, c, sent'[s])
    BY <2>2, <1>0, <1>n
  <2>4. sent'[s] \in Nat
    BY <1>n
  <2> QED
    BY <2>3, <2>4, <1>0, <1>e, <1>n, <1>r, <1>u, SettledAccepts
<1>4. \A t \in Streams : Settled(t)'
  BY <1>2, <1>3
<1> QED
  BY <1>4, <1>e, <1>n, <1>u, <1>w, HandlerKeeps

LEMMA DirectCloseStep ==
  ASSUME UpInv, NEW s \in Streams, DirectClose(s)
  PROVE  UpInv'
<1> DEFINE y == OnClose(Here, s)
<1>0. TypeOK /\ FrameKinds /\ relay[s].live
  BY Parts DEF DirectClose, DirectReads
<1>u. /\ Becomes(y)
      /\ UNCHANGED <<sent, agent, agentOut, agentWire, relayWire, client, service, toRelay>>
      /\ AgentPath' = AgentPath
  BY DEF DirectClose, agentVars, clientVars, AgentPath
<1>h. /\ Good(Here, NoRest) /\ Here.st = relay /\ Here.out = relayOut /\ Here.toAgent = toAgent
      /\ RelayPath = PathOf(relayWire, Here.out)
  BY HereGood
<1>w. /\ agentWire \in Seq(Frames) /\ relayWire \in Seq(Frames) /\ toRelay \in Seq(ControlFrames)
      /\ sent \in [Streams -> 0..Chunks]
      /\ \A i \in 1..Len(AgentPath) : AgentPath[i].stream \notin Direct
  BY <1>0, Types DEF FrameKinds
<1>e. Good(y, NoRest) /\ Closes(relayWire, Here, y, s)
  BY <1>h, <1>w, OnCloseEffect
<1> HIDE DEF y
<1>r. RelayPath' = PathOf(relayWire, y.out) /\ relay' = y.st
  BY <1>u DEF RelayPath, Becomes
<1>2. ASSUME NEW t \in Streams, t # s PROVE Settled(t)'
  <2>1. Follows(relayWire, Here, y, t) /\ y.st[t] = relay[t]
    BY <1>2, <1>h, <1>e, OthersFollow DEF OthersKeep, Closes
  <2>2. relay[t].live /\ client[t].open =>
           LastWord(toRelay, t, relay[t].peerPaused, client[t].backpressured)
    BY DEF UpInv, FlagsFollow
  <2>3. relay'[t].live /\ client[t].open =>
           LastWord(toRelay', t, relay'[t].peerPaused, client[t].backpressured)
    BY <2>1, <2>2, <1>r, <1>u
  <2> QED
    BY <2>1, <2>3, <1>e, <1>h, <1>r, <1>u, SettledFollows
<1>3. Settled(s)'
  <2>1. sent'[s] \in Nat /\ sent[s] <= sent'[s]
    BY <1>0, <1>u, ArrivedIsNat
  <2> QED
    BY <2>1, <1>0, <1>e, <1>r, <1>u, SettledCloses
<1>4. \A t \in Streams : Settled(t)'
  BY <1>2, <1>3
<1> QED
  BY <1>4, <1>e, <1>u, <1>w, HandlerKeeps

-----------------------------------------------------------------------------
(* What a step keeps that is not the relay's.                              *)

\* A stream whose path to the service does not change stays settled if the
\* agent's path goes on.
LEMMA SettledAtAgent ==
  ASSUME UpInv, NEW t \in Streams,
         UNCHANGED <<relay, relayOut, relayWire, client, service, toRelay>>,
         sent'[t] \in Nat, sent[t] <= sent'[t], t \in Direct => sent'[t] = sent[t],
         t \notin Direct => \A n \in Nat : Carries(AgentPath, t, n, sent[t]) =>
                                           Carries(AgentPath', t, n, sent'[t]),
         agent'[t].open => Tells(toAgent', t, agent'[t].peerPaused, relay[t].paused)
  PROVE  Settled(t)'
<1>0. TypeOK /\ Settled(t) /\ sent[t] \in Nat
  BY Parts, ArrivedIsNat
<1>1. RelayPath' = RelayPath /\ Arrived(t)' = Arrived(t)
  BY DEF RelayPath, Arrived
<1>2. Ordered(t)'
  <2> SUFFICES ASSUME client[t].open
               PROVE  \E n \in 0..sent'[t] : /\ Carries(RelayPath, t, Arrived(t), n)
                                             /\ HandedOn(relay[t], AgentPath', t, n, sent'[t])
    BY <1>1 DEF Ordered
  <2>1. PICK n \in 0..sent[t] : /\ Carries(RelayPath, t, Arrived(t), n)
                                /\ HandedOn(relay[t], AgentPath, t, n, sent[t])
    BY <1>0 DEF Settled, Ordered
  <2>2. n \in 0..sent'[t]
    BY <2>1, <1>0
  <2>3. HandedOn(relay[t], AgentPath', t, n, sent'[t])
    <3>1. CASE ~relay[t].live
      BY <3>1 DEF HandedOn
    <3>2. CASE relay[t].live /\ t \in Direct
      BY <3>2, <2>1 DEF HandedOn
    <3>3. CASE relay[t].live /\ t \notin Direct
      <4>1. n + Len(relay[t].buffered) \in Nat
        <5>1. relay[t] \in RelayRec
          BY <1>0, Types
        <5>2. Len(relay[t].buffered) \in Nat /\ n \in Nat
          BY <5>1 DEF RelayRec
        <5> QED
          BY <5>2
      <4> QED
        BY <4>1, <3>3, <2>1 DEF HandedOn
    <3> QED
      BY <3>1, <3>2, <3>3
  <2> QED
    BY <2>1, <2>2, <2>3
<1>3. EndsOnce(RelayPath, t, relay[t].live, client[t].open)'
  BY <1>0, <1>1 DEF Settled
<1>4. FlagsFollow(t)'
  BY <1>0 DEF Settled, FlagsFollow
<1> QED
  BY <1>2, <1>3, <1>4 DEF Settled

\* A step of an agent keeps what is said of the rest.
LEMMA AgentKeeps ==
  ASSUME UpInv, UNCHANGED <<relay, relayOut, relayWire, client, service, toRelay>>,
         sent' \in [Streams -> 0..Chunks], agent' \in [Streams -> AgentRec],
         agentOut' \in SenderOf(Frames), agentWire' \in Seq(Frames),
         toAgent' \in Seq(ControlFrames), NoIdleWaiting(agentOut'),
         \A i \in 1..Len(AgentPath') : AgentPath'[i].stream \notin Direct,
         \A s \in Streams : agent'[s].open \/ agent'[s].wsPaused => s \notin Direct,
         \A s \in Streams : agent'[s].pending = HeldOf(agentOut', s),
         AgentThrottled', \A s \in Streams : Settled(s)'
  PROVE  UpInv'
<1>0. /\ TypeOK /\ FrameKinds
      /\ \A s \in Streams : Agreed(relay[s]) /\ Stored(relay[s], s)
      /\ Fits(relay, relayOut)
      /\ (\A s \in Streams : Counted(s)) /\ \A s \in Streams : Received(s)
  BY Parts
<1>1. TypeOK'
  BY <1>0, Types, TypesNext
<1>2. FrameKinds'
  BY <1>0 DEF FrameKinds
<1>3. ASSUME NEW t \in Streams PROVE (Agreed(relay[t]) /\ Stored(relay[t], t))'
  BY <1>0
<1>4. Fits(relay, relayOut)'
  BY <1>0
<1>5. ASSUME NEW t \in Streams PROVE Counted(t)'
  BY <1>0 DEF Counted
<1>6. ASSUME NEW t \in Streams PROVE Received(t)'
  BY <1>0 DEF Received
<1> QED
  BY <1>1, <1>2, <1>3, <1>4, <1>5, <1>6, PartsNext

-----------------------------------------------------------------------------
(* The application's socket.                                               *)

\* the agent's entry with another count and pause
Recounted(r, pending, paused) == [r EXCEPT !.pending = pending, !.wsPaused = paused]

LEMMA RecountedFields ==
  ASSUME NEW r \in AgentRec, NEW n \in Nat, NEW b \in BOOLEAN
  PROVE  /\ Recounted(r, n, b) \in AgentRec
         /\ Recounted(r, n, b).open = r.open /\ Recounted(r, n, b).peerPaused = r.peerPaused
         /\ Recounted(r, n, b).pending = n /\ Recounted(r, n, b).wsPaused = b
BY DEF AgentRec, Recounted

\* the frames of the agent after a write
LEMMA AgentWrites ==
  ASSUME UpInv, NEW f \in Frames, f.stream \notin Direct, agentOut' = Write(agentOut, f),
         agentWire' = agentWire
  PROVE  /\ agentOut' \in SenderOf(Frames) /\ NoIdleWaiting(agentOut')
         /\ AgentPath' = Append(AgentPath, f) /\ AgentPath \in Seq(Frames)
         /\ \A i \in 1..Len(AgentPath') : AgentPath'[i].stream \notin Direct
         /\ BufferedAmount(agentOut) \in Nat
         /\ BufferedAmount(agentOut') = BufferedAmount(agentOut) + (IF IsData(f) THEN 1 ELSE 0)
         /\ \A t \in Streams : HeldOf(agentOut', t) =
               HeldOf(agentOut, t) + (IF IsData(f) /\ f.stream = t THEN 1 ELSE 0)
<1>0. /\ agentOut \in SenderOf(Frames) /\ agentWire \in Seq(Frames) /\ NoIdleWaiting(agentOut)
      /\ \A i \in 1..Len(AgentPath) : AgentPath[i].stream \notin Direct
  BY Types DEF UpInv, FrameKinds
<1>1. agentOut' \in SenderOf(Frames) /\ NoIdleWaiting(agentOut')
  BY <1>0, WriteAppends
<1>2. AgentPath' = Append(AgentPath, f) /\ AgentPath \in Seq(Frames)
  <2>1. PathOf(agentWire, Write(agentOut, f)) = Append(PathOf(agentWire, agentOut), f)
    BY <1>0, PathWrite
  <2> QED
    BY <2>1, <1>0, PathTypes DEF AgentPath, PathOf
<1>3. \A i \in 1..Len(AgentPath') : AgentPath'[i].stream \notin Direct
  <2> DEFINE v == Append(AgentPath, f)
  <2>1. \A i \in 1..Len(v) : (i \in 1..Len(AgentPath) /\ v[i] = AgentPath[i]) \/ v[i] = f
    BY <1>2
  <2> QED
    BY <2>1, <1>0, <1>2
<1>4. /\ BufferedAmount(agentOut) \in Nat
      /\ BufferedAmount(agentOut') = BufferedAmount(agentOut) + (IF IsData(f) THEN 1 ELSE 0)
  BY <1>0, WriteBuffers
<1>5. \A t \in Streams : HeldOf(agentOut', t) =
         HeldOf(agentOut, t) + (IF IsData(f) /\ f.stream = t THEN 1 ELSE 0)
  BY <1>0, HeldOfWrite
<1> QED
  BY <1>1, <1>2, <1>3, <1>4, <1>5

LEMMA AppDataStep ==
  ASSUME UpInv, NEW s \in Streams, AppData(s)
  PROVE  UpInv'
<1> DEFINE full == BufferedAmount(agentOut') > WsHigh
           r == Recounted(agent[s], agent[s].pending + 1, full)
<1>0. TypeOK /\ FrameKinds /\ AgentThrottled /\ agent[s].open /\ ~agent[s].wsPaused
  BY Parts DEF AppData, AgentReads
<1>d. s \notin Direct
  BY <1>0 DEF FrameKinds
<1>1. /\ sent[s] \in 0..Chunks /\ sent[s] < Chunks /\ Chunks \in Nat /\ sent[s] \in Nat
      /\ sent \in [Streams -> 0..Chunks]
  BY <1>0, ArrivedIsNat, Types DEF AppData
<1>c. PICK c \in 1..Chunks : c = sent[s] + 1
  BY <1>1
<1>f. PICK f \in Frames : f = Data(s, c)
  BY FramesMade
<1>g. f.stream = s /\ f.chunk = c /\ IsData(f)
  BY <1>f, FrameFields
<1>u. /\ agentOut' = Write(agentOut, f) /\ sent' = [sent EXCEPT ![s] = c]
      /\ agent' = [agent EXCEPT ![s].pending = @ + 1, ![s].wsPaused = full]
      /\ UNCHANGED <<agentWire, relay, relayOut, toAgent, relayWire, client, service, toRelay>>
  BY <1>c, <1>f DEF AppData, relayVars, clientVars
<1>w. /\ agentOut' \in SenderOf(Frames) /\ NoIdleWaiting(agentOut')
      /\ AgentPath' = Append(AgentPath, f) /\ AgentPath \in Seq(Frames)
      /\ \A i \in 1..Len(AgentPath') : AgentPath'[i].stream \notin Direct
      /\ BufferedAmount(agentOut) \in Nat
      /\ BufferedAmount(agentOut') = BufferedAmount(agentOut) + (IF IsData(f) THEN 1 ELSE 0)
      /\ \A t \in Streams : HeldOf(agentOut', t) =
            HeldOf(agentOut, t) + (IF IsData(f) /\ f.stream = t THEN 1 ELSE 0)
  BY <1>d, <1>g, <1>u, AgentWrites
<1>n. /\ sent' \in [Streams -> 0..Chunks] /\ sent'[s] = c /\ c \in Nat
      /\ \A t \in Streams : t # s => sent'[t] = sent[t]
  BY <1>1, <1>u
<1>t. /\ agent \in [Streams -> AgentRec] /\ agent[s] \in AgentRec
      /\ \A t \in Streams : agent[t].pending \in Nat
      /\ toAgent \in Seq(ControlFrames) /\ agentWire \in Seq(Frames)
  BY <1>0, Types DEF AgentRec
<1>a. agent' = [agent EXCEPT ![s] = r]
  BY <1>t, <1>u DEF Recounted
<1>r. /\ r \in AgentRec /\ r.open = agent[s].open /\ r.peerPaused = agent[s].peerPaused
      /\ r.pending = agent[s].pending + 1 /\ r.wsPaused = full
  <2>1. full \in BOOLEAN /\ agent[s].pending + 1 \in Nat
    BY <1>t
  <2> HIDE DEF full
  <2> QED
    BY <2>1, <1>t, RecountedFields, SMTT(20)
<1> HIDE DEF r
<1>b. /\ agent' \in [Streams -> AgentRec] /\ agent'[s] = r
      /\ \A t \in Streams : t # s => agent'[t] = agent[t]
  BY <1>a, <1>r, <1>t
<1>2. \A t \in Streams : agent'[t].open \/ agent'[t].wsPaused => t \notin Direct
  BY <1>0, <1>b, <1>d DEF FrameKinds
<1>3. ASSUME NEW t \in Streams PROVE agent'[t].pending = HeldOf(agentOut', t)
  <2>1. agent[t].pending = HeldOf(agentOut, t)
    BY Parts DEF Counted
  <2>2. CASE t = s
    BY <2>1, <2>2, <1>b, <1>g, <1>r, <1>w
  <2>3. CASE t # s
    <3>1. HeldOf(agentOut', t) = HeldOf(agentOut, t) + 0
      BY <2>3, <1>g, <1>w
    <3> QED
      BY <3>1, <2>1, <2>3, <1>b, <1>t
  <2> QED
    BY <2>2, <2>3
<1>4. AgentThrottled'
  <2> DEFINE P == {t \in Streams : agent[t].wsPaused}
             Q == {t \in Streams : agent'[t].wsPaused}
  <2>1. BufferedAmount(agentOut) \in Nat /\ BufferedAmount(agentOut') = BufferedAmount(agentOut) + 1
    BY <1>g, <1>w
  <2>2. IsFiniteSet(P) /\ IsFiniteSet(Q) /\ Cardinality(P) \in Nat /\ Cardinality(Q) \in Nat
    BY UpFlowAssumption, FS_Subset, FS_CardinalityType
  <2>3. BufferedAmount(agentOut) <= WsHigh + Cardinality(P) /\ WsHigh \in Nat
    BY <1>0, UpFlowAssumption DEF AgentThrottled
  <2>4. CASE full
    <3>1. s \notin P
      BY <1>0
    <3>2. Q = P \cup {s}
      BY <1>b, <1>r, <2>4
    <3>3. Cardinality(Q) = Cardinality(P) + 1
      BY <3>1, <3>2, <2>2, FS_AddElement
    <3>4. BufferedAmount(agentOut') <= WsHigh + Cardinality(Q)
      BY <3>3, <2>1, <2>2, <2>3
    <3> QED
      BY <3>4 DEF AgentThrottled
  <2>5. CASE ~full
    <3>1. BufferedAmount(agentOut') <= WsHigh
      BY <2>5, <2>1, <2>3
    <3>2. BufferedAmount(agentOut') <= WsHigh + Cardinality(Q)
      BY <3>1, <2>1, <2>2, <2>3
    <3> QED
      BY <3>2 DEF AgentThrottled
  <2> QED
    BY <2>4, <2>5
<1>5. ASSUME NEW t \in Streams PROVE Settled(t)'
  <2>1. agent'[t].open => Tells(toAgent', t, agent'[t].peerPaused, relay[t].paused)
    <3>1. agent'[t].open = agent[t].open /\ agent'[t].peerPaused = agent[t].peerPaused
      BY <1>b, <1>r
    <3> QED
      BY <3>1, <1>u DEF UpInv, FlagsFollow
  <2>2. /\ sent'[t] \in Nat /\ sent[t] <= sent'[t] /\ (t \in Direct => sent'[t] = sent[t])
    BY <1>0, <1>1, <1>c, <1>d, <1>n, ArrivedIsNat
  <2>3. ASSUME NEW n \in Nat, Carries(AgentPath, t, n, sent[t])
        PROVE  Carries(AgentPath', t, n, sent'[t])
    <3>1. CASE t = s
      BY <2>3, <3>1, <1>1, <1>c, <1>g, <1>n, <1>w, FramesMade, CarriesAppend
    <3>2. CASE t # s
      BY <2>3, <3>2, <1>g, <1>n, <1>w, CarriesAppendOther
    <3> QED
      BY <3>1, <3>2
  <2> QED
    BY <2>1, <2>2, <2>3, <1>u, SettledAtAgent
<1> QED
  BY <1>2, <1>3, <1>4, <1>5, <1>b, <1>n, <1>t, <1>u, <1>w, AgentKeeps

LEMMA AppCloseStep ==
  ASSUME UpInv, NEW s \in Streams, AppClose(s)
  PROVE  UpInv'
<1>0. TypeOK /\ FrameKinds /\ AgentThrottled /\ agent[s].open
  BY Parts DEF AppClose, AgentReads
<1>d. s \notin Direct
  BY <1>0 DEF FrameKinds
<1>f. PICK f \in Frames : f = Control("TCP_CLOSE", s)
  BY FramesMade
<1>g. f.stream = s /\ ~IsData(f)
  BY <1>f, FrameFields
<1>u. /\ agentOut' = Write(agentOut, f) /\ agent' = [agent EXCEPT ![s].open = FALSE]
      /\ UNCHANGED <<sent, agentWire, relay, relayOut, toAgent, relayWire, client, service, toRelay>>
  BY <1>f DEF AppClose, relayVars, clientVars
<1>w. /\ agentOut' \in SenderOf(Frames) /\ NoIdleWaiting(agentOut')
      /\ AgentPath' = Append(AgentPath, f) /\ AgentPath \in Seq(Frames)
      /\ \A i \in 1..Len(AgentPath') : AgentPath'[i].stream \notin Direct
      /\ BufferedAmount(agentOut) \in Nat
      /\ BufferedAmount(agentOut') = BufferedAmount(agentOut) + (IF IsData(f) THEN 1 ELSE 0)
      /\ \A t \in Streams : HeldOf(agentOut', t) =
            HeldOf(agentOut, t) + (IF IsData(f) /\ f.stream = t THEN 1 ELSE 0)
  BY <1>d, <1>g, <1>u, AgentWrites
<1>t. /\ agent \in [Streams -> AgentRec] /\ \A t \in Streams : agent[t].pending \in Nat
      /\ toAgent \in Seq(ControlFrames) /\ agentWire \in Seq(Frames)
      /\ sent \in [Streams -> 0..Chunks] /\ \A t \in Streams : sent[t] \in Nat
  BY <1>0, Types, ArrivedIsNat DEF AgentRec
<1>b. /\ agent' \in [Streams -> AgentRec] /\ ~agent'[s].open
      /\ agent'[s].wsPaused = agent[s].wsPaused /\ agent'[s].pending = agent[s].pending
      /\ \A t \in Streams : t # s => agent'[t] = agent[t]
  BY <1>t, <1>u DEF AgentRec
<1>2. \A t \in Streams : agent'[t].open \/ agent'[t].wsPaused => t \notin Direct
  BY <1>0, <1>b, <1>d DEF FrameKinds
<1>3. ASSUME NEW t \in Streams PROVE agent'[t].pending = HeldOf(agentOut', t)
  <2>1. agent[t].pending = HeldOf(agentOut, t) /\ agent'[t].pending = agent[t].pending
    BY <1>b, Parts DEF Counted
  <2>2. HeldOf(agentOut', t) = HeldOf(agentOut, t) + 0
    BY <1>g, <1>w
  <2> QED
    BY <2>1, <2>2, <1>t
<1>4. AgentThrottled'
  <2>1. {t \in Streams : agent'[t].wsPaused} = {t \in Streams : agent[t].wsPaused}
    BY <1>b
  <2>2. BufferedAmount(agentOut') = BufferedAmount(agentOut)
    BY <1>g, <1>w
  <2> QED
    BY <2>1, <2>2, <1>0 DEF AgentThrottled
<1>5. ASSUME NEW t \in Streams PROVE Settled(t)'
  <2>1. agent'[t].open => Tells(toAgent', t, agent'[t].peerPaused, relay[t].paused)
    <3>1. agent'[t].open => agent[t].open /\ agent'[t].peerPaused = agent[t].peerPaused
      BY <1>b
    <3> QED
      BY <3>1, <1>u DEF UpInv, FlagsFollow
  <2>2. /\ sent'[t] \in Nat /\ sent[t] <= sent'[t] /\ sent'[t] = sent[t]
    BY <1>t, <1>u
  <2>3. \A n \in Nat : Carries(AgentPath, t, n, sent[t]) => Carries(AgentPath', t, n, sent'[t])
    BY <2>2, <1>g, <1>w, CarriesAppendOther
  <2> QED
    BY <2>1, <2>2, <2>3, <1>u, SettledAtAgent
<1> QED
  BY <1>2, <1>3, <1>4, <1>5, <1>b, <1>t, <1>u, <1>w, AgentKeeps

-----------------------------------------------------------------------------
(* The end of a batch at the agent.                                        *)

\* the agent's entry of s after the callbacks of the batch
LEMMA AgentCallbacksFields ==
  ASSUME TypeOK, NEW s \in Streams, Counted(s)
  PROVE  LET r == AgentCallbacks(s, agentOut.sending, Written(agentOut))
         IN  /\ r \in AgentRec
             /\ r.open = agent[s].open /\ r.peerPaused = agent[s].peerPaused
             /\ r.pending = HeldOf(Written(agentOut), s)
             /\ r.wsPaused => agent[s].wsPaused
             /\ agent[s].wsPaused /\ ~r.wsPaused => BufferedAmount(Written(agentOut)) <= WsLow
<1> DEFINE n == Cardinality(DataOf(agentOut.sending, s))
           left == agent[s].pending - n
           wake == n > 0 /\ left = 0 /\ BufferedAmount(Written(agentOut)) <= WsLow /\ agent[s].open
           paused == agent[s].wsPaused /\ ~wake
<1>1. left = HeldOf(Written(agentOut), s) /\ left \in Nat
  BY Types, HeldOfWritten DEF Counted
<1>2. agent[s] \in AgentRec
  BY Types
<1>3. agent[s].wsPaused \in BOOLEAN
  BY <1>2 DEF AgentRec
<1>4. AgentCallbacks(s, agentOut.sending, Written(agentOut)) = Recounted(agent[s], left, paused)
  BY DEF AgentCallbacks, Recounted
<1>5. paused \in BOOLEAN
  BY <1>3
<1>6. agent[s].wsPaused /\ ~paused => BufferedAmount(Written(agentOut)) <= WsLow
  OBVIOUS
<1>7. paused => agent[s].wsPaused
  OBVIOUS
<1> HIDE DEF left, paused
<1>8. /\ Recounted(agent[s], left, paused) \in AgentRec
      /\ Recounted(agent[s], left, paused).open = agent[s].open
      /\ Recounted(agent[s], left, paused).peerPaused = agent[s].peerPaused
      /\ Recounted(agent[s], left, paused).pending = left
      /\ Recounted(agent[s], left, paused).wsPaused = paused
  BY <1>1, <1>2, <1>5, RecountedFields
<1> QED
  BY <1>1, <1>4, <1>6, <1>7, <1>8

LEMMA AgentWrittenStep ==
  ASSUME UpInv, AgentWritten
  PROVE  UpInv'
<1>0. /\ TypeOK /\ FrameKinds /\ AgentThrottled /\ (\A t \in Streams : Counted(t))
      /\ agentOut \in SenderOf(Frames) /\ agentWire \in Seq(Frames)
      /\ toAgent \in Seq(ControlFrames) /\ sent \in [Streams -> 0..Chunks]
      /\ \A t \in Streams : sent[t] \in Nat
  BY Parts, Types, ArrivedIsNat
<1>u. UNCHANGED <<sent, relay, relayOut, toAgent, relayWire, client, service, toRelay>>
  BY DEF AgentWritten, relayVars, clientVars
<1>c. agentOut' = Written(agentOut) /\ agentWire' = agentWire \o agentOut.sending
  BY DEF AgentWritten
<1>d. agent' = [t \in Streams |-> AgentCallbacks(t, agentOut.sending, Written(agentOut))]
  BY <1>c DEF AgentWritten
<1>r. ASSUME NEW t \in Streams
      PROVE  /\ agent'[t] \in AgentRec
             /\ agent'[t].open = agent[t].open /\ agent'[t].peerPaused = agent[t].peerPaused
             /\ agent'[t].pending = HeldOf(agentOut', t)
             /\ agent'[t].wsPaused => agent[t].wsPaused
             /\ agent[t].wsPaused /\ ~agent'[t].wsPaused => BufferedAmount(agentOut') <= WsLow
  <2>1. agent'[t] = AgentCallbacks(t, agentOut.sending, Written(agentOut))
    BY <1>d
  <2> QED
    BY <2>1, <1>0, <1>c, AgentCallbacksFields
<1>w. agentOut' \in SenderOf(Frames) /\ NoIdleWaiting(agentOut')
  BY <1>0, <1>c, WrittenMoves
<1>t. AgentPath' = AgentPath
  <2>1. PathOf(agentWire \o agentOut.sending, Written(agentOut)) = PathOf(agentWire, agentOut)
    BY <1>0, PathWritten
  <2> QED
    BY <2>1, <1>c DEF AgentPath, PathOf
<1>1. agent' \in [Streams -> AgentRec] /\ agentWire' \in Seq(Frames)
  <2>1. agent' \in [Streams -> AgentRec]
    BY <1>d, <1>r
  <2>2. agentOut.sending \in Seq(Frames)
    BY <1>0 DEF SenderOf
  <2>3. agentWire' \in Seq(Frames)
    BY <2>2, <1>0, <1>c
  <2> QED
    BY <2>1, <2>3
<1>2. /\ \A i \in 1..Len(AgentPath') : AgentPath'[i].stream \notin Direct
      /\ \A t \in Streams : agent'[t].open \/ agent'[t].wsPaused => t \notin Direct
  BY <1>0, <1>r, <1>t DEF FrameKinds
<1>4. AgentThrottled'
  <2> DEFINE P == {t \in Streams : agent[t].wsPaused}
             Q == {t \in Streams : agent'[t].wsPaused}
  <2>1. /\ BufferedAmount(agentOut') \in Nat /\ BufferedAmount(agentOut') <= BufferedAmount(agentOut)
        /\ BufferedAmount(agentOut) \in Nat
    BY <1>0, <1>c, WrittenBuffers, AmountIsNat
  <2>2. IsFiniteSet(P) /\ IsFiniteSet(Q) /\ Cardinality(P) \in Nat /\ Cardinality(Q) \in Nat
    BY UpFlowAssumption, FS_Subset, FS_CardinalityType
  <2>3. BufferedAmount(agentOut) <= WsHigh + Cardinality(P) /\ WsHigh \in Nat /\ WsLow \in Nat
        /\ WsLow < WsHigh
    BY <1>0, UpFlowAssumption DEF AgentThrottled
  <2>5. CASE P = Q
    <3>0. Cardinality(P) = Cardinality(Q)
      BY <2>5
    <3>1. BufferedAmount(agentOut') <= WsHigh + Cardinality(Q)
      <4> HIDE DEF P, Q
      <4> QED
        BY <3>0, <2>1, <2>2, <2>3
    <3> QED
      BY <3>1 DEF AgentThrottled
  <2>6. CASE P # Q
    <3>1. BufferedAmount(agentOut') <= WsLow
      BY <2>6, <1>r
    <3>2. BufferedAmount(agentOut') <= WsHigh + Cardinality(Q)
      BY <3>1, <2>1, <2>2, <2>3
    <3> QED
      BY <3>2 DEF AgentThrottled
  <2> QED
    BY <2>5, <2>6
<1>5. ASSUME NEW t \in Streams PROVE Settled(t)'
  <2>1. agent'[t].open => Tells(toAgent', t, agent'[t].peerPaused, relay[t].paused)
    <3>1. agent'[t].open = agent[t].open /\ agent'[t].peerPaused = agent[t].peerPaused
      BY <1>r
    <3> QED
      BY <3>1, <1>u DEF UpInv, FlagsFollow
  <2>2. /\ sent'[t] \in Nat /\ sent[t] <= sent'[t] /\ sent'[t] = sent[t]
    BY <1>0, <1>u
  <2> QED
    BY <2>1, <2>2, <1>t, <1>u, SettledAtAgent
<1> QED
  BY <1>0, <1>1, <1>2, <1>4, <1>5, <1>r, <1>u, <1>w, AgentKeeps

-----------------------------------------------------------------------------
(* PAUSE, RESUME and TCP_ABORT at the agent.                               *)

LEMMA AgentControlStep ==
  ASSUME UpInv, AgentControl
  PROVE  UpInv'
<1>0. /\ TypeOK /\ FrameKinds /\ AgentThrottled /\ (\A t \in Streams : Counted(t))
      /\ agent \in [Streams -> AgentRec] /\ agentOut \in SenderOf(Frames)
      /\ agentWire \in Seq(Frames) /\ sent \in [Streams -> 0..Chunks]
      /\ \A t \in Streams : sent[t] \in Nat
  BY Parts, Types, ArrivedIsNat
<1>1. toAgent # <<>> /\ toAgent \in Seq(ControlFrames)
  BY <1>0, Types DEF AgentControl
<1>f. PICK f \in ControlFrames : f = Head(toAgent)
  BY <1>1
<1> DEFINE s == f.stream
           b == f.type = "PAUSE"
<1>u. /\ toAgent' = Tail(toAgent) /\ toAgent' \in Seq(ControlFrames)
      /\ agent' = IF ~agent[s].open THEN agent
                  ELSE IF f.type = "TCP_ABORT" THEN [agent EXCEPT ![s].open = FALSE]
                  ELSE [agent EXCEPT ![s].peerPaused = b]
      /\ UNCHANGED <<sent, agentOut, agentWire, relay, relayOut, relayWire, client, service, toRelay>>
      /\ AgentPath' = AgentPath
  BY <1>1, <1>f DEF AgentControl, clientVars, AgentPath
<1>s. s \in Streams /\ b \in BOOLEAN
  BY FramesMade
<1>r. /\ agent' \in [Streams -> AgentRec]
      /\ \A t \in Streams : /\ agent'[t].open => agent[t].open
                            /\ agent'[t].wsPaused = agent[t].wsPaused
                            /\ agent'[t].pending = agent[t].pending
                            /\ agent'[t].open =>
                                  agent'[t].peerPaused = IF s = t THEN b ELSE agent[t].peerPaused
  <2>1. CASE ~agent[s].open
    BY <2>1, <1>0, <1>u
  <2>2. CASE agent[s].open /\ f.type = "TCP_ABORT"
    BY <2>2, <1>0, <1>s, <1>u DEF AgentRec
  <2>3. CASE agent[s].open /\ f.type # "TCP_ABORT"
    <3>1. agent' = [agent EXCEPT ![s].peerPaused = b]
      BY <2>3, <1>u
    <3> HIDE DEF b
    <3> QED
      BY <3>1, <1>0, <1>s DEF AgentRec
  <2> QED
    BY <2>1, <2>2, <2>3
<1>2. /\ NoIdleWaiting(agentOut)
      /\ \A i \in 1..Len(AgentPath') : AgentPath'[i].stream \notin Direct
      /\ \A t \in Streams : agent'[t].open \/ agent'[t].wsPaused => t \notin Direct
  BY <1>0, <1>r, <1>u DEF FrameKinds
<1>3. \A t \in Streams : agent'[t].pending = HeldOf(agentOut', t)
  BY <1>0, <1>r, <1>u DEF Counted
<1>4. AgentThrottled'
  <2>1. {t \in Streams : agent'[t].wsPaused} = {t \in Streams : agent[t].wsPaused}
    BY <1>r
  <2> QED
    BY <2>1, <1>0, <1>u DEF AgentThrottled
<1>5. ASSUME NEW t \in Streams PROVE Settled(t)'
  <2>1. agent'[t].open => Tells(toAgent', t, agent'[t].peerPaused, relay[t].paused)
    <3> SUFFICES ASSUME agent'[t].open
                 PROVE  Tells(Tail(toAgent), t, IF s = t THEN b ELSE agent[t].peerPaused,
                              relay[t].paused)
      BY <1>r, <1>u
    <3>1. PICK v \in BOOLEAN : /\ LastWord(toAgent, t, agent[t].peerPaused, v)
                               /\ v => relay[t].paused
      BY <1>r DEF UpInv, FlagsFollow, Tells
    <3>2. LastWord(Tail(toAgent), t, IF s = t THEN b ELSE agent[t].peerPaused, v)
      BY <3>1, <1>1, <1>f, LastWordTail
    <3> QED
      BY <3>1, <3>2 DEF Tells
  <2>2. /\ sent'[t] \in Nat /\ sent[t] <= sent'[t] /\ sent'[t] = sent[t]
    BY <1>0, <1>u
  <2> QED
    BY <2>1, <2>2, <1>u, SettledAtAgent
<1> QED
  BY <1>0, <1>2, <1>3, <1>4, <1>5, <1>r, <1>u, AgentKeeps

-----------------------------------------------------------------------------
(* What a step of the client keeps.                                        *)

\* The relay will know of each local socket what it says after the step.
ToRelayFollows ==
    /\ toRelay' \in Seq(ControlFrames)
    /\ \A t \in Streams : \A was :
          LastWord(toRelay, t, was, client[t].backpressured) =>
             LastWord(toRelay', t, was, client'[t].backpressured)

\* It is told,
LEMMA ClientTells ==
  ASSUME TypeOK, NEW f \in ControlFrames, toRelay' = Append(toRelay, f),
         (f.type = "PAUSE") = client'[f.stream].backpressured,
         \A t \in Streams : t # f.stream => client'[t].backpressured = client[t].backpressured
  PROVE  ToRelayFollows
<1>1. toRelay \in Seq(ControlFrames)
  BY Types
<1>2. /\ ToldKeeps(toRelay, Append(toRelay, f), f.stream)
      /\ \A was : LastWord(Append(toRelay, f), f.stream, was, f.type = "PAUSE")
  BY <1>1, TellKeeps
<1>3. toRelay' \in Seq(ControlFrames)
  BY <1>1
<1>4. ASSUME NEW t \in Streams, NEW was, LastWord(toRelay, t, was, client[t].backpressured)
      PROVE  LastWord(toRelay', t, was, client'[t].backpressured)
  <2>1. CASE t = f.stream
    BY <2>1, <1>2
  <2>2. CASE t # f.stream
    BY <2>2, <1>2, <1>4 DEF ToldKeeps
  <2> QED
    BY <2>1, <2>2
<1> QED
  BY <1>3, <1>4 DEF ToRelayFollows

\* or there is nothing to tell.
LEMMA ClientTellsNothing ==
  ASSUME TypeOK, toRelay' = toRelay,
         \A t \in Streams : client'[t].backpressured = client[t].backpressured
  PROVE  ToRelayFollows
BY Types DEF ToRelayFollows

\* A stream stays settled if its frames go on to its local socket.
LEMMA SettledAtClient ==
  ASSUME UpInv, NEW t \in Streams, ToRelayFollows,
         UNCHANGED <<sent, agent, agentOut, agentWire, relay, relayOut, toAgent>>,
         client'[t].open => client[t].open,
         EndsOnce(RelayPath', t, relay[t].live, client'[t].open),
         client'[t].open => \A n \in Nat : Carries(RelayPath, t, Arrived(t), n) =>
                                           Carries(RelayPath', t, Arrived(t)', n)
  PROVE  Settled(t)'
<1>0. TypeOK /\ Settled(t) /\ sent[t] \in Nat
  BY Parts, ArrivedIsNat
<1>1. AgentPath' = AgentPath
  BY DEF AgentPath
<1>2. Ordered(t)'
  <2> SUFFICES ASSUME client'[t].open
               PROVE  \E n \in 0..sent[t] : /\ Carries(RelayPath', t, Arrived(t)', n)
                                            /\ HandedOn(relay[t], AgentPath, t, n, sent[t])
    BY <1>1 DEF Ordered
  <2>1. PICK n \in 0..sent[t] : /\ Carries(RelayPath, t, Arrived(t), n)
                                /\ HandedOn(relay[t], AgentPath, t, n, sent[t])
    BY <1>0 DEF Settled, Ordered
  <2>2. n \in Nat
    BY <2>1, <1>0
  <2> QED
    BY <2>1, <2>2
<1>3. EndsOnce(RelayPath, t, relay[t].live, client[t].open)'
  OBVIOUS
<1>4. FlagsFollow(t)'
  BY <1>0 DEF Settled, FlagsFollow, ToRelayFollows
<1> QED
  BY <1>2, <1>3, <1>4 DEF Settled

\* A step of the client keeps what is said of the rest.
LEMMA ClientKeeps ==
  ASSUME UpInv, UNCHANGED <<sent, agent, agentOut, agentWire, relay, relayOut, toAgent>>,
         client' \in [Streams -> ClientRec], service' \in [Streams -> Seq(1..Chunks)],
         relayWire' \in Seq(Frames), ToRelayFollows,
         \A s \in Streams : Received(s)', \A s \in Streams : Settled(s)'
  PROVE  UpInv'
<1>0. /\ TypeOK /\ FrameKinds /\ AgentThrottled
      /\ \A s \in Streams : Agreed(relay[s]) /\ Stored(relay[s], s)
      /\ Fits(relay, relayOut)
      /\ \A s \in Streams : Counted(s)
  BY Parts
<1>1. TypeOK'
  BY <1>0, Types, TypesNext DEF ToRelayFollows
<1>2. FrameKinds'
  BY <1>0 DEF FrameKinds, AgentPath
<1>3. ASSUME NEW t \in Streams PROVE (Agreed(relay[t]) /\ Stored(relay[t], t))'
  BY <1>0
<1>4. Fits(relay, relayOut)' /\ AgentThrottled'
  BY <1>0 DEF AgentThrottled
<1>5. ASSUME NEW t \in Streams PROVE Counted(t)'
  BY <1>0 DEF Counted
<1> QED
  BY <1>1, <1>2, <1>3, <1>4, <1>5, PartsNext

-----------------------------------------------------------------------------
(* Frames of the relay at the client.                                      *)

LEMMA TakesRelayFrame ==
  ASSUME UpInv, relayWire # <<>>, relayWire' = Tail(relayWire), relayOut' = relayOut
  PROVE  /\ RelayPath # <<>> /\ Head(RelayPath) = Head(relayWire)
         /\ RelayPath' = Tail(RelayPath) /\ RelayPath \in Seq(Frames)
         /\ Head(relayWire) \in Frames /\ relayWire' \in Seq(Frames)
         /\ client[Head(relayWire).stream].open
<1>0. TypeOK /\ \A t \in Streams : Settled(t)
  BY Parts
<1>1. /\ PathOf(relayWire, relayOut) # <<>>
      /\ Head(PathOf(relayWire, relayOut)) = Head(relayWire)
      /\ PathOf(Tail(relayWire), relayOut) = Tail(PathOf(relayWire, relayOut))
      /\ Head(relayWire) \in Frames /\ Tail(relayWire) \in Seq(Frames)
  BY <1>0, Types, PathTail
<1>2. /\ RelayPath # <<>> /\ Head(RelayPath) = Head(relayWire)
      /\ RelayPath' = Tail(RelayPath) /\ RelayPath \in Seq(Frames)
  BY <1>0, <1>1, Types, PathTypes DEF RelayPath, PathOf
<1>3. PICK s \in Streams : s = Head(relayWire).stream
  BY <1>1, FramesMade
<1>4. EndsOnce(RelayPath, s, relay[s].live, client[s].open)
  BY <1>0 DEF Settled
<1>5. relay[s] \in RelayRec /\ client[s] \in ClientRec
  BY <1>0, Types
<1>6. relay[s].live \in BOOLEAN /\ client[s].open \in BOOLEAN
  BY <1>5 DEF RelayRec, ClientRec
<1>7. TailEnds(RelayPath, s, relay[s].live, client[s].open)
  BY <1>2, <1>4, <1>6, EndsTail
<1>8. client[s].open
  BY <1>2, <1>3, <1>7 DEF TailEnds
<1> QED
  BY <1>1, <1>2, <1>3, <1>8

\* the client's entry with another queue and flag
Refilled(r, q, b) == [r EXCEPT !.queue = q, !.backpressured = b]

LEMMA RefilledFields ==
  ASSUME NEW r \in ClientRec, NEW q \in Seq(1..Chunks), NEW b \in BOOLEAN
  PROVE  /\ Refilled(r, q, b) \in ClientRec
         /\ Refilled(r, q, b).open = r.open
         /\ Refilled(r, q, b).queue = q /\ Refilled(r, q, b).backpressured = b
BY DEF ClientRec, Refilled

\* TCP_DATA at the client
LEMMA ClientDataStep ==
  ASSUME UpInv, relayWire # <<>>, relayWire' = Tail(relayWire),
         UNCHANGED <<agentVars, agentWire, relayVars, service>>,
         NEW s \in Streams, s = Head(relayWire).stream, IsData(Head(relayWire)),
         ClientData(s, Head(relayWire).chunk)
  PROVE  UpInv'
<1>0. TypeOK /\ (\A t \in Streams : Received(t)) /\ \A t \in Streams : Settled(t)
  BY Parts
<1>u. UNCHANGED <<sent, agent, agentOut, agentWire, relay, relayOut, toAgent, service>>
  BY DEF agentVars, relayVars
<1>t. /\ RelayPath # <<>> /\ Head(RelayPath) = Head(relayWire) /\ RelayPath' = Tail(RelayPath)
      /\ RelayPath \in Seq(Frames) /\ Head(relayWire) \in Frames /\ relayWire' \in Seq(Frames)
      /\ client[s].open
  BY <1>u, TakesRelayFrame
<1>f. PICK f \in Frames : f = Head(relayWire)
  BY <1>t
<1>g. f.stream = s /\ IsData(f) /\ f = Head(RelayPath)
  BY <1>f, <1>t
<1>n. PICK n \in 1..Chunks : n = f.chunk
  BY <1>g, FramesMade
<1>y. client \in [Streams -> ClientRec] /\ client[s] \in ClientRec
  BY <1>0, Types
<1>l. client[s].queue \in Seq(1..Chunks) /\ client[s].backpressured \in BOOLEAN
  BY <1>y DEF ClientRec
<1>q. PICK queue \in Seq(1..Chunks) : queue = Append(client[s].queue, n)
  <2>1. Append(client[s].queue, n) \in Seq(1..Chunks)
    BY <1>l
  <2> QED
    BY <2>1, Zenon
<1>b. PICK full \in BOOLEAN : full = (Len(queue) >= SocketHigh)
  <2>1. (Len(queue) >= SocketHigh) \in BOOLEAN
    OBVIOUS
  <2> QED
    BY <2>1, Zenon
<1>p. PICK p \in ControlFrames : p = Control("PAUSE", s)
  BY FramesMade
<1>c. /\ client' = [client EXCEPT ![s].queue = queue, ![s].backpressured = @ \/ full]
      /\ toRelay' = IF full /\ ~client[s].backpressured THEN Append(toRelay, p) ELSE toRelay
  BY <1>b, <1>f, <1>n, <1>p, <1>q DEF ClientData
<1>d. PICK b \in BOOLEAN : b = (client[s].backpressured \/ full)
  OBVIOUS
<1>x. client' = [client EXCEPT ![s] = Refilled(client[s], queue, b)]
  BY <1>c, <1>d, <1>y DEF Refilled
<1>s. /\ client' \in [Streams -> ClientRec] /\ client'[s].queue = queue
      /\ client'[s].open = client[s].open /\ client'[s].backpressured = b
      /\ \A t \in Streams : t # s => client'[t] = client[t]
  <2> DEFINE r == Refilled(client[s], queue, b)
  <2>1. /\ r \in ClientRec /\ r.open = client[s].open /\ r.queue = queue /\ r.backpressured = b
    BY <1>y, RefilledFields
  <2>2. client' = [client EXCEPT ![s] = r]
    BY <1>x
  <2> HIDE DEF r
  <2> QED
    BY <2>1, <2>2, <1>y
<1>w. ToRelayFollows
  <2>1. CASE full /\ ~client[s].backpressured
    <3>1. toRelay' = Append(toRelay, p) /\ b = TRUE
      BY <2>1, <1>c, <1>d
    <3>2. p.stream = s /\ p.type = "PAUSE"
      BY <1>p, FrameFields
    <3>3. (p.type = "PAUSE") = client'[p.stream].backpressured
      BY <3>1, <3>2, <1>s
    <3> QED
      BY <3>1, <3>2, <3>3, <1>0, <1>s, ClientTells
  <2>2. CASE ~(full /\ ~client[s].backpressured)
    <3>1. toRelay' = toRelay /\ b = client[s].backpressured
      BY <2>2, <1>c, <1>d, <1>l
    <3> QED
      BY <3>1, <1>0, <1>s, ClientTellsNothing
  <2> QED
    BY <2>1, <2>2
<1>a. /\ Arrived(s) \in Nat /\ Len(service[s]) \in Nat /\ Len(client[s].queue) \in Nat
      /\ Arrived(s)' = Arrived(s) + 1
      /\ \A t \in Streams : t # s => Arrived(t)' = Arrived(t)
  <2>1. Len(queue) = Len(client[s].queue) + 1
    BY <1>l, <1>q
  <2>2. Arrived(s) \in Nat /\ Len(service[s]) \in Nat /\ Len(client[s].queue) \in Nat
    BY <1>0, ArrivedIsNat
  <2>3. \A i, j \in Nat : i + (j + 1) = (i + j) + 1
    OBVIOUS
  <2>4. Arrived(s)' = Len(service[s]) + (Len(client[s].queue) + 1)
    BY <2>1, <1>s, <1>u DEF Arrived
  <2> QED
    BY <2>2, <2>3, <2>4, <1>s, <1>u DEF Arrived
<1>h. ASSUME NEW m \in Nat, Carries(RelayPath, s, Arrived(s), m)
      PROVE  n = Arrived(s) + 1 /\ Carries(RelayPath', s, Arrived(s) + 1, m)
  BY <1>h, <1>a, <1>g, <1>n, <1>t, FramesMade, CarriesTail
<1>1. ASSUME NEW t \in Streams PROVE Received(t)'
  <2>1. CASE t = s
    <3>1. PICK m \in 0..sent[s] : Carries(RelayPath, s, Arrived(s), m)
      BY <1>0, <1>t DEF Settled, Ordered
    <3>2. m \in Nat
      BY <1>0, ArrivedIsNat
    <3>3. n = (Len(service[s]) + Len(client[s].queue)) + 1
      BY <3>1, <3>2, <1>h DEF Arrived
    <3>4. NumberedFrom(queue, Len(service[s]))
      BY <3>3, <1>0, <1>a, <1>l, <1>q, NumberedAppend DEF Received
    <3> QED
      BY <2>1, <3>4, <1>0, <1>s, <1>t, <1>u DEF Received
  <2>2. CASE t # s
    BY <2>2, <1>0, <1>s, <1>u DEF Received
  <2> QED
    BY <2>1, <2>2
<1>2. ASSUME NEW t \in Streams PROVE Settled(t)'
  <2>1. client'[t].open = client[t].open
    BY <1>s
  <2>2. EndsOnce(RelayPath', t, relay[t].live, client'[t].open)
    <3>1. relay[t] \in RelayRec /\ client[t] \in ClientRec
      BY <1>0, Types
    <3>2. relay[t].live \in BOOLEAN /\ client[t].open \in BOOLEAN
      BY <3>1 DEF RelayRec, ClientRec
    <3>3. TailEnds(RelayPath, t, relay[t].live, client[t].open)
      BY <3>2, <1>0, <1>t, EndsTail DEF Settled
    <3> QED
      BY <3>3, <2>1, <1>t DEF TailEnds
  <2>3. ASSUME NEW m \in Nat, Carries(RelayPath, t, Arrived(t), m)
        PROVE  Carries(RelayPath', t, Arrived(t)', m)
    <3>1. CASE t = s
      BY <2>3, <3>1, <1>a, <1>h
    <3>2. CASE t # s
      BY <2>3, <3>2, <1>a, <1>g, <1>t, CarriesTailOther
    <3> QED
      BY <3>1, <3>2
  <2> QED
    BY <2>1, <2>2, <2>3, <1>u, <1>w, SettledAtClient
<1>3. service' \in [Streams -> Seq(1..Chunks)]
  BY <1>0, <1>u, Types
<1> QED
  BY <1>1, <1>2, <1>3, <1>s, <1>t, <1>u, <1>w, ClientKeeps

\* TCP_CLOSE at the client
LEMMA ClientCloseStep ==
  ASSUME UpInv, relayWire # <<>>, relayWire' = Tail(relayWire),
         UNCHANGED <<agentVars, agentWire, relayVars, service>>,
         NEW s \in Streams, s = Head(relayWire).stream, ~IsData(Head(relayWire)),
         ClientClose(s)
  PROVE  UpInv'
<1>0. TypeOK /\ (\A t \in Streams : Received(t)) /\ \A t \in Streams : Settled(t)
  BY Parts
<1>u. /\ UNCHANGED <<sent, agent, agentOut, agentWire, relay, relayOut, toAgent, service, toRelay>>
      /\ client' = [client EXCEPT ![s].open = FALSE, ![s].queue = <<>>]
  BY DEF agentVars, relayVars, ClientClose
<1>t. /\ RelayPath # <<>> /\ Head(RelayPath) = Head(relayWire) /\ RelayPath' = Tail(RelayPath)
      /\ RelayPath \in Seq(Frames) /\ Head(relayWire) \in Frames /\ relayWire' \in Seq(Frames)
  BY <1>u, TakesRelayFrame
<1>g. Head(RelayPath).stream = s /\ ~IsData(Head(RelayPath))
  BY <1>t
<1>y. client \in [Streams -> ClientRec] /\ client[s] \in ClientRec
  BY <1>0, Types
<1>s. /\ client' \in [Streams -> ClientRec] /\ client'[s].queue = <<>>
      /\ client'[s].open = FALSE /\ client'[s].backpressured = client[s].backpressured
      /\ \A t \in Streams : t # s => client'[t] = client[t]
  <2>1. <<>> \in Seq(1..Chunks)
    OBVIOUS
  <2> QED
    BY <2>1, <1>u, <1>y DEF ClientRec
<1>w. ToRelayFollows
  <2>1. \A t \in Streams : client'[t].backpressured = client[t].backpressured
    BY <1>s
  <2> QED
    BY <2>1, <1>0, <1>u, ClientTellsNothing
<1>1. ASSUME NEW t \in Streams PROVE Received(t)'
  <2>1. CASE t = s
    BY <2>1, <1>0, <1>s, <1>u, EmptyNumbered DEF Received
  <2>2. CASE t # s
    BY <2>2, <1>0, <1>s, <1>u DEF Received
  <2> QED
    BY <2>1, <2>2
<1>2. ASSUME NEW t \in Streams PROVE Settled(t)'
  <2>1. client'[t].open => client[t].open /\ t # s
    BY <1>s
  <2>2. EndsOnce(RelayPath', t, relay[t].live, client'[t].open)
    <3>1. relay[t] \in RelayRec /\ client[t] \in ClientRec
      BY <1>0, Types
    <3>2. relay[t].live \in BOOLEAN /\ client[t].open \in BOOLEAN
      BY <3>1 DEF RelayRec, ClientRec
    <3>3. TailEnds(RelayPath, t, relay[t].live, client[t].open)
      BY <3>2, <1>0, <1>t, EndsTail DEF Settled
    <3>4. CASE t = s
      <4>1. EndsOnce(Tail(RelayPath), t, relay[t].live, FALSE)
        BY <3>3, <3>4, <1>g DEF TailEnds
      <4> QED
        BY <4>1, <3>4, <1>s, <1>t
    <3>5. CASE t # s
      BY <3>3, <3>5, <1>s, <1>t DEF TailEnds
    <3> QED
      BY <3>4, <3>5
  <2>3. ASSUME client'[t].open, NEW m \in Nat, Carries(RelayPath, t, Arrived(t), m)
        PROVE  Carries(RelayPath', t, Arrived(t)', m)
    <3>1. Arrived(t)' = Arrived(t)
      BY <2>1, <2>3, <1>s, <1>u DEF Arrived
    <3> QED
      BY <2>3, <3>1, <1>g, <1>t, CarriesTailOther
  <2> QED
    BY <2>1, <2>2, <2>3, <1>u, <1>w, SettledAtClient
<1>3. service' \in [Streams -> Seq(1..Chunks)]
  BY <1>0, <1>u, Types
<1> QED
  BY <1>1, <1>2, <1>3, <1>s, <1>t, <1>u, <1>w, ClientKeeps

\* a frame of the relay at the client
LEMMA ClientReceivesStep ==
  ASSUME UpInv, ClientReceives
  PROVE  UpInv'
<1> DEFINE f == Head(relayWire)
           s == Head(relayWire).stream
<1>1. /\ relayWire # <<>> /\ relayWire' = Tail(relayWire)
      /\ UNCHANGED <<agentVars, agentWire, relayVars, service>>
      /\ IF ~client[s].open THEN UNCHANGED <<client, toRelay>>
         ELSE IF f.type = "TCP_DATA" THEN ClientData(s, f.chunk) ELSE ClientClose(s)
  BY DEF ClientReceives
<1>2. relayOut' = relayOut
  BY <1>1 DEF relayVars
<1>3. client[s].open /\ f \in Frames
  BY <1>1, <1>2, TakesRelayFrame
<1>4. s \in Streams
  BY <1>3, FramesMade
<1>5. CASE f.type = "TCP_DATA"
  BY <1>1, <1>3, <1>4, <1>5, ClientDataStep DEF IsData
<1>6. CASE f.type # "TCP_DATA"
  BY <1>1, <1>3, <1>4, <1>6, ClientCloseStep DEF IsData
<1> QED
  BY <1>5, <1>6

-----------------------------------------------------------------------------
(* The kernel takes a chunk.                                               *)

\* a sequence numbered from its start, with its next number
LEMMA NumberedGrows ==
  ASSUME NEW q \in Seq(1..Chunks), NEW n \in 1..Chunks, NumberedFrom(q, 0), n = Len(q) + 1
  PROVE  /\ NumberedFrom(Append(q, n), 0) /\ Append(q, n) \in Seq(1..Chunks)
         /\ Len(Append(q, n)) = Len(q) + 1
<1>1. Len(q) \in Nat /\ 0 \in Nat
  OBVIOUS
<1>2. n = (0 + Len(q)) + 1
  BY <1>1
<1>3. NumberedFrom(Append(q, n), 0)
  BY <1>1, <1>2, NumberedAppend
<1> QED
  BY <1>3

LEMMA ServiceTakesStep ==
  ASSUME UpInv, NEW s \in Streams, ServiceTakes(s)
  PROVE  UpInv'
<1>0. TypeOK /\ (\A t \in Streams : Received(t)) /\ \A t \in Streams : Settled(t)
  BY Parts
<1>u. UNCHANGED <<sent, agent, agentOut, agentWire, relay, relayOut, toAgent, relayWire>>
  BY DEF ServiceTakes, agentVars, relayVars
<1>y. /\ client \in [Streams -> ClientRec] /\ client[s] \in ClientRec
      /\ service \in [Streams -> Seq(1..Chunks)] /\ relayWire \in Seq(Frames)
  BY <1>0, Types
<1>q. PICK q \in Seq(1..Chunks) : q = client[s].queue
  BY <1>y DEF ClientRec
<1>l. client[s].backpressured \in BOOLEAN /\ q # <<>>
  BY <1>y, <1>q DEF ClientRec, ServiceTakes
<1>h. PICK h \in 1..Chunks, rest \in Seq(1..Chunks) : h = Head(q) /\ rest = Tail(q)
  <2>1. Head(q) \in 1..Chunks /\ Tail(q) \in Seq(1..Chunks)
    BY <1>l, TakenFrom
  <2> QED
    BY <2>1, Zenon
<1>d. PICK drained \in BOOLEAN : drained = (rest = <<>> /\ client[s].backpressured)
  OBVIOUS
<1>b. PICK b \in BOOLEAN : b = (client[s].backpressured /\ ~drained)
  OBVIOUS
<1>p. PICK p \in ControlFrames : p = Control("RESUME", s)
  BY FramesMade
<1>c. /\ client' = [client EXCEPT ![s].queue = rest, ![s].backpressured = @ /\ ~drained]
      /\ toRelay' = IF drained THEN Append(toRelay, p) ELSE toRelay
      /\ service' = [service EXCEPT ![s] = Append(@, h)]
  BY <1>d, <1>h, <1>p, <1>q DEF ServiceTakes
<1>x. client' = [client EXCEPT ![s] = Refilled(client[s], rest, b)]
  BY <1>b, <1>c, <1>y DEF Refilled
<1>s. /\ client' \in [Streams -> ClientRec] /\ client'[s].queue = rest
      /\ client'[s].open = client[s].open /\ client'[s].backpressured = b
      /\ \A t \in Streams : t # s => client'[t] = client[t]
  <2> DEFINE r == Refilled(client[s], rest, b)
  <2>1. /\ r \in ClientRec /\ r.open = client[s].open /\ r.queue = rest /\ r.backpressured = b
    BY <1>y, RefilledFields
  <2>2. client' = [client EXCEPT ![s] = r]
    BY <1>x
  <2> HIDE DEF r
  <2> QED
    BY <2>1, <2>2, <1>y
<1>w. ToRelayFollows
  <2>1. CASE drained
    <3>1. toRelay' = Append(toRelay, p) /\ b = FALSE
      BY <2>1, <1>b, <1>c
    <3>2. p.stream = s /\ p.type = "RESUME"
      BY <1>p, FrameFields
    <3>3. (p.type = "PAUSE") = client'[p.stream].backpressured
      BY <3>1, <3>2, <1>s
    <3> QED
      BY <3>1, <3>2, <3>3, <1>0, <1>s, ClientTells
  <2>2. CASE ~drained
    <3>1. toRelay' = toRelay /\ b = client[s].backpressured
      BY <2>2, <1>b, <1>c, <1>l
    <3> QED
      BY <3>1, <1>0, <1>s, ClientTellsNothing
  <2> QED
    BY <2>1, <2>2
<1>n. h = Len(service[s]) + 1 /\ NumberedFrom(rest, Len(service[s]) + 1)
  <2>1. NumberedFrom(q, Len(service[s])) /\ Len(service[s]) \in Nat
    BY <1>0, <1>q, ArrivedIsNat DEF Received
  <2> QED
    BY <2>1, <1>h, <1>l, NumberedTail
<1>a. /\ NumberedFrom(Append(service[s], h), 0) /\ Append(service[s], h) \in Seq(1..Chunks)
      /\ Len(Append(service[s], h)) = Len(service[s]) + 1
  BY <1>0, <1>n, <1>y, NumberedGrows DEF Received
<1>v. /\ service' \in [Streams -> Seq(1..Chunks)]
      /\ service'[s] = Append(service[s], h) /\ \A t \in Streams : t # s => service'[t] = service[t]
  BY <1>a, <1>c, <1>y
<1>1. ASSUME NEW t \in Streams PROVE Received(t)'
  <2>1. CASE t = s
    <3>1. NumberedFrom(service'[s], 0) /\ Len(service'[s]) = Len(service[s]) + 1
      BY <1>a, <1>v
    <3>2. NumberedFrom(client'[s].queue, Len(service'[s]))
      BY <3>1, <1>n, <1>s
    <3>3. client[s].open
      BY <1>0, <1>l, <1>q DEF Received
    <3> QED
      BY <2>1, <3>1, <3>2, <3>3, <1>s DEF Received
  <2>2. CASE t # s
    BY <2>2, <1>0, <1>s, <1>v DEF Received
  <2> QED
    BY <2>1, <2>2
<1>2. ASSUME NEW t \in Streams PROVE Settled(t)'
  <2>1. client'[t].open = client[t].open /\ RelayPath' = RelayPath
    BY <1>s, <1>u DEF RelayPath
  <2>2. Arrived(t)' = Arrived(t)
    <3>1. CASE t = s
      <4>1. Len(rest) = Len(q) - 1 /\ Len(q) \in Nat \ {0} /\ Len(service[s]) \in Nat
        BY <1>0, <1>h, <1>l, ArrivedIsNat
      <4>2. \A i \in Nat : \A j \in Nat \ {0} : (i + 1) + (j - 1) = i + j
        OBVIOUS
      <4>3. Arrived(s)' = (Len(service[s]) + 1) + (Len(q) - 1)
        BY <4>1, <1>a, <1>s, <1>v DEF Arrived
      <4> QED
        BY <3>1, <4>1, <4>2, <4>3, <1>q DEF Arrived
    <3>2. CASE t # s
      BY <3>2, <1>s, <1>v DEF Arrived
    <3> QED
      BY <3>1, <3>2
  <2>3. EndsOnce(RelayPath', t, relay[t].live, client'[t].open)
    BY <2>1, <1>0 DEF Settled
  <2> QED
    BY <2>1, <2>2, <2>3, <1>u, <1>w, SettledAtClient
<1> QED
  BY <1>1, <1>2, <1>s, <1>u, <1>v, <1>w, <1>y, ClientKeeps

-----------------------------------------------------------------------------
(* The invariant holds.                                                    *)

LEMMA InitUp ==
  ASSUME Init
  PROVE  UpInv
<1>1. TypeOK
  <2>1. Idle \in Senders
    BY DEF Idle, Senders
  <2>2. sent \in [Streams -> 0..Chunks]
    BY UpFlowAssumption DEF Init
  <2>3. <<>> \in Seq(ControlFrames \cup DataFrames) /\ <<>> \in Seq(ControlFrames)
        /\ <<>> \in Seq(1..Chunks)
    OBVIOUS
  <2> QED
    BY <2>1, <2>2, <2>3 DEF Init, TypeOK
<1>2. Held(Idle) = <<>> /\ <<>> \o <<>> = <<>>
  BY DEF Held, Idle
<1>3. AgentPath = <<>> /\ RelayPath = <<>>
  BY <1>2 DEF AgentPath, RelayPath, PathOf, Init
<1>4. \A t : DataOf(<<>>, t) = {} /\ DataIn(<<>>) = {}
  BY DEF DataOf, DataIn
<1>5. Cardinality({}) = 0
  BY FS_EmptySet
<1>6. FrameKinds
  <2>1. NoIdleWaiting(Idle)
    BY DEF NoIdleWaiting, Idle
  <2>2. \A t \in Streams : agent[t].open \/ agent[t].wsPaused => t \notin Direct
    BY DEF Init
  <2> QED
    BY <2>1, <2>2, <1>3 DEF FrameKinds, Init
<1>7. BufferedAmount(Idle) = 0
  <2>1. BufferedAmount(Idle) = 0 + 0
    BY <1>4, <1>5 DEF BufferedAmount, Idle
  <2> QED
    BY <2>1
<1>8. ASSUME NEW t \in Streams PROVE Agreed(relay[t]) /\ Stored(relay[t], t)
  <2>1. /\ relay[t].paused = FALSE /\ relay[t].peerPaused = FALSE /\ relay[t].wsPaused = FALSE
        /\ relay[t].buffered = <<>>
    BY DEF Init
  <2>2. Agreed(relay[t])
    BY <2>1 DEF Agreed
  <2>3. Len(<<>>) <= MaxDestBuffer
    BY UpFlowAssumption
  <2>4. Stored(relay[t], t)
    BY <2>1, <2>3 DEF Stored
  <2> QED
    BY <2>2, <2>4
<1>9. AgentThrottled
  <2>1. {t \in Streams : agent[t].wsPaused} = {}
    BY DEF Init
  <2>2. 0 <= WsHigh + 0
    BY UpFlowAssumption
  <2> QED
    BY <2>1, <2>2, <1>5, <1>7 DEF AgentThrottled, Init
<1>10. Fits(relay, relayOut)
  <2>1. ThrottledIn(relay) = {}
    BY DEF Init, ThrottledIn
  <2>2. RoomOf({}) = WsHigh
    <3>1. {} \cap Direct = {} /\ {} \ Direct = {}
      OBVIOUS
    <3>2. WsHigh + 0 + 0 * MaxDestBuffer = WsHigh
      BY UpFlowAssumption
    <3> QED
      BY <3>1, <3>2, <1>5 DEF RoomOf
  <2>3. relayOut = Idle /\ 0 <= WsHigh
    BY UpFlowAssumption DEF Init
  <2> QED
    BY <2>1, <2>2, <2>3, <1>7 DEF Fits
<1>11. ASSUME NEW t \in Streams PROVE Counted(t)
  <2>1. agent[t].pending = 0 /\ relay[t].pending = 0 /\ agentOut = Idle /\ relayOut = Idle
    BY DEF Init
  <2>2. HeldOf(Idle, t) = 0 + 0
    BY <1>4, <1>5 DEF HeldOf, Idle
  <2> QED
    BY <2>1, <2>2 DEF Counted
<1>12. ASSUME NEW t \in Streams
       PROVE EndsOnce(RelayPath, t, relay[t].live, client[t].open)
  <2>1. client[t].open = TRUE /\ relay[t].live = TRUE
    BY DEF Init
  <2>2. EndsOnce(<<>>, t, TRUE, TRUE)
    BY DEF EndsOnce, NoneOf
  <2> QED
    BY <2>1, <2>2, <1>3
<1>13. ASSUME NEW t \in Streams PROVE Received(t)
  <2>1. service[t] = <<>> /\ client[t].queue = <<>> /\ Len(<<>>) = 0
    BY DEF Init
  <2> QED
    BY <2>1, EmptyNumbered DEF Received
<1>14. ASSUME NEW t \in Streams PROVE Ordered(t)
  <2>1. service[t] = <<>> /\ client[t].queue = <<>> /\ sent[t] = 0 /\ relay[t].buffered = <<>>
    BY DEF Init
  <2>2. Len(<<>>) = 0 /\ 0 + 0 = 0 /\ 0 \in Nat /\ 0 \in 0..0
    OBVIOUS
  <2>3. Arrived(t) = 0
    BY <2>1, <2>2 DEF Arrived
  <2>4. Carries(<<>>, t, 0, 0)
    BY <1>4, <2>2, CarriesNone
  <2>5. NumberedFrom(<<>>, 0)
    BY EmptyNumbered
  <2> QED
    BY <2>1, <2>2, <2>3, <2>4, <2>5, <1>3 DEF Ordered, HandedOn
<1>15. ASSUME NEW t \in Streams PROVE FlagsFollow(t)
  <2>1. /\ toAgent = <<>> /\ toRelay = <<>> /\ agent[t].peerPaused = FALSE
        /\ relay[t].peerPaused = FALSE /\ client[t].backpressured = FALSE
    BY DEF Init
  <2>2. LastWord(<<>>, t, FALSE, FALSE)
    BY LastWordEmpty
  <2> QED
    BY <2>1, <2>2 DEF FlagsFollow, Tells
<1> QED
  BY <1>1, <1>6, <1>8, <1>9, <1>10, <1>11, <1>12, <1>13, <1>14, <1>15 DEF UpInv

LEMMA StutterUp ==
  ASSUME UpInv, UNCHANGED vars
  PROVE  UpInv'
<1>1. UNCHANGED <<sent, agent, agentOut, agentWire, relay, relayOut, toAgent, relayWire,
                  client, service, toRelay>>
  BY DEF vars, agentVars, relayVars, clientVars
<1>2. /\ AgentPath' = AgentPath /\ RelayPath' = RelayPath
      /\ \A t \in Streams : Arrived(t)' = Arrived(t)
  BY <1>1 DEF AgentPath, RelayPath, Arrived
<1>3. TypeOK /\ FrameKinds /\ AgentThrottled
      /\ (\A t \in Streams : Counted(t)) /\ \A t \in Streams : Received(t)
  BY Parts
<1>4. TypeOK'
  BY <1>1, <1>3, Types, TypesNext
<1>5. FrameKinds' /\ AgentThrottled'
  BY <1>1, <1>2, <1>3 DEF FrameKinds, AgentThrottled
<1>6. ASSUME NEW t \in Streams PROVE Counted(t)'
  BY <1>1, <1>3 DEF Counted
<1>7. ASSUME NEW t \in Streams PROVE Received(t)'
  BY <1>1, <1>3 DEF Received
<1>8. ASSUME NEW t \in Streams PROVE Settled(t)'
  <2>1. Settled(t)
    BY Parts
  <2> QED
    BY <2>1, <1>1, <1>2 DEF Settled, Ordered, FlagsFollow
<1>9. ASSUME NEW t \in Streams PROVE (Agreed(relay[t]) /\ Stored(relay[t], t))'
  BY <1>1, Parts
<1>10. Fits(relay, relayOut)'
  BY <1>1, Parts
<1> QED
  BY <1>4, <1>5, <1>6, <1>7, <1>8, <1>9, <1>10, PartsNext

LEMMA StepUp ==
  ASSUME UpInv, [Next]_vars
  PROVE  UpInv'
<1>1. CASE \E s \in Streams : AppData(s)
  BY <1>1, AppDataStep
<1>2. CASE \E s \in Streams : AppClose(s)
  BY <1>2, AppCloseStep
<1>3. CASE AgentWritten
  BY <1>3, AgentWrittenStep
<1>4. CASE AgentControl
  BY <1>4, AgentControlStep
<1>5. CASE RelayTakesAgentFrame
  BY <1>5, RelayTakesAgentFrameStep
<1>6. CASE RelayTakesControl
  BY <1>6, RelayTakesControlStep
<1>7. CASE RelayWritten
  BY <1>7, RelayWrittenStep
<1>8. CASE \E s \in Streams : DirectData(s)
  BY <1>8, DirectDataStep
<1>9. CASE \E s \in Streams : DirectClose(s)
  BY <1>9, DirectCloseStep
<1>10. CASE ClientReceives
  BY <1>10, ClientReceivesStep
<1>11. CASE \E s \in Streams : ServiceTakes(s)
  BY <1>11, ServiceTakesStep
<1>12. CASE UNCHANGED vars
  BY <1>12, StutterUp
<1> QED
  BY <1>1, <1>2, <1>3, <1>4, <1>5, <1>6, <1>7, <1>8, <1>9, <1>10, <1>11, <1>12 DEF Next

\* The frames under way, the counts, the buffers and the flags of every stream stay
\* tied to what was sent, what was received and what each side holds.
THEOREM UpHolds == Spec => []UpInv
<1>1. Init => UpInv
  BY InitUp
<1>2. UpInv /\ [Next]_vars => UpInv'
  BY StepUp
<1> QED
  BY <1>1, <1>2, PTL DEF Spec

\* Every variable keeps its type.
THEOREM UpTypes == Spec => []TypeOK
<1>1. UpInv => TypeOK
  BY DEF UpInv
<1> QED
  BY <1>1, UpHolds, PTL

-----------------------------------------------------------------------------
(* What it means.                                                          *)

\* The products and sums of the bound, once and for all.
LEMMA RoomOrder ==
  ASSUME NEW a \in Nat, NEW b \in Nat, NEW c \in Nat, NEW d \in Nat, NEW m \in Nat, NEW k \in Nat,
         a <= c, b <= d
  PROVE  k + a + b * m <= k + c + d * m
<1>1. PICK e \in Nat : d = b + e
  <2>1. d - b \in Nat /\ d = b + (d - b)
    OBVIOUS
  <2> QED
    BY <2>1, Zenon
<1>2. (b + e) * m = b * m + e * m /\ b * m \in Nat /\ e * m \in Nat
  OBVIOUS
<1> DEFINE p == b * m
           q == e * m
           r == d * m
<1>3. r = p + q /\ p \in Nat /\ q \in Nat
  BY <1>1, <1>2
<1> HIDE DEF p, q, r
<1>4. k + a + p <= k + c + r
  BY <1>3
<1> QED
  BY <1>4 DEF p, r

\* What every stream takes together is the most there is room for.
LEMMA RoomMost ==
  ASSUME NEW P \in SUBSET Streams
  PROVE  RoomOf(P) <= WsHigh + Cardinality(Direct) + Cardinality(Streams \ Direct) * MaxDestBuffer
<1>1. /\ P \cap Direct \subseteq Direct /\ P \ Direct \subseteq Streams \ Direct
      /\ IsFiniteSet(Direct) /\ IsFiniteSet(Streams \ Direct)
      /\ MaxDestBuffer \in Nat /\ WsHigh \in Nat
  BY UpFlowAssumption, FS_Subset
<1>2. /\ IsFiniteSet(P \cap Direct) /\ Cardinality(P \cap Direct) <= Cardinality(Direct)
      /\ IsFiniteSet(P \ Direct) /\ Cardinality(P \ Direct) <= Cardinality(Streams \ Direct)
  BY <1>1, FS_Subset
<1>3. /\ Cardinality(P \cap Direct) \in Nat /\ Cardinality(Direct) \in Nat
      /\ Cardinality(P \ Direct) \in Nat /\ Cardinality(Streams \ Direct) \in Nat
  BY <1>1, <1>2, FS_CardinalityType
<1> QED
  BY <1>1, <1>2, <1>3, RoomOrder DEF RoomOf

LEMMA BoundsFromThrottled ==
  ASSUME UpInv
  PROVE  BuffersBounded
<1>0. TypeOK /\ FrameKinds /\ AgentThrottled /\ Fits(relay, relayOut)
  BY Parts
<1>1. BufferedAmount(agentOut) \in Nat /\ BufferedAmount(relayOut) \in Nat
  BY <1>0, Types, AmountIsNat
<1>2. BufferedAmount(agentOut) <= WsHigh + Cardinality(Streams \ Direct)
  <2> DEFINE P == {s \in Streams : agent[s].wsPaused}
  <2>1. P \subseteq Streams \ Direct
    BY <1>0 DEF FrameKinds
  <2>2. IsFiniteSet(Streams \ Direct)
    BY UpFlowAssumption, FS_Subset
  <2>3. BufferedAmount(agentOut) <= WsHigh + Cardinality(P)
    BY <1>0 DEF AgentThrottled
  <2> HIDE DEF P
  <2>4. /\ IsFiniteSet(P) /\ Cardinality(P) <= Cardinality(Streams \ Direct)
        /\ Cardinality(P) \in Nat /\ Cardinality(Streams \ Direct) \in Nat
    BY <2>1, <2>2, FS_Subset, FS_CardinalityType
  <2> QED
    BY <1>1, <2>3, <2>4, UpFlowAssumption
<1>3. BufferedAmount(relayOut) <=
         WsHigh + Cardinality(Direct) + Cardinality(Streams \ Direct) * MaxDestBuffer
  <2> DEFINE P == ThrottledIn(relay)
             all == WsHigh + Cardinality(Direct) + Cardinality(Streams \ Direct) * MaxDestBuffer
  <2>1. P \in SUBSET Streams
    BY DEF ThrottledIn
  <2>2. BufferedAmount(relayOut) <= RoomOf(P)
    BY <1>0 DEF Fits
  <2> HIDE DEF P
  <2>3. RoomOf(P) <= all /\ RoomOf(P) \in Nat
    BY <2>1, RoomMost, RoomLeast
  <2>4. all \in Nat
    <3>1. IsFiniteSet(Direct) /\ IsFiniteSet(Streams \ Direct) /\ MaxDestBuffer \in Nat /\ WsHigh \in Nat
      BY UpFlowAssumption, FS_Subset
    <3>2. Cardinality(Direct) \in Nat /\ Cardinality(Streams \ Direct) \in Nat
      BY <3>1, FS_CardinalityType
    <3>3. Cardinality(Streams \ Direct) * MaxDestBuffer \in Nat
      BY <3>1, <3>2
    <3> QED
      BY <3>1, <3>2, <3>3
  <2> HIDE DEF all
  <2>5. BufferedAmount(relayOut) <= all
    BY <1>1, <2>2, <2>3, <2>4
  <2> QED
    BY <2>5 DEF all
<1> QED
  BY <1>2, <1>3 DEF BuffersBounded

\* However the streams' data interleave, the agent's WebSocket holds at most one
\* chunk per stream above the high-water mark, and the relay's at most what one
\* VirtualSocket buffers, or one chunk of a direct connection, per stream.
THEOREM UpBuffersBounded == Spec => []BuffersBounded
BY UpHolds, BoundsFromThrottled, PTL

LEMMA JustifiedFromFlags ==
  ASSUME UpInv
  PROVE  PausesJustified
<1> SUFFICES ASSUME Quiet, NEW s \in Streams
             PROVE  /\ relay[s].live /\ client[s].open =>
                          relay[s].peerPaused = client[s].backpressured
                    /\ agent[s].open /\ agent[s].peerPaused => relay[s].paused
  BY DEF PausesJustified
<1>1. toAgent = <<>> /\ toRelay = <<>>
  BY DEF Quiet
<1>2. FlagsFollow(s)
  BY DEF UpInv
<1>3. relay[s].live /\ client[s].open => relay[s].peerPaused = client[s].backpressured
  BY <1>1, <1>2, LastWordNone DEF FlagsFollow
<1>4. agent[s].open /\ agent[s].peerPaused => relay[s].paused
  <2> SUFFICES ASSUME agent[s].open, agent[s].peerPaused PROVE relay[s].paused
    OBVIOUS
  <2>1. PICK b \in BOOLEAN : LastWord(<<>>, s, agent[s].peerPaused, b) /\ (b => relay[s].paused)
    BY <1>1, <1>2 DEF FlagsFollow, Tells
  <2>2. agent[s].peerPaused = b
    BY <2>1, LastWordNone
  <2> QED
    BY <2>1, <2>2
<1> QED
  BY <1>3, <1>4

\* Once no frame is on its way, the relay is paused by its client exactly while the
\* local socket is full, and no agent by a relay that reads.
THEOREM UpPausesJustified == Spec => []PausesJustified
BY UpHolds, JustifiedFromFlags, PTL

-----------------------------------------------------------------------------
(* The pipe.                                                               *)

LEMMA ArrivedWasSent ==
  ASSUME UpInv, NEW s \in Streams, client[s].queue # <<>>
  PROVE  Len(service[s]) < sent[s]
<1>1. TypeOK /\ Settled(s) /\ Received(s)
  BY Parts
<1>2. Arrived(s) \in Nat /\ sent[s] \in Nat /\ Len(service[s]) \in Nat
  BY <1>1, ArrivedIsNat
<1>3. Len(client[s].queue) \in Nat \ {0}
  <2>1. client[s].queue \in Seq(1..Chunks)
    BY <1>1, Types DEF ClientRec
  <2> QED
    BY <2>1, TakenFrom
<1>4. Arrived(s) <= sent[s]
  <2>1. client[s].open
    BY <1>1 DEF Received
  <2>2. PICK n \in 0..sent[s] : Carries(RelayPath, s, Arrived(s), n)
    BY <2>1, <1>1 DEF Settled, Ordered
  <2>3. Arrived(s) <= n /\ n <= sent[s] /\ n \in Nat
    BY <2>2, <1>2 DEF Carries
  <2> QED
    BY <2>3, <1>2
<1>5. Len(service[s]) + Len(client[s].queue) <= sent[s]
  BY <1>4 DEF Arrived
<1>6. \A i, k \in Nat : \A j \in Nat \ {0} : i + j <= k => i < k
  OBVIOUS
<1> QED
  BY <1>2, <1>3, <1>5, <1>6

LEMMA PipeStep ==
  ASSUME UpInv, [Next]_vars
  PROVE  [Promise!Next]_<<sent, service>>
<1>1. ASSUME NEW s \in Streams, AppData(s) \/ DirectData(s) PROVE Promise!Send(s)
  BY <1>1 DEF AppData, DirectData, clientVars, Promise!Send
<1>2. ASSUME NEW s \in Streams, ServiceTakes(s) PROVE Promise!Deliver(s)
  <2>0. TypeOK /\ Received(s)
    BY Parts
  <2>1. /\ client[s].queue # <<>> /\ sent' = sent
        /\ service' = [service EXCEPT ![s] = Append(@, Head(client[s].queue))]
    BY <1>2 DEF ServiceTakes, agentVars
  <2>2. Len(service[s]) < sent[s]
    BY <2>1, ArrivedWasSent
  <2>3. Head(client[s].queue) = Len(service[s]) + 1
    <3>1. NumberedFrom(client[s].queue, Len(service[s])) /\ client[s].queue \in Seq(1..Chunks)
      BY <2>0, Types DEF Received, ClientRec
    <3> QED
      BY <3>1, <2>0, <2>1, ArrivedIsNat, NumberedTail
  <2> QED
    BY <2>1, <2>2, <2>3 DEF Promise!Deliver
<1>3. CASE \/ \E s \in Streams : AppClose(s) \/ DirectClose(s)
           \/ AgentWritten \/ AgentControl \/ RelayTakesAgentFrame \/ RelayTakesControl
           \/ RelayWritten \/ ClientReceives
           \/ UNCHANGED vars
  <2>1. UNCHANGED <<sent, service>>
    BY <1>3 DEF AppClose, DirectClose, AgentWritten, AgentControl, RelayTakesAgentFrame,
                RelayTakesControl, RelayWritten, ClientReceives, vars, agentVars, clientVars
  <2> QED
    BY <2>1
<1> QED
  BY <1>1, <1>2, <1>3 DEF Next, Promise!Next

\* Each service receives the chunks of its application in order, each of them once
\* and none left out, through the buffer of the VirtualSocket, its re-entrant
\* resume() and both shared WebSockets, for any streams, water marks and interleaving.
THEOREM UpImplementsPipe == Spec => ImplementsPipe
<1>1. Init => Promise!Init
  BY DEF Init, Promise!Init
<1>2. UpInv /\ [Next]_vars => [Promise!Next]_<<sent, service>>
  BY PipeStep
<1> QED
  BY <1>1, <1>2, UpHolds, PTL DEF Spec, ImplementsPipe, Promise!Spec
=============================================================================
