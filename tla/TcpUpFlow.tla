----------------------------- MODULE TcpUpFlow -----------------------------
(***************************************************************************)
(* Data and backpressure of established TCP streams, from the application  *)
(* to the service:                                                         *)
(*                                                                         *)
(*   application -> agent -(agent's WebSocket)-> VirtualSocket -> 'data'   *)
(*   handler of TcpRouter -(client's WebSocket)-> client -> service        *)
(*                                                                         *)
(* All streams share the two WebSockets.  A direct connection (Direct)     *)
(* starts at the relay: its net.Socket takes the VirtualSocket's place.    *)
(* Bytes are counted in chunks, one per 'data' event.  Frames of the other *)
(* direction share the WebSockets only by delaying these, and the loss of  *)
(* a WebSocket is in TcpTunnel.                                            *)
(***************************************************************************)
EXTENDS WsSender

CONSTANTS
    Streams,
    Direct,         \* the streams that have no agent
    Chunks,         \* bound: chunks an application sends
    WsHigh, WsLow,  \* WS_HIGH_WATER, WS_LOW_WATER
    SocketHigh,     \* highWaterMark of a net.Socket
    MaxDestBuffer,  \* MAX_DEST_BUFFER_BYTES
    MaxWire         \* bound: frames in the kernel's buffers of a WebSocket

ASSUME UpFlowAssumption ==
    /\ Direct \subseteq Streams /\ IsFiniteSet(Streams)
    /\ Chunks \in Nat \ {0} /\ SocketHigh \in Nat \ {0}
    /\ WsHigh \in Nat \ {0} /\ WsLow \in Nat /\ WsLow < WsHigh   \* config.js
    /\ MaxDestBuffer \in Nat \ {0} /\ MaxWire \in Nat \ {0}

VARIABLES
    sent,           \* chunks read from each application's socket
    agent,          \* the agent's entry of each stream
    agentOut,       \* sending side of the agent's WebSocket
    agentWire,      \* frames on their way to the relay
    relay,          \* the relay's state object and VirtualSocket of each stream
    relayOut,       \* sending side of the client's WebSocket at the relay
    relayWire,      \* frames on their way to the client
    toAgent,        \* PAUSE, RESUME and TCP_ABORT on their way to the agent
    client,         \* the client's state object of each stream
    toRelay,        \* PAUSE and RESUME on their way from the client
    service         \* the chunks each service has received

agentVars  == <<sent, agent, agentOut>>
relayVars  == <<relay, relayOut, toAgent>>
clientVars == <<client, service>>
vars == <<agentVars, agentWire, relayVars, relayWire, clientVars, toRelay>>

ControlFrames == [type : {"PAUSE", "RESUME", "TCP_CLOSE", "TCP_ABORT"}, stream : Streams]
DataFrames == [type : {"TCP_DATA"}, stream : Streams, chunk : 1..Chunks]
Senders == [sending : Seq(ControlFrames \cup DataFrames),
            waiting : Seq(ControlFrames \cup DataFrames)]

\* agent:  peerPaused = peerPausedRead, wsPaused = pausedForWs, pending = pendingSends
\* relay:  paused and buffered are the VirtualSocket's, wsPaused = localPausedForWs,
\*         peerPaused = peerPausedRead, pending = pendingSends
\* client: queue is what the local socket has not yet passed to the kernel,
\*         backpressured = localWriteBackpressured
TypeOK ==
    /\ sent \in [Streams -> 0..Chunks]
    /\ agent \in [Streams -> [open : BOOLEAN, peerPaused : BOOLEAN, wsPaused : BOOLEAN,
                              pending : Nat]]
    /\ agentOut \in Senders
    /\ agentWire \in Seq(ControlFrames \cup DataFrames)
    /\ relay \in [Streams -> [live : BOOLEAN, paused : BOOLEAN, buffered : Seq(1..Chunks),
                              peerPaused : BOOLEAN, wsPaused : BOOLEAN, pending : Nat]]
    /\ relayOut \in Senders
    /\ relayWire \in Seq(ControlFrames \cup DataFrames)
    /\ toAgent \in Seq(ControlFrames)
    /\ client \in [Streams -> [open : BOOLEAN, backpressured : BOOLEAN, queue : Seq(1..Chunks)]]
    /\ toRelay \in Seq(ControlFrames)
    /\ service \in [Streams -> Seq(1..Chunks)]

Init ==
    /\ sent = [s \in Streams |-> 0]
    /\ agent = [s \in Streams |-> [open |-> s \notin Direct, peerPaused |-> FALSE,
                                   wsPaused |-> FALSE, pending |-> 0]]
    /\ agentOut = Idle
    /\ agentWire = <<>>
    /\ relay = [s \in Streams |-> [live |-> TRUE, paused |-> FALSE, buffered |-> <<>>,
                                   peerPaused |-> FALSE, wsPaused |-> FALSE, pending |-> 0]]
    /\ relayOut = Idle
    /\ relayWire = <<>>
    /\ toAgent = <<>>
    /\ client = [s \in Streams |-> [open |-> TRUE, backpressured |-> FALSE, queue |-> <<>>]]
    /\ toRelay = <<>>
    /\ service = [s \in Streams |-> <<>>]

-----------------------------------------------------------------------------
(* Agent process.                                                          *)

\* syncReadState leaves the socket reading
AgentReads(s) == agent[s].open /\ ~agent[s].peerPaused /\ ~agent[s].wsPaused

\* mutant: the agent never throttles itself
AppDataUnthrottled(s) ==
    /\ AgentReads(s) /\ sent[s] < Chunks
    /\ sent' = [sent EXCEPT ![s] = @ + 1]
    /\ agentOut' = Write(agentOut, Data(s, sent[s] + 1))
    /\ agent' = [agent EXCEPT ![s].pending = @ + 1]
    /\ UNCHANGED <<agentWire, relayVars, relayWire, clientVars, toRelay>>

\* mutant: the pending send is not counted
AppDataUncounted(s) ==
    /\ AgentReads(s) /\ sent[s] < Chunks
    /\ sent' = [sent EXCEPT ![s] = @ + 1]
    /\ agentOut' = Write(agentOut, Data(s, sent[s] + 1))
    /\ agent' = [agent EXCEPT ![s].wsPaused = BufferedAmount(agentOut') > WsHigh]
    /\ UNCHANGED <<agentWire, relayVars, relayWire, clientVars, toRelay>>

\* 'data' of the application's socket
AppData(s) ==
    /\ AgentReads(s) /\ sent[s] < Chunks
    /\ sent' = [sent EXCEPT ![s] = @ + 1]
    /\ agentOut' = Write(agentOut, Data(s, sent[s] + 1))
    /\ agent' = [agent EXCEPT ![s].pending = @ + 1,
                              ![s].wsPaused = BufferedAmount(agentOut') > WsHigh]
    /\ UNCHANGED <<agentWire, relayVars, relayWire, clientVars, toRelay>>

\* 'close' of the application's socket, after the last byte has been read
AppClose(s) ==
    /\ AgentReads(s)
    /\ agent' = [agent EXCEPT ![s].open = FALSE]
    /\ agentOut' = Write(agentOut, Control("TCP_CLOSE", s))
    /\ UNCHANGED <<sent, agentWire, relayVars, relayWire, clientVars, toRelay>>

\* the send callbacks of a batch
AgentCallbacks(s, batch, out) ==
    LET n    == Cardinality(DataOf(batch, s))
        left == agent[s].pending - n
        wake == n > 0 /\ left = 0 /\ BufferedAmount(out) <= WsLow /\ agent[s].open
    IN  [agent[s] EXCEPT !.pending = left, !.wsPaused = @ /\ ~wake]

AgentWritten ==
    /\ agentOut.sending # <<>> /\ Len(agentWire) < MaxWire
    /\ agentOut' = Written(agentOut)
    /\ agentWire' = agentWire \o agentOut.sending
    /\ agent' = [s \in Streams |-> AgentCallbacks(s, agentOut.sending, agentOut')]
    /\ UNCHANGED <<sent, relayVars, relayWire, clientVars, toRelay>>

\* PAUSE, RESUME and TCP_ABORT at the agent
AgentControl ==
    /\ toAgent # <<>>
    /\ toAgent' = Tail(toAgent)
    /\ LET f == Head(toAgent)
       IN  agent' = IF ~agent[f.stream].open THEN agent
                    ELSE IF f.type = "TCP_ABORT" THEN [agent EXCEPT ![f.stream].open = FALSE]
                    ELSE [agent EXCEPT ![f.stream].peerPaused = f.type = "PAUSE"]
    /\ UNCHANGED <<sent, agentOut, agentWire, relay, relayOut, relayWire, clientVars, toRelay>>

-----------------------------------------------------------------------------
(* Relay.  A handler is a function of the relay's state: the streams, the  *)
(* client's WebSocket and the frames to the agent.                         *)

Here == [st |-> relay, out |-> relayOut, toAgent |-> toAgent]
Becomes(x) == relay' = x.st /\ relayOut' = x.out /\ toAgent' = x.toAgent

TellAgent(x, type, s) ==
    IF s \in Direct THEN x ELSE [x EXCEPT !.toAgent = Append(@, Control(type, s))]

\* socket.pause()
Pause(x, s) ==
    IF x.st[s].paused THEN x
    ELSE TellAgent([x EXCEPT !.st[s].paused = TRUE], "PAUSE", s)

\* the socket's 'data' handler
OnData(x, s, n) ==
    LET y == [x EXCEPT !.out = Write(@, Data(s, n)), !.st[s].pending = @ + 1]
    IN  IF BufferedAmount(y.out) > WsHigh /\ ~y.st[s].wsPaused
        THEN Pause([y EXCEPT !.st[s].wsPaused = TRUE], s)
        ELSE y

\* the chunks of a buffer through the 'data' handler, one after the other
Flushed(x, s, chunks) ==
    LET after[i \in 0..Len(chunks)] ==
            IF i = 0 THEN x ELSE OnData(after[i - 1], s, chunks[i])
    IN  after[Len(chunks)]

\* mutant: what was buffered is kept
ResumeKeepsBuffered(x, s) ==
    IF ~x.st[s].paused THEN x
    ELSE LET unpaused == [x EXCEPT !.st[s].paused = FALSE]
         IN  TellAgent(Flushed(unpaused, s, x.st[s].buffered), "RESUME", s)

\* mutant: the agent is not told to resume
ResumeUntold(x, s) ==
    IF ~x.st[s].paused THEN x
    ELSE LET unpaused == [x EXCEPT !.st[s].paused = FALSE, !.st[s].buffered = <<>>]
         IN  Flushed(unpaused, s, x.st[s].buffered)

\* socket.resume(): what was buffered meanwhile goes through the 'data' handler,
\* which may pause the socket again, and then the agent is told to resume
Resume(x, s) ==
    IF ~x.st[s].paused THEN x
    ELSE LET unpaused == [x EXCEPT !.st[s].paused = FALSE, !.st[s].buffered = <<>>]
         IN  TellAgent(Flushed(unpaused, s, x.st[s].buffered), "RESUME", s)

SyncSocketReadState(x, s) ==
    IF x.st[s].peerPaused \/ x.st[s].wsPaused THEN Pause(x, s) ELSE Resume(x, s)

\* the send callback of one frame; sendJsonFrame passes none
SendCallback(x, f) ==
    LET s == f.stream
        y == [x EXCEPT !.st[s].pending = @ - 1]
    IN  IF ~IsData(f) THEN x
        ELSE IF y.st[s].live /\ y.st[s].wsPaused /\ y.st[s].pending = 0
              /\ BufferedAmount(y.out) <= WsLow
        THEN SyncSocketReadState([y EXCEPT !.st[s].wsPaused = FALSE], s)
        ELSE y

\* the send callbacks of a batch, in order
Called(x, batch) ==
    LET after[i \in 0..Len(batch)] ==
            IF i = 0 THEN x ELSE SendCallback(after[i - 1], batch[i])
    IN  after[Len(batch)]

RelayWritten ==
    /\ relayOut.sending # <<>> /\ Len(relayWire) < MaxWire
    /\ relayWire' = relayWire \o relayOut.sending
    /\ Becomes(Called([Here EXCEPT !.out = Written(@)], relayOut.sending))
    /\ UNCHANGED <<agentVars, agentWire, clientVars, toRelay>>

\* the stream leaves the table and its socket is destroyed, with what it buffers
Cleaned(x, s) == [x EXCEPT !.st[s].live = FALSE, !.st[s].buffered = <<>>]

\* the socket's 'close' handler
OnClose(x, s) == [Cleaned(x, s) EXCEPT !.out = Write(@, Control("TCP_CLOSE", s))]

\* VirtualSocket.pushInbound: too much for the buffer aborts the stream
PushInbound(x, s, n) ==
    IF ~x.st[s].paused THEN OnData(x, s, n)
    ELSE IF Len(x.st[s].buffered) >= MaxDestBuffer
    THEN OnClose(TellAgent(x, "TCP_ABORT", s), s)
    ELSE [x EXCEPT !.st[s].buffered = Append(@, n)]

FromAgent(x, f) ==
    IF ~x.st[f.stream].live THEN TellAgent(x, "TCP_ABORT", f.stream)
    ELSE IF f.type = "TCP_DATA" THEN PushInbound(x, f.stream, f.chunk)
    ELSE OnClose(x, f.stream)

RelayTakesAgentFrame ==
    /\ agentWire # <<>>
    /\ agentWire' = Tail(agentWire)
    /\ Becomes(FromAgent(Here, Head(agentWire)))
    /\ UNCHANGED <<agentVars, relayWire, clientVars, toRelay>>

\* PAUSE and RESUME from the client
RelayTakesControl ==
    /\ toRelay # <<>>
    /\ toRelay' = Tail(toRelay)
    /\ LET s == Head(toRelay).stream
       IN  IF ~relay[s].live THEN UNCHANGED relayVars
           ELSE Becomes(SyncSocketReadState(
                    [Here EXCEPT !.st[s].peerPaused = Head(toRelay).type = "PAUSE"], s))
    /\ UNCHANGED <<agentVars, agentWire, relayWire, clientVars>>

\* 'data' and 'close' of a direct connection's socket
DirectReads(s) == s \in Direct /\ relay[s].live /\ ~relay[s].paused

DirectData(s) ==
    /\ DirectReads(s) /\ sent[s] < Chunks
    /\ sent' = [sent EXCEPT ![s] = @ + 1]
    /\ Becomes(OnData(Here, s, sent[s] + 1))
    /\ UNCHANGED <<agent, agentOut, agentWire, relayWire, clientVars, toRelay>>

DirectClose(s) ==
    /\ DirectReads(s)
    /\ Becomes(OnClose(Here, s))
    /\ UNCHANGED <<agentVars, agentWire, relayWire, clientVars, toRelay>>

-----------------------------------------------------------------------------
(* Client process and service.                                             *)

\* handleTcpData: write() is false once the socket's buffer reaches its mark
ClientData(s, n) ==
    LET queue == Append(client[s].queue, n)
        full  == Len(queue) >= SocketHigh
    IN  /\ client' = [client EXCEPT ![s].queue = queue,
                                    ![s].backpressured = @ \/ full]
        /\ toRelay' = IF full /\ ~client[s].backpressured
                      THEN Append(toRelay, Control("PAUSE", s)) ELSE toRelay

\* handleTcpClose: destroy() drops what the socket has not passed on
ClientClose(s) ==
    /\ client' = [client EXCEPT ![s].open = FALSE, ![s].queue = <<>>]
    /\ UNCHANGED toRelay

ClientReceives ==
    /\ relayWire # <<>>
    /\ relayWire' = Tail(relayWire)
    /\ LET f == Head(relayWire)
       IN  IF ~client[f.stream].open THEN UNCHANGED <<client, toRelay>>
           ELSE IF f.type = "TCP_DATA" THEN ClientData(f.stream, f.chunk)
           ELSE ClientClose(f.stream)
    /\ UNCHANGED <<agentVars, agentWire, relayVars, service>>

\* mutant: RESUME is not sent
ServiceTakesNoResume(s) ==
    /\ client[s].queue # <<>>
    /\ service' = [service EXCEPT ![s] = Append(@, Head(client[s].queue))]
    /\ LET rest == Tail(client[s].queue)
       IN  client' = [client EXCEPT ![s].queue = rest,
                                    ![s].backpressured = @ /\ rest # <<>>]
    /\ UNCHANGED <<agentVars, agentWire, relayVars, relayWire, toRelay>>

\* the kernel takes a chunk; 'drain' comes when the buffer is empty
ServiceTakes(s) ==
    /\ client[s].queue # <<>>
    /\ service' = [service EXCEPT ![s] = Append(@, Head(client[s].queue))]
    /\ LET rest    == Tail(client[s].queue)
           drained == rest = <<>> /\ client[s].backpressured
       IN  /\ client' = [client EXCEPT ![s].queue = rest,
                                       ![s].backpressured = @ /\ ~drained]
           /\ toRelay' = IF drained THEN Append(toRelay, Control("RESUME", s)) ELSE toRelay
    /\ UNCHANGED <<agentVars, agentWire, relayVars, relayWire>>

-----------------------------------------------------------------------------
Next ==
    \/ \E s \in Streams : AppData(s) \/ AppClose(s)
    \/ AgentWritten
    \/ AgentControl
    \/ RelayTakesAgentFrame
    \/ RelayTakesControl
    \/ RelayWritten
    \/ \E s \in Streams : DirectData(s) \/ DirectClose(s)
    \/ ClientReceives
    \/ \E s \in Streams : ServiceTakes(s)

Spec == Init /\ [][Next]_vars

\* The three processes go on reading and the kernels go on sending; a service
\* takes what it is sent.  The application need not send or close.
Fairness ==
    /\ WF_vars(AgentWritten) /\ WF_vars(AgentControl)
    /\ WF_vars(RelayTakesAgentFrame) /\ WF_vars(RelayTakesControl)
    /\ WF_vars(RelayWritten) /\ WF_vars(ClientReceives)
    /\ \A s \in Streams : WF_vars(ServiceTakes(s))

FairSpec == Spec /\ Fairness

-----------------------------------------------------------------------------
(* Properties.                                                             *)

\* Every service receives a prefix of what its application sent, in order and
\* without gaps or repetitions: buffering in VirtualSocket, re-entrant resume()
\* and the shared WebSockets never reorder a stream.
Promise == INSTANCE Pipe WITH got <- service
ImplementsPipe == Promise!Spec

\* Memory stays bounded ("prevent memory leaks when one side is slower",
\* docs/tcp-tunnel.md): the agent's WebSocket holds at most one chunk per stream
\* above the high-water mark, the relay's at most a full VirtualSocket buffer, or
\* one chunk of a direct connection, per stream.
BuffersBounded ==
    /\ BufferedAmount(agentOut) <= WsHigh + Cardinality(Streams \ Direct)
    /\ BufferedAmount(relayOut) <=
          WsHigh + Cardinality(Direct) + Cardinality(Streams \ Direct) * MaxDestBuffer

\* When no frame is on its way, no side is paused for a reason that is gone: the
\* relay is paused by its client exactly while the local socket is full, and an
\* agent is paused by the relay only while its VirtualSocket is.
Quiet == /\ agentWire = <<>> /\ toAgent = <<>> /\ relayWire = <<>> /\ toRelay = <<>>
         /\ agentOut = Idle /\ relayOut = Idle
PausesJustified ==
    Quiet => \A s \in Streams :
        /\ relay[s].live /\ client[s].open => relay[s].peerPaused = client[s].backpressured
        /\ agent[s].open /\ agent[s].peerPaused => relay[s].paused

\* With one stream on its WebSockets, everything the application sent arrives,
\* unless the stream ends first.
SentArrives ==
    \A s \in Streams, n \in 1..Chunks :
        sent[s] >= n ~> Len(service[s]) >= n \/ ~client[s].open

\* With one stream on its WebSockets, a reader that was paused anywhere on the way
\* reads again: no RESUME and no low-water mark is missed.
ReadersResume ==
    \A s \in Streams \ Direct :
        agent[s].open ~> AgentReads(s) \/ ~agent[s].open

-----------------------------------------------------------------------------
(* What the documentation and the tests say, and the code does not do.     *)

\* tcp-agent.js resumes a throttled reader once its WebSocket has drained (the
\* 'drain' handler, which `ws` never calls).  With two streams on a WebSocket a
\* reader may stay paused for ever.
ThrottledReadersResume ==
    \A s \in Streams : relay[s].wsPaused ~> ~relay[s].wsPaused \/ ~relay[s].live
=============================================================================
