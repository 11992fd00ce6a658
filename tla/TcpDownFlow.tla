---------------------------- MODULE TcpDownFlow ----------------------------
(***************************************************************************)
(* Data and backpressure of established TCP streams, from the service to   *)
(* the application:                                                        *)
(*                                                                         *)
(*   service -> client -(client's WebSocket)-> relay -> VirtualSocket      *)
(*           -(agent's WebSocket)-> agent -> application                   *)
(*                                                                         *)
(* or, for a direct connection, relay -> net.Socket of the application.    *)
(* The conventions and the abstractions are those of TcpUpFlow.            *)
(***************************************************************************)
EXTENDS WsSender, SequencesExt

CONSTANTS
    Streams,
    Direct,         \* the streams that have no agent
    Chunks,         \* bound: chunks a service sends
    WsHigh, WsLow,  \* WS_HIGH_WATER, WS_LOW_WATER
    SocketHigh,     \* highWaterMark of a net.Socket
    MaxWire         \* bound: frames in the kernel's buffers of a WebSocket

ASSUME DownFlowAssumption ==
    /\ Direct \subseteq Streams /\ IsFiniteSet(Streams)
    /\ Chunks \in Nat \ {0} /\ SocketHigh \in Nat \ {0} /\ MaxWire \in Nat \ {0}
    /\ WsHigh \in Nat \ {0} /\ WsLow \in Nat /\ WsLow < WsHigh   \* config.js

VARIABLES
    sent,           \* chunks read from each service's socket
    client,         \* the client's state object of each stream
    clientOut,      \* sending side of the client's WebSocket
    clientWire,     \* frames on their way to the relay
    relay,          \* the relay's state object and VirtualSocket of each stream
    relayOut,       \* sending side of the agent's WebSocket at the relay
    relayWire,      \* frames on their way to the agent
    toClient,       \* PAUSE and RESUME on their way to the client
    agentOpen,      \* the streams the agent has an entry for
    toRelay,        \* PAUSE and RESUME on their way from the agent
    socket,         \* the application's socket: at the agent, or at the relay
    app             \* the chunks each application has received

clientVars == <<sent, client, clientOut>>
relayVars  == <<relay, relayOut, toClient>>
appVars    == <<socket, app>>
vars == <<clientVars, clientWire, relayVars, relayWire, agentOpen, toRelay, appVars>>

ControlFrames == [type : {"PAUSE", "RESUME", "TCP_CLOSE"}, stream : Streams]
DataFrames == [type : {"TCP_DATA"}, stream : Streams, chunk : 1..Chunks]
Frames == ControlFrames \cup DataFrames
Senders == [sending : Seq(Frames), waiting : Seq(Frames)]

\* client: peerPaused = peerPausedRead, wsPaused = localPausedForWs, pending = pendingSends
\* relay:  pendingDrain is the VirtualSocket's, the others the state object's
\* socket: queue is what it has not yet passed to the kernel, backpressured =
\*         localWriteBackpressured of the agent's entry
TypeOK ==
    /\ sent \in [Streams -> 0..Chunks]
    /\ client \in [Streams -> [open : BOOLEAN, peerPaused : BOOLEAN, wsPaused : BOOLEAN,
                               pending : Nat]]
    /\ clientOut \in Senders
    /\ clientWire \in Seq(Frames)
    /\ relay \in [Streams -> [live : BOOLEAN, pendingDrain : BOOLEAN, wsBackpressured : BOOLEAN,
                              agentPaused : BOOLEAN, clientPausedForAgent : BOOLEAN]]
    /\ relayOut \in Senders
    /\ relayWire \in Seq(Frames)
    /\ toClient \in Seq(ControlFrames)
    /\ agentOpen \subseteq Streams \ Direct
    /\ toRelay \in Seq(ControlFrames)
    /\ socket \in [Streams -> [queue : Seq(1..Chunks), backpressured : BOOLEAN]]
    /\ app \in [Streams -> Seq(1..Chunks)]

Init ==
    /\ sent = [s \in Streams |-> 0]
    /\ client = [s \in Streams |-> [open |-> TRUE, peerPaused |-> FALSE, wsPaused |-> FALSE,
                                    pending |-> 0]]
    /\ clientOut = Idle
    /\ clientWire = <<>>
    /\ relay = [s \in Streams |-> [live |-> TRUE, pendingDrain |-> FALSE, wsBackpressured |-> FALSE,
                                   agentPaused |-> FALSE, clientPausedForAgent |-> FALSE]]
    /\ relayOut = Idle
    /\ relayWire = <<>>
    /\ toClient = <<>>
    /\ agentOpen = Streams \ Direct
    /\ toRelay = <<>>
    /\ socket = [s \in Streams |-> [queue |-> <<>>, backpressured |-> FALSE]]
    /\ app = [s \in Streams |-> <<>>]

-----------------------------------------------------------------------------
(* Client process.                                                         *)

\* syncSocketReadState leaves the local socket reading
ClientReads(s) == client[s].open /\ ~client[s].peerPaused /\ ~client[s].wsPaused

\* mutant: the client never throttles itself
ServiceDataUnthrottled(s) ==
    /\ ClientReads(s) /\ sent[s] < Chunks
    /\ sent' = [sent EXCEPT ![s] = @ + 1]
    /\ clientOut' = Write(clientOut, Data(s, sent[s] + 1))
    /\ client' = [client EXCEPT ![s].pending = @ + 1]
    /\ UNCHANGED <<clientWire, relayVars, relayWire, agentOpen, toRelay, appVars>>

\* mutant: the pending send is not counted
ServiceDataUncounted(s) ==
    /\ ClientReads(s) /\ sent[s] < Chunks
    /\ sent' = [sent EXCEPT ![s] = @ + 1]
    /\ clientOut' = Write(clientOut, Data(s, sent[s] + 1))
    /\ client' = [client EXCEPT ![s].wsPaused = BufferedAmount(clientOut') > WsHigh]
    /\ UNCHANGED <<clientWire, relayVars, relayWire, agentOpen, toRelay, appVars>>

\* 'data' of the local socket
ServiceData(s) ==
    /\ ClientReads(s) /\ sent[s] < Chunks
    /\ sent' = [sent EXCEPT ![s] = @ + 1]
    /\ clientOut' = Write(clientOut, Data(s, sent[s] + 1))
    /\ client' = [client EXCEPT ![s].pending = @ + 1,
                                ![s].wsPaused = BufferedAmount(clientOut') > WsHigh]
    /\ UNCHANGED <<clientWire, relayVars, relayWire, agentOpen, toRelay, appVars>>

\* 'close' of the local socket, after the last byte has been read
ServiceClose(s) ==
    /\ ClientReads(s)
    /\ client' = [client EXCEPT ![s].open = FALSE]
    /\ clientOut' = Write(clientOut, Control("TCP_CLOSE", s))
    /\ UNCHANGED <<sent, clientWire, relayVars, relayWire, agentOpen, toRelay, appVars>>

\* the send callbacks of a batch
ClientCallbacks(s, batch, out) ==
    LET n    == Cardinality(DataOf(batch, s))
        left == client[s].pending - n
        wake == n > 0 /\ left = 0 /\ BufferedAmount(out) <= WsLow /\ client[s].open
    IN  [client[s] EXCEPT !.pending = left, !.wsPaused = @ /\ ~wake]

ClientWritten ==
    /\ clientOut.sending # <<>> /\ Len(clientWire) < MaxWire
    /\ clientOut' = Written(clientOut)
    /\ clientWire' = clientWire \o clientOut.sending
    /\ client' = [s \in Streams |-> ClientCallbacks(s, clientOut.sending, clientOut')]
    /\ UNCHANGED <<sent, relayVars, relayWire, agentOpen, toRelay, appVars>>

\* PAUSE and RESUME at the client
ClientControl ==
    /\ toClient # <<>>
    /\ toClient' = Tail(toClient)
    /\ LET f == Head(toClient)
       IN  client' = IF client[f.stream].open
                     THEN [client EXCEPT ![f.stream].peerPaused = f.type = "PAUSE"]
                     ELSE client
    /\ UNCHANGED <<sent, clientOut, clientWire, relay, relayOut, relayWire, agentOpen,
                   toRelay, appVars>>

-----------------------------------------------------------------------------
(* Relay.                                                                  *)

\* mutant: a client that was paused is never told to go on
SyncNeverResumes(r) ==
    LET should == r.agentPaused \/ r.wsBackpressured
    IN  [r EXCEPT !.clientPausedForAgent = @ \/ should]

\* syncTcpBackpressure: the client is paused while one of two reasons holds, and
\* told when that changes
SyncTcpBackpressure(r) ==
    LET should == r.agentPaused \/ r.wsBackpressured
    IN  [r EXCEPT !.clientPausedForAgent = should]

Told(s, r) == Control(IF r.clientPausedForAgent THEN "PAUSE" ELSE "RESUME", s)

ClientTold(s, before, after) ==
    IF before.clientPausedForAgent = after.clientPausedForAgent THEN <<>> ELSE <<Told(s, after)>>

\* the relay's state object becomes r, the client is told of the difference
Updates(s, r) ==
    /\ relay' = [relay EXCEPT ![s] = r]
    /\ toClient' = toClient \o ClientTold(s, relay[s], r)

\* mutant: a write that returns false is taken for one that failed, and repeated
WriteToAgentTwice(s, n) ==
    LET once == Write(relayOut, Data(s, n))
    IN  /\ relayOut' = IF BufferedAmount(once) > WsHigh THEN Write(once, Data(s, n)) ELSE once
        /\ UNCHANGED <<relay, toClient, socket>>

\* TCP_DATA for the agent: VirtualSocket.write
WriteToAgent(s, n) ==
    LET full == BufferedAmount(relayOut') > WsHigh
    IN  /\ relayOut' = Write(relayOut, Data(s, n))
        /\ IF full
           THEN Updates(s, SyncTcpBackpressure([relay[s] EXCEPT !.pendingDrain = TRUE,
                                                                !.wsBackpressured = TRUE]))
           ELSE UNCHANGED <<relay, toClient>>
        /\ UNCHANGED socket

\* TCP_DATA for the external socket of a direct connection
WriteToSocket(s, n) ==
    LET queue == Append(socket[s].queue, n)
    IN  /\ socket' = [socket EXCEPT ![s].queue = queue]
        /\ IF Len(queue) >= SocketHigh
           THEN Updates(s, SyncTcpBackpressure([relay[s] EXCEPT !.wsBackpressured = TRUE]))
           ELSE UNCHANGED <<relay, toClient>>
        /\ UNCHANGED relayOut

\* TCP_CLOSE: cleanupTcpStream destroys the socket; a VirtualSocket tells the
\* agent, a net.Socket drops what it has not passed on
RelayClose(s) ==
    /\ relay' = [relay EXCEPT ![s].live = FALSE]
    /\ relayOut' = IF s \in Direct THEN relayOut
                   ELSE Write(relayOut, Control("TCP_CLOSE", s))
    /\ socket' = IF s \in Direct THEN [socket EXCEPT ![s].queue = <<>>] ELSE socket
    /\ UNCHANGED toClient

RelayTakesClientFrame ==
    /\ clientWire # <<>>
    /\ clientWire' = Tail(clientWire)
    /\ LET f == Head(clientWire)
           s == f.stream
       IN  \/ ~relay[s].live /\ UNCHANGED <<relay, relayOut, toClient, socket>>
           \/ /\ relay[s].live /\ f.type = "TCP_DATA"
              /\ IF s \in Direct THEN WriteToSocket(s, f.chunk) ELSE WriteToAgent(s, f.chunk)
           \/ relay[s].live /\ f.type = "TCP_CLOSE" /\ RelayClose(s)
    /\ UNCHANGED <<clientVars, relayWire, agentOpen, toRelay, app>>

\* the send callbacks of a batch, and the 'drain' they emit; a destroyed
\* VirtualSocket emits none
Drained(s, batch, out) ==
    /\ relay[s].live /\ relay[s].pendingDrain
    /\ DataOf(batch, s) # {}
    /\ BufferedAmount(out) <= WsLow

AfterCallbacks(s, batch, out) ==
    IF Drained(s, batch, out)
    THEN SyncTcpBackpressure([relay[s] EXCEPT !.pendingDrain = FALSE, !.wsBackpressured = FALSE])
    ELSE relay[s]

\* a stream's first frame in the batch decides when its callbacks begin
InCallbackOrder(order, batch) ==
    \A i, j \in 1..Len(order) : i < j =>
        \E m \in 1..Len(batch) : /\ batch[m].stream = order[i]
                                /\ \A n \in 1..m : batch[n].stream # order[j]

RelayWritten ==
    LET batch == relayOut.sending
        after == [s \in Streams |-> AfterCallbacks(s, batch, Written(relayOut))]
        told  == {s \in Streams : ClientTold(s, relay[s], after[s]) # <<>>}
    IN  /\ batch # <<>> /\ Len(relayWire) < MaxWire
        /\ relayOut' = Written(relayOut)
        /\ relayWire' = relayWire \o batch
        /\ relay' = after
        /\ \E order \in SetToSeqs(told) :
               /\ InCallbackOrder(order, batch)
               /\ toClient' = toClient \o [n \in 1..Len(order) |-> Told(order[n], after[order[n]])]
        /\ UNCHANGED <<clientVars, clientWire, agentOpen, toRelay, appVars>>

\* PAUSE and RESUME from the agent
RelayTakesControl ==
    /\ toRelay # <<>>
    /\ toRelay' = Tail(toRelay)
    /\ LET s == Head(toRelay).stream
       IN  IF ~relay[s].live THEN UNCHANGED <<relay, toClient>>
           ELSE Updates(s, SyncTcpBackpressure(
                    [relay[s] EXCEPT !.agentPaused = Head(toRelay).type = "PAUSE"]))
    /\ UNCHANGED <<clientVars, clientWire, relayOut, relayWire, agentOpen, appVars>>

-----------------------------------------------------------------------------
(* Agent process and application.                                          *)

AgentData(s, n) ==
    LET queue == Append(socket[s].queue, n)
        full  == Len(queue) >= SocketHigh
    IN  /\ socket' = [socket EXCEPT ![s].queue = queue, ![s].backpressured = @ \/ full]
        /\ toRelay' = IF full /\ ~socket[s].backpressured
                      THEN Append(toRelay, Control("PAUSE", s)) ELSE toRelay
        /\ UNCHANGED agentOpen

\* mutant: the application's socket is destroyed
AgentCloseDestroys(s) ==
    /\ agentOpen' = agentOpen \ {s}
    /\ socket' = [socket EXCEPT ![s].queue = <<>>]
    /\ UNCHANGED toRelay

\* the entry goes; socket.end() still passes on what the socket holds
AgentClose(s) ==
    /\ agentOpen' = agentOpen \ {s}
    /\ UNCHANGED <<socket, toRelay>>

AgentReceives ==
    /\ relayWire # <<>>
    /\ relayWire' = Tail(relayWire)
    /\ LET f == Head(relayWire)
       IN  IF f.stream \notin agentOpen THEN UNCHANGED <<agentOpen, socket, toRelay>>
           ELSE IF f.type = "TCP_DATA" THEN AgentData(f.stream, f.chunk)
           ELSE AgentClose(f.stream)
    /\ UNCHANGED <<clientVars, clientWire, relayVars, app>>

\* mutant: the agent notes the 'drain' and sends no RESUME
AgentDrainSilently(s) ==
    /\ socket' = [socket EXCEPT ![s].queue = <<>>, ![s].backpressured = @ /\ s \notin agentOpen]
    /\ UNCHANGED <<relay, toClient, toRelay>>

\* 'drain' of the application's socket at the agent
AgentDrain(s) ==
    /\ IF s \in agentOpen /\ socket[s].backpressured
       THEN /\ socket' = [socket EXCEPT ![s].queue = <<>>, ![s].backpressured = FALSE]
            /\ toRelay' = Append(toRelay, Control("RESUME", s))
       ELSE /\ socket' = [socket EXCEPT ![s].queue = <<>>]
            /\ UNCHANGED toRelay
    /\ UNCHANGED <<relay, toClient>>

\* 'drain' of the external socket at the relay
RelayDrain(s) ==
    /\ socket' = [socket EXCEPT ![s].queue = <<>>]
    /\ IF relay[s].live /\ relay[s].wsBackpressured
       THEN Updates(s, SyncTcpBackpressure([relay[s] EXCEPT !.wsBackpressured = FALSE]))
       ELSE UNCHANGED <<relay, toClient>>
    /\ UNCHANGED toRelay

\* the kernel takes a chunk; 'drain' comes with the last one
AppTakes(s) ==
    /\ socket[s].queue # <<>>
    /\ app' = [app EXCEPT ![s] = Append(@, Head(socket[s].queue))]
    /\ IF Len(socket[s].queue) > 1
       THEN /\ socket' = [socket EXCEPT ![s].queue = Tail(@)]
            /\ UNCHANGED <<relay, toClient, toRelay>>
       ELSE IF s \in Direct THEN RelayDrain(s) ELSE AgentDrain(s)
    /\ UNCHANGED <<clientVars, clientWire, relayOut, relayWire, agentOpen>>

-----------------------------------------------------------------------------
Next ==
    \/ \E s \in Streams : ServiceData(s) \/ ServiceClose(s)
    \/ ClientWritten
    \/ ClientControl
    \/ RelayTakesClientFrame
    \/ RelayTakesControl
    \/ RelayWritten
    \/ AgentReceives
    \/ \E s \in Streams : AppTakes(s)

Spec == Init /\ [][Next]_vars

\* The three processes go on reading and the kernels go on sending; an
\* application takes what it is sent.  The service need not send or close.
Fairness ==
    /\ WF_vars(ClientWritten) /\ WF_vars(ClientControl)
    /\ WF_vars(RelayTakesClientFrame) /\ WF_vars(RelayTakesControl)
    /\ WF_vars(RelayWritten) /\ WF_vars(AgentReceives)
    /\ \A s \in Streams : WF_vars(AppTakes(s))

FairSpec == Spec /\ Fairness

-----------------------------------------------------------------------------
(* Properties.                                                             *)

\* Every application receives a prefix of what its service sent, in order and
\* without gaps or repetitions, whatever is paused on the way.
Promise == INSTANCE Pipe WITH got <- app
ImplementsPipe == Promise!Spec

\* Memory stays bounded at the client: its WebSocket holds at most one chunk per
\* stream above the high-water mark.
ClientBounded == BufferedAmount(clientOut) <= WsHigh + Cardinality(Streams)

\* When no frame is on its way, the pauses agree.  The relay knows which agent is
\* full, a full socket has paused its client, and the client reads or not as the
\* relay wants it.  And no client of a live stream is left paused: the relay
\* wants it paused only while the application has yet to take what its socket
\* holds, after which 'drain' resumes the client.  One reason more holds where
\* streams share the WebSocket of an agent: there a client may stay paused for a
\* WebSocket that has drained (see Drained).
Quiet == /\ clientWire = <<>> /\ toClient = <<>> /\ relayWire = <<>> /\ toRelay = <<>>
         /\ clientOut = Idle /\ relayOut = Idle
SocketFull(s) == Len(socket[s].queue) >= SocketHigh
SharesAgent(s) == s \notin Direct /\ Streams \ Direct # {s}

PausesAgree ==
    Quiet => \A s \in Streams : relay[s].live =>
        /\ relay[s].agentPaused = (s \notin Direct /\ socket[s].backpressured)
        /\ SocketFull(s) => relay[s].clientPausedForAgent
        /\ relay[s].clientPausedForAgent =>
              socket[s].queue # <<>> \/ (SharesAgent(s) /\ relay[s].wsBackpressured)
        /\ client[s].open => client[s].peerPaused = relay[s].clientPausedForAgent

\* An orderly close of the service loses nothing on the way through an agent: the
\* application receives everything that was sent before it.
AgentCloseKeepsData ==
    Quiet => \A s \in Streams \ Direct :
        ~client[s].open => Len(app[s]) + Len(socket[s].queue) = sent[s]

\* A client that the relay has paused is told to go on, or its stream ends, unless
\* the stream shares the WebSocket of an agent: no RESUME, no 'drain' of a socket and
\* no low-water mark is missed, however the streams delay each other.
PausedClientsResume ==
    \A s \in Streams : client[s].peerPaused /\ ~SharesAgent(s) ~>
        ~client[s].peerPaused \/ ~client[s].open
=============================================================================
