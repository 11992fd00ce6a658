------------------------------ MODULE TcpRelay ------------------------------
(***************************************************************************)
(* The TCP half of the relay process: StreamManager (TCP streams),         *)
(* TcpRouter (direct external connections and agent streams),              *)
(* TcpAgentServer, the lifecycle part of VirtualSocket, and the client     *)
(* registry of ClientManager.  Node runs one handler to completion before  *)
(* the next, so every action below is one whole handler.                   *)
(*                                                                         *)
(* The module is open: the peers at the far ends of the WebSockets may     *)
(* send any TCP frame, and a client RES_ABORT, at any time.  The HTTP      *)
(* frames RES_META, RES_DATA and RES_END are left out: serve/client.js     *)
(* never sends them for a TCP stream.  TcpTunnel closes the module with    *)
(* the two real peers, serve/tcp-agent.js and serve/client.js.             *)
(*                                                                         *)
(* Left to other modules: PAUSE/RESUME and buffered bytes (TcpUpFlow,      *)
(* TcpDownFlow), HTTP streams, which share the stream table (HttpStream).  *)
(***************************************************************************)
EXTENDS Integers, FiniteSets, Sequences, SequencesExt

CONSTANTS
    Conns,          \* connection attempts; each is used at most once
    Clients,        \* WebSockets accepted on /tunnel
    Agents,         \* WebSockets accepted on /tcp
    Ports,          \* port numbers a connection may ask for
    AllowedPorts,   \* TCP_AGENT_ALLOWED_PORTS
    TunnelIds,      \* named tunnels
    NoTunnelId,     \* the empty tunnel id
    NoConn, NoClient, NoAgent,
    MaxStreamId,    \* 0xffffffff in the code
    MaxStreams,     \* MAX_CONCURRENT_STREAMS
    MaxClients,     \* MAX_TUNNEL_CLIENTS
    MaxPerPort,     \* TCP_MAX_CONNECTIONS_PER_PORT, 0 for no limit
    MaxPerAgent,    \* TCP_AGENT_MAX_STREAMS_PER_AGENT, 0 for no limit
    IdleTimeouts    \* FALSE models STREAM_IDLE_TIMEOUT_MS=0

ASSUME RelayAssumption ==
    /\ IsFiniteSet(Conns) /\ IsFiniteSet(Clients)
    /\ AllowedPorts \subseteq Ports
    /\ NoTunnelId \notin TunnelIds
    /\ NoConn \notin Conns /\ NoClient \notin Clients /\ NoAgent \notin Agents
    /\ MaxStreamId \in Nat \ {0} /\ MaxStreams \in Nat \ {0}
    /\ MaxClients \in Nat \ {0}
    /\ MaxPerPort \in Nat /\ MaxPerAgent \in Nat
    /\ IdleTimeouts \in BOOLEAN

StreamIds == 1..MaxStreamId

-----------------------------------------------------------------------------
(* Frames.  A stream frame names its stream; a connect-level rejection is  *)
(* a TCP_ABORT with stream id 0 that echoes the agent's request id, which  *)
(* is the connection itself here.                                          *)

StreamFrame(t, i) == [type |-> t, id |-> i]
OpenFrame(i, p)   == [type |-> "TCP_OPEN", id |-> i, port |-> p]
AckFrame(i, c)    == [type |-> "TCP_CONNECT_ACK", id |-> i, req |-> c]
RejectFrame(c)    == [type |-> "TCP_ABORT", id |-> 0, req |-> c]

EndTypes == {"TCP_CLOSE", "TCP_ABORT"}
DownFrames == [type : {"TCP_DATA"} \cup EndTypes, id : StreamIds]
ToClientFrames == DownFrames \cup [type : {"TCP_OPEN"}, id : StreamIds, port : Ports]
ToAgentFrames == DownFrames \cup [type : {"TCP_CONNECT_ACK"}, id : StreamIds, req : Conns]
                            \cup [type : {"TCP_ABORT"}, id : {0}, req : Conns]

-----------------------------------------------------------------------------
VARIABLES
    streams,          \* StreamManager.streams: stream id -> connection
    nextStreamId,     \* StreamManager._nextStreamId
    st,               \* per connection, the stream state object and its socket
    portCount,        \* TcpRouter._connCountByPort (direct connections)
    agentPortCount,   \* TcpAgentServer._connCountByPort
    agentStreams,     \* TcpAgentServer._agentStreams: the ids an agent owns
    agents,           \* the keys of _agentStreams
    clients,          \* ClientManager.clients
    byTunnelId,       \* ClientManager.clientsByTunnelId
    tunnelId,         \* ws.tunnelId of each client
    wsClient,         \* readyState of each /tunnel WebSocket, relay end
    wsAgent,          \* readyState of each /tcp WebSocket, relay end
    toClient,         \* frames sent to each client, not yet received
    toAgent           \* frames sent to each agent, not yet received

streamVars == <<streams, nextStreamId, st, portCount, agentPortCount, agentStreams>>
peerVars   == <<agents, clients, byTunnelId, tunnelId, wsClient, wsAgent>>
relayVars  == <<streams, nextStreamId, st, portCount, agentPortCount, agentStreams,
                agents, clients, byTunnelId, tunnelId, wsClient, wsAgent,
                toClient, toAgent>>

WsStates == {"none", "open", "closing", "closed"}
Phases   == {"unused", "live", "cleaned", "refused"}

\* phase:    "live" while the state object is in the table, "cleaned" once
\*           state.cleaned is set, "refused" when no stream was created
\* agent:    NoAgent for a direct connection (a net.Socket, not a VirtualSocket)
\* awaiting: state.awaitingClientAck
\* socket:   whether state.socket has been destroyed
\* counted:  the onCleanup closure has been installed and has not run
StreamStates ==
    [phase : Phases, id : StreamIds \cup {0}, port : Ports \cup {0},
     client : Clients \cup {NoClient}, agent : Agents \cup {NoAgent},
     awaiting : BOOLEAN, socket : {"none", "open", "destroyed"}, counted : BOOLEAN]

Unused == [phase |-> "unused", id |-> 0, port |-> 0, client |-> NoClient,
           agent |-> NoAgent, awaiting |-> FALSE, socket |-> "none", counted |-> FALSE]

TypeOK ==
    /\ streams \in [StreamIds -> Conns \cup {NoConn}]
    /\ nextStreamId \in StreamIds
    /\ st \in [Conns -> StreamStates]
    /\ portCount \in [Ports -> Nat]
    /\ agentPortCount \in [Ports -> Nat]
    /\ agentStreams \in [Agents -> SUBSET StreamIds]
    /\ agents \subseteq Agents
    /\ clients \subseteq Clients
    /\ byTunnelId \in [TunnelIds -> Clients \cup {NoClient}]
    /\ tunnelId \in [Clients -> TunnelIds \cup {NoTunnelId}]
    /\ wsClient \in [Clients -> WsStates]
    /\ wsAgent \in [Agents -> WsStates]
    /\ toClient \in [Clients -> Seq(ToClientFrames)]
    /\ toAgent \in [Agents -> Seq(ToAgentFrames)]

RelayInit ==
    /\ streams = [i \in StreamIds |-> NoConn]
    /\ nextStreamId = 1
    /\ st = [c \in Conns |-> Unused]
    /\ portCount = [p \in Ports |-> 0]
    /\ agentPortCount = [p \in Ports |-> 0]
    /\ agentStreams = [a \in Agents |-> {}]
    /\ agents = {}
    /\ clients = {}
    /\ byTunnelId = [t \in TunnelIds |-> NoClient]
    /\ tunnelId = [k \in Clients |-> NoTunnelId]
    /\ wsClient = [k \in Clients |-> "none"]
    /\ wsAgent = [a \in Agents |-> "none"]
    /\ toClient = [k \in Clients |-> <<>>]
    /\ toAgent = [a \in Agents |-> <<>>]

-----------------------------------------------------------------------------
(* Helpers.                                                                *)

Live(c)      == st[c].phase = "live"
LiveConns    == {c \in Conns : Live(c)}
IsAgent(c)   == st[c].agent # NoAgent
OpenClients  == {k \in clients : wsClient[k] = "open"}
StreamsInUse == {i \in StreamIds : streams[i] # NoConn}

\* mutant: the id does not wrap
SuccIdNoWrap(i) == i + 1

\* allocateStreamId: the first id from _nextStreamId on, cyclically, that is
\* not a key of the table
SuccId(i) == IF i >= MaxStreamId THEN 1 ELSE i + 1

CyclicallyBefore(j, i) ==
    IF nextStreamId <= i THEN nextStreamId <= j /\ j < i
                         ELSE nextStreamId <= j \/ j < i

\* mutant: the table is not consulted
AllocatesBlindly(i) == i = nextStreamId

Allocates(i) ==
    /\ streams[i] = NoConn
    /\ \A j \in StreamIds : CyclicallyBefore(j, i) => streams[j] # NoConn

\* sendFrame and sendJsonFrame drop the frame when the WebSocket is not open
ToAgent(a, frames) ==
    IF a # NoAgent /\ wsAgent[a] = "open"
    THEN [toAgent EXCEPT ![a] = @ \o frames]
    ELSE toAgent

ToClient(k, frames) ==
    IF wsClient[k] = "open"
    THEN [toClient EXCEPT ![k] = @ \o frames]
    ELSE toClient

\* one TCP_ABORT for every connection of S, in some order
AbortFrames(S) == SetToSeq({StreamFrame("TCP_ABORT", st[c].id) : c \in S})

\* cleanupTcpStream for every connection of S: each leaves the table, its
\* socket is destroyed and its onCleanup closure gives back the per-port
\* count and, for an agent stream, the agent's slot
CleanedState(s) ==
    [s EXCEPT !.phase = "cleaned", !.socket = "destroyed", !.counted = FALSE]

CountedOn(p, direct) ==
    {c \in Conns : st[c].counted /\ st[c].port = p /\ (st[c].agent = NoAgent) = direct}

Lowered(count, n) == IF n < count THEN count - n ELSE 0

SlotsAfter(S) == [a \in Agents |->
    agentStreams[a] \ {st[c].id : c \in {d \in S : st[d].agent = a}}]

\* mutant: onCleanup of a direct connection is not run
CleanupTcpStreamsKeepsCount(S) ==
    /\ streams' = [i \in StreamIds |-> IF streams[i] \in S THEN NoConn ELSE streams[i]]
    /\ st' = [c \in Conns |-> IF c \in S THEN CleanedState(st[c]) ELSE st[c]]
    /\ agentPortCount' = [p \in Ports |->
           Lowered(agentPortCount[p], Cardinality(S \cap CountedOn(p, FALSE)))]
    /\ UNCHANGED <<portCount, nextStreamId>>

CleanupTcpStreams(S) ==
    /\ streams' = [i \in StreamIds |-> IF streams[i] \in S THEN NoConn ELSE streams[i]]
    /\ st' = [c \in Conns |-> IF c \in S THEN CleanedState(st[c]) ELSE st[c]]
    /\ portCount' = [p \in Ports |->
           Lowered(portCount[p], Cardinality(S \cap CountedOn(p, TRUE)))]
    /\ agentPortCount' = [p \in Ports |->
           Lowered(agentPortCount[p], Cardinality(S \cap CountedOn(p, FALSE)))]
    /\ UNCHANGED nextStreamId

\* mutant: the agents are not told
AgentsNotTold(S) == toAgent

\* socket.abort of every agent stream of S, to the agents still connected
AgentsToldAbort(S) == [a \in Agents |->
    IF wsAgent[a] = "open"
    THEN toAgent[a] \o AbortFrames({c \in S : st[c].agent = a})
    ELSE toAgent[a]]

\* abortTcpStream of one connection: VirtualSocket.abort tells the agent (a
\* net.Socket has no abort), then the client if asked to, then cleanup
AbortTcpStream(c, notifyClient) ==
    /\ CleanupTcpStreams({c})
    /\ agentStreams' = SlotsAfter({c})
    /\ toAgent' = ToAgent(st[c].agent, AbortFrames({c}))
    /\ toClient' = IF notifyClient THEN ToClient(st[c].client, AbortFrames({c}))
                                   ELSE toClient
    /\ UNCHANGED peerVars

\* mutant: the client is not told
CloseTcpStreamSilently(c) ==
    /\ CleanupTcpStreams({c})
    /\ agentStreams' = SlotsAfter({c})
    /\ UNCHANGED <<toClient, toAgent, peerVars>>

\* the socket's 'close' handler and VirtualSocket.endFromAgent: a TCP_CLOSE to
\* the client, nothing back to the side that closed
CloseTcpStream(c) ==
    /\ CleanupTcpStreams({c})
    /\ agentStreams' = SlotsAfter({c})
    /\ toClient' = ToClient(st[c].client, <<StreamFrame("TCP_CLOSE", st[c].id)>>)
    /\ UNCHANGED <<toAgent, peerVars>>

\* the socket's 'error' handler (abortFromAgent for an agent stream): the client
\* gets a TCP_ABORT, the agent already knows
RelaySocketError(c) ==
    /\ CleanupTcpStreams({c})
    /\ agentStreams' = SlotsAfter({c})
    /\ toClient' = ToClient(st[c].client, AbortFrames({c}))
    /\ UNCHANGED <<toAgent, peerVars>>

\* the socket's 'data' handler
RelayInboundData(c) ==
    IF wsClient[st[c].client] # "open"
    THEN AbortTcpStream(c, TRUE)
    ELSE /\ toClient' = ToClient(st[c].client, <<StreamFrame("TCP_DATA", st[c].id)>>)
         /\ UNCHANGED <<streamVars, toAgent, peerVars>>

\* createTcpStream and the TCP_OPEN that follows it
StartStream(c, p, k, a) ==
    /\ \E i \in StreamIds :
          /\ Allocates(i)
          /\ streams' = [streams EXCEPT ![i] = c]
          /\ nextStreamId' = SuccId(i)
          /\ st' = [st EXCEPT ![c] =
                [phase |-> "live", id |-> i, port |-> p, client |-> k, agent |-> a,
                 awaiting |-> a # NoAgent, socket |-> "open", counted |-> TRUE]]
          /\ toClient' = ToClient(k, <<OpenFrame(i, p)>>)
          /\ agentStreams' = IF a = NoAgent THEN agentStreams
                             ELSE [agentStreams EXCEPT ![a] = @ \cup {i}]

-----------------------------------------------------------------------------
(* WebSockets on /tunnel: ClientManager.                                   *)

\* addClient turns the WebSocket away
RefuseClient(k, t) ==
    /\ wsClient[k] = "none"
    /\ \/ Cardinality(clients) >= MaxClients
       \/ \E j \in Clients : t # NoTunnelId /\ byTunnelId[t] = j /\ wsClient[j] = "open"
    /\ wsClient' = [wsClient EXCEPT ![k] = "closing"]
    /\ UNCHANGED <<streamVars, agents, clients, byTunnelId, tunnelId, wsAgent,
                   toClient, toAgent>>

\* addClient registers it, replacing a mapping to a WebSocket no longer open
AddClient(k, t) ==
    /\ wsClient[k] = "none"
    /\ Cardinality(clients) < MaxClients
    /\ \A j \in Clients : t # NoTunnelId /\ byTunnelId[t] = j => wsClient[j] # "open"
    /\ wsClient' = [wsClient EXCEPT ![k] = "open"]
    /\ tunnelId' = [tunnelId EXCEPT ![k] = t]
    /\ clients' = clients \cup {k}
    /\ byTunnelId' = IF t = NoTunnelId THEN byTunnelId ELSE [byTunnelId EXCEPT ![t] = k]
    /\ UNCHANGED <<streamVars, agents, wsAgent, toClient, toAgent>>

\* readyState leaves OPEN (close frame received, or the heartbeat terminated
\* the WebSocket) before the 'close' event
ClientClosing(k) ==
    /\ wsClient[k] = "open"
    /\ wsClient' = [wsClient EXCEPT ![k] = "closing"]
    /\ UNCHANGED <<streamVars, agents, clients, byTunnelId, tunnelId, wsAgent,
                   toClient, toAgent>>

\* mutant: a successor with the same tunnel id loses its mapping
CleanupClientUnmapsSuccessor(k) ==
    LET S == IF k \in clients THEN {c \in LiveConns : st[c].client = k} ELSE {}
    IN  /\ wsClient[k] \in {"open", "closing"}
        /\ wsClient' = [wsClient EXCEPT ![k] = "closed"]
        /\ clients' = clients \ {k}
        /\ byTunnelId' = [t \in TunnelIds |->
               IF tunnelId[k] = t THEN NoClient ELSE byTunnelId[t]]
        /\ CleanupTcpStreams(S)
        /\ agentStreams' = SlotsAfter(S)
        /\ toAgent' = AgentsToldAbort(S)
        /\ UNCHANGED <<agents, tunnelId, wsAgent, toClient>>

\* 'close' or 'error': cleanupClient aborts every stream of the WebSocket and
\* tells their agents; a refused WebSocket has no handler
CleanupClient(k) ==
    LET S == IF k \in clients THEN {c \in LiveConns : st[c].client = k} ELSE {}
    IN  /\ wsClient[k] \in {"open", "closing"}
        /\ wsClient' = [wsClient EXCEPT ![k] = "closed"]
        /\ clients' = clients \ {k}
        /\ byTunnelId' = [t \in TunnelIds |->
               IF byTunnelId[t] = k /\ tunnelId[k] = t THEN NoClient ELSE byTunnelId[t]]
        /\ CleanupTcpStreams(S)
        /\ agentStreams' = SlotsAfter(S)
        /\ toAgent' = AgentsToldAbort(S)
        /\ UNCHANGED <<agents, tunnelId, wsAgent, toClient>>

-----------------------------------------------------------------------------
(* WebSockets on /tcp: TcpAgentServer.                                     *)

HandleConnection(a) ==
    /\ wsAgent[a] = "none"
    /\ wsAgent' = [wsAgent EXCEPT ![a] = "open"]
    /\ agents' = agents \cup {a}
    /\ agentStreams' = [agentStreams EXCEPT ![a] = {}]
    /\ UNCHANGED <<streams, nextStreamId, st, portCount, agentPortCount,
                   clients, byTunnelId, tunnelId, wsClient, toClient, toAgent>>

AgentClosing(a) ==
    /\ wsAgent[a] = "open"
    /\ wsAgent' = [wsAgent EXCEPT ![a] = "closing"]
    /\ UNCHANGED <<streamVars, agents, clients, byTunnelId, tunnelId, wsClient,
                   toClient, toAgent>>

\* mutant: the agent's streams are left in the table
CleanupAgentKeepsStreams(a) ==
    /\ wsAgent[a] \in {"open", "closing"}
    /\ wsAgent' = [wsAgent EXCEPT ![a] = "closed"]
    /\ agents' = agents \ {a}
    /\ agentStreams' = [agentStreams EXCEPT ![a] = {}]
    /\ UNCHANGED <<streams, nextStreamId, st, portCount, agentPortCount, clients,
                   byTunnelId, tunnelId, wsClient, toClient, toAgent>>

\* 'close' or 'error': cleanupAgent aborts the streams whose ids the agent owns
CleanupAgent(a) ==
    LET S == {c \in LiveConns : st[c].id \in agentStreams[a]}
    IN  /\ wsAgent[a] \in {"open", "closing"}
        /\ wsAgent' = [wsAgent EXCEPT ![a] = "closed"]
        /\ agents' = agents \ {a}
        /\ CleanupTcpStreams(S)
        /\ agentStreams' = [SlotsAfter(S) EXCEPT ![a] = {}]
        /\ toAgent' = [AgentsToldAbort(S) EXCEPT ![a] = toAgent[a]]
        /\ toClient' = [k \in Clients |->
               IF wsClient[k] = "open"
               THEN toClient[k] \o AbortFrames({c \in S : st[c].client = k})
               ELSE toClient[k]]
        /\ UNCHANGED <<clients, byTunnelId, tunnelId, wsClient>>

-----------------------------------------------------------------------------
(* Frames from an agent: TcpAgentServer._handleFrame.                      *)

\* resolveTargetClient: the named tunnel, or the only open client
TargetClients(t) ==
    IF t = NoTunnelId THEN {k \in OpenClients : OpenClients = {k}}
                      ELSE {k \in Clients : byTunnelId[t] = k /\ wsClient[k] = "open"}

\* some check of _handleTcpConnect or createAgentStream fails
ConnectRefused(a, p, t) ==
    \/ p \notin AllowedPorts
    \/ MaxPerPort > 0 /\ agentPortCount[p] >= MaxPerPort
    \/ MaxPerAgent > 0 /\ Cardinality(agentStreams[a]) >= MaxPerAgent
    \/ TargetClients(t) = {}
    \/ Cardinality(StreamsInUse) >= MaxStreams

\* mutant: the ACK is not deferred to the client's TCP_OPEN_ACK
HandleTcpConnectAckedAtOnce(a, c, p, t) ==
    /\ wsAgent[a] = "open" /\ a \in agents
    /\ st[c].phase = "unused" /\ ~ConnectRefused(a, p, t)
    /\ \E k \in TargetClients(t) : StartStream(c, p, k, a)
    /\ agentPortCount' = [agentPortCount EXCEPT ![p] = @ + 1]
    /\ toAgent' = ToAgent(a, <<AckFrame(st'[c].id, c)>>)
    /\ UNCHANGED <<portCount, peerVars>>

HandleTcpConnect(a, c, p, t) ==
    /\ wsAgent[a] = "open" /\ a \in agents
    /\ st[c].phase = "unused"
    /\ \/ /\ ConnectRefused(a, p, t)
          /\ st' = [st EXCEPT ![c].phase = "refused"]
          /\ toAgent' = ToAgent(a, <<RejectFrame(c)>>)
          /\ UNCHANGED <<streams, nextStreamId, agentPortCount, agentStreams, toClient>>
       \/ /\ ~ConnectRefused(a, p, t)
          /\ \E k \in TargetClients(t) : StartStream(c, p, k, a)
          /\ agentPortCount' = [agentPortCount EXCEPT ![p] = @ + 1]
          /\ UNCHANGED toAgent
    /\ UNCHANGED <<portCount, peerVars>>

\* a stream frame that names no agent stream: only TCP_DATA and TCP_CLOSE are
\* answered
IsAgentStream(i) == streams[i] # NoConn /\ IsAgent(streams[i])

AgentStreamMissing(a, type, i) ==
    /\ ~IsAgentStream(i)
    /\ toAgent' = IF type = "TCP_ABORT" THEN toAgent
                  ELSE ToAgent(a, <<StreamFrame("TCP_ABORT", i)>>)
    /\ UNCHANGED <<streamVars, peerVars, toClient>>

\* another agent's stream, or one the tunnel client has not confirmed
AgentFrameIgnored(a, i) ==
    /\ IsAgentStream(i)
    /\ st[streams[i]].agent # a \/ st[streams[i]].awaiting
    /\ UNCHANGED relayVars

AgentStreamFrame(a, type, i) ==
    LET c == streams[i]
    IN  /\ IsAgentStream(i)
        /\ st[c].agent = a /\ ~st[c].awaiting
        /\ \/ type = "TCP_DATA" /\ RelayInboundData(c)
           \/ type = "TCP_CLOSE" /\ CloseTcpStream(c)
           \/ type = "TCP_ABORT" /\ RelaySocketError(c)

HandleAgentFrame(a, f) ==
    /\ wsAgent[a] = "open" /\ a \in agents
    /\ \/ AgentStreamMissing(a, f.type, f.id)
       \/ AgentFrameIgnored(a, f.id)
       \/ AgentStreamFrame(a, f.type, f.id)

-----------------------------------------------------------------------------
(* Frames from a tunnel client: StreamManager.handleClientFrame.           *)

Owns(k, i) == streams[i] # NoConn /\ st[streams[i]].client = k

TcpOpenAck(c) ==
    /\ IF st[c].awaiting
       THEN /\ st' = [st EXCEPT ![c].awaiting = FALSE]
            /\ toAgent' = ToAgent(st[c].agent, <<AckFrame(st[c].id, c)>>)
       ELSE UNCHANGED <<st, toAgent>>
    /\ UNCHANGED <<streams, nextStreamId, portCount, agentPortCount, agentStreams,
                   peerVars, toClient>>

\* socket.write: to the external socket, or on to the agent
TcpDataFromClient(c) ==
    /\ toAgent' = ToAgent(st[c].agent, <<StreamFrame("TCP_DATA", st[c].id)>>)
    /\ UNCHANGED <<streamVars, peerVars, toClient>>

\* mutant: VirtualSocket.destroy says nothing
TcpCloseNotForwarded(c) ==
    /\ CleanupTcpStreams({c})
    /\ agentStreams' = SlotsAfter({c})
    /\ UNCHANGED <<peerVars, toClient, toAgent>>

\* cleanupTcpStream; VirtualSocket.destroy sends the agent a TCP_CLOSE
TcpCloseFromClient(c) ==
    /\ CleanupTcpStreams({c})
    /\ agentStreams' = SlotsAfter({c})
    /\ toAgent' = ToAgent(st[c].agent, <<StreamFrame("TCP_CLOSE", st[c].id)>>)
    /\ UNCHANGED <<peerVars, toClient>>

\* mutant: the abort names a stream the agent does not know yet
TcpAbortOfUnknownStream(c) ==
    /\ CleanupTcpStreams({c})
    /\ agentStreams' = SlotsAfter({c})
    /\ toAgent' = ToAgent(st[c].agent, AbortFrames({c}))
    /\ UNCHANGED <<peerVars, toClient>>

\* a connect still waiting for its ACK is rejected by request id; then
\* abortTcpStream sends the agent a TCP_ABORT for the stream as well (awaiting,
\* which the code resets, is not read again once the stream is cleaned)
TcpAbortFromClient(c) ==
    /\ CleanupTcpStreams({c})
    /\ agentStreams' = SlotsAfter({c})
    /\ toAgent' = ToAgent(st[c].agent,
           (IF st[c].awaiting THEN <<RejectFrame(c)>> ELSE <<>>) \o AbortFrames({c}))
    /\ UNCHANGED <<peerVars, toClient>>

\* RES_ABORT does not look at the mode: cleanupStream drops the state from the
\* table and leaves socket and onCleanup of a TCP stream alone
ResAbortFromClient(c) ==
    /\ streams' = [streams EXCEPT ![st[c].id] = NoConn]
    /\ st' = [st EXCEPT ![c].phase = "cleaned"]
    /\ UNCHANGED <<nextStreamId, portCount, agentPortCount, agentStreams, peerVars,
                   toClient, toAgent>>

HandleClientFrame(k, f) ==
    /\ wsClient[k] = "open" /\ k \in clients
    /\ \/ ~Owns(k, f.id) /\ UNCHANGED relayVars
       \/ /\ Owns(k, f.id)
          /\ LET c == streams[f.id]
             IN  \/ f.type = "TCP_OPEN_ACK" /\ TcpOpenAck(c)
                 \/ f.type = "TCP_DATA" /\ TcpDataFromClient(c)
                 \/ f.type = "TCP_CLOSE" /\ TcpCloseFromClient(c)
                 \/ f.type = "TCP_ABORT" /\ TcpAbortFromClient(c)
                 \/ f.type = "RES_ABORT" /\ ResAbortFromClient(c)

-----------------------------------------------------------------------------
(* Direct connections: TcpRouter._handleConnection and the socket's events.*)

\* mutant: off by one at the per-port limit
ConnectionRefusedTooLate(p, allowedIp) ==
    \/ ~allowedIp
    \/ MaxPerPort > 0 /\ portCount[p] > MaxPerPort
    \/ Cardinality(StreamsInUse) >= MaxStreams
    \/ OpenClients = {}

ConnectionRefused(p, allowedIp) ==
    \/ ~allowedIp
    \/ MaxPerPort > 0 /\ portCount[p] >= MaxPerPort
    \/ Cardinality(StreamsInUse) >= MaxStreams
    \/ OpenClients = {}

\* getActiveClient takes an open client with the least bufferedAmount, which
\* may be any of them
HandleDirectConnection(c, p, allowedIp) ==
    /\ st[c].phase = "unused"
    /\ \/ /\ ConnectionRefused(p, allowedIp)
          /\ st' = [st EXCEPT ![c].phase = "refused", ![c].socket = "destroyed"]
          /\ UNCHANGED <<streams, nextStreamId, portCount, agentStreams, toClient>>
       \/ /\ ~ConnectionRefused(p, allowedIp)
          /\ \E k \in OpenClients : StartStream(c, p, k, NoAgent)
          /\ portCount' = [portCount EXCEPT ![p] = @ + 1]
    /\ UNCHANGED <<agentPortCount, peerVars, toAgent>>

Direct(c) == st[c].agent = NoAgent /\ st[c].socket = "open"

DirectData(c) == Direct(c) /\ Live(c) /\ RelayInboundData(c)

\* 'close' or 'error' of the external socket; the handlers return at once when
\* the state has been cleaned
DirectEnd(c, error) ==
    /\ Direct(c)
    /\ IF ~Live(c)
       THEN /\ st' = [st EXCEPT ![c].socket = "destroyed"]
            /\ UNCHANGED <<streams, nextStreamId, portCount, agentPortCount,
                           agentStreams, peerVars, toClient, toAgent>>
       ELSE IF error THEN RelaySocketError(c) ELSE CloseTcpStream(c)

\* the idle timer of a stream fires
StreamIdle(c) ==
    /\ IdleTimeouts /\ Live(c)
    /\ AbortTcpStream(c, TRUE)

-----------------------------------------------------------------------------
(* The open system: the peers send what they like and take what they are   *)
(* sent.                                                                   *)

FromClientFrames ==
    [type : {"TCP_OPEN_ACK", "TCP_DATA", "TCP_CLOSE", "TCP_ABORT", "RES_ABORT"},
     id : StreamIds]
FromAgentFrames == [type : {"TCP_DATA", "TCP_CLOSE", "TCP_ABORT"}, id : StreamIds]

ReceivedByClient(k) ==
    /\ toClient[k] # <<>>
    /\ toClient' = [toClient EXCEPT ![k] = Tail(@)]
    /\ UNCHANGED <<streamVars, peerVars, toAgent>>

ReceivedByAgent(a) ==
    /\ toAgent[a] # <<>>
    /\ toAgent' = [toAgent EXCEPT ![a] = Tail(@)]
    /\ UNCHANGED <<streamVars, peerVars, toClient>>

ClientEvent(k) ==
    \/ \E t \in TunnelIds \cup {NoTunnelId} : AddClient(k, t) \/ RefuseClient(k, t)
    \/ ClientClosing(k)
    \/ CleanupClient(k)
    \/ \E f \in FromClientFrames : HandleClientFrame(k, f)
    \/ ReceivedByClient(k)

AgentEvent(a) ==
    \/ HandleConnection(a)
    \/ AgentClosing(a)
    \/ CleanupAgent(a)
    \/ \E c \in Conns, p \in Ports, t \in TunnelIds \cup {NoTunnelId} :
          HandleTcpConnect(a, c, p, t)
    \/ \E f \in FromAgentFrames : HandleAgentFrame(a, f)
    \/ ReceivedByAgent(a)

ConnEvent(c) ==
    \/ \E p \in Ports, allowedIp \in BOOLEAN : HandleDirectConnection(c, p, allowedIp)
    \/ DirectData(c)
    \/ \E error \in BOOLEAN : DirectEnd(c, error)
    \/ StreamIdle(c)

RelayNext ==
    \/ \E k \in Clients : ClientEvent(k)
    \/ \E a \in Agents : AgentEvent(a)
    \/ \E c \in Conns : ConnEvent(c)

RelaySpec == RelayInit /\ [][RelayNext]_relayVars

-----------------------------------------------------------------------------
(* Safety.                                                                 *)

\* The stream table and the state objects agree: an id maps to a connection
\* exactly when that connection is live under that id, so no two live streams
\* share an id and an id is never handed out twice (allocateStreamId after a
\* wrap, RES_ABORT, bulk cleanups).
TableConsistent ==
    \A i \in StreamIds, c \in Conns : streams[i] = c <=> Live(c) /\ st[c].id = i

\* A live stream has both of its ends: its tunnel client is still registered
\* and not closed, its socket is not destroyed, and an agent stream belongs to
\* a registered agent that owns its id; so losing either WebSocket can never
\* strand a live stream.
LiveStreamsHaveEnds ==
    \A c \in LiveConns :
        /\ st[c].client \in clients /\ wsClient[st[c].client] \in {"open", "closing"}
        /\ st[c].socket = "open"
        /\ IsAgent(c) => /\ st[c].agent \in agents
                         /\ wsAgent[st[c].agent] \in {"open", "closing"}
                         /\ st[c].id \in agentStreams[st[c].agent]

\* The limits hold: live connections per port, direct and through agents, never
\* exceed TCP_MAX_CONNECTIONS_PER_PORT, an agent's live streams never exceed
\* TCP_AGENT_MAX_STREAMS_PER_AGENT, and the table never exceeds
\* MAX_CONCURRENT_STREAMS, whatever order streams end in.
LiveOn(p, direct) == {c \in LiveConns : st[c].port = p /\ (st[c].agent = NoAgent) = direct}
LiveOf(a) == {c \in LiveConns : st[c].agent = a}

LimitsRespected ==
    /\ MaxPerPort > 0 => \A p \in Ports, direct \in BOOLEAN :
          Cardinality(LiveOn(p, direct)) <= MaxPerPort
    /\ MaxPerAgent > 0 => \A a \in Agents : Cardinality(LiveOf(a)) <= MaxPerAgent
    /\ Cardinality(StreamsInUse) <= MaxStreams

\* The two per-port counters equal the number of connections that still hold a
\* count, and every live connection holds one: no path of onCleanup gives a
\* count back twice or skips the one it owes.
CountsExact ==
    /\ \A p \in Ports : /\ portCount[p] = Cardinality(CountedOn(p, TRUE))
                        /\ agentPortCount[p] = Cardinality(CountedOn(p, FALSE))
    /\ \A c \in LiveConns : st[c].counted

\* The client registry survives reconnects in any order: a tunnel id maps only
\* to a registered client that carries it, and every open registered client
\* with a tunnel id can be found by it, also when the late 'close' of a
\* predecessor with the same id is handled after the successor registered.
RegistryConsistent ==
    /\ \A t \in TunnelIds : byTunnelId[t] # NoClient =>
          byTunnelId[t] \in clients /\ tunnelId[byTunnelId[t]] = t
    /\ \A k \in OpenClients : tunnelId[k] # NoTunnelId => byTunnelId[tunnelId[k]] = k
    /\ Cardinality(clients) <= MaxClients
    /\ \A k \in clients : wsClient[k] \in {"open", "closing"}

\* The agent gets a TCP_CONNECT_ACK for a stream only after the tunnel client
\* has confirmed that the local connection exists (deferred ACK).
AckedStreams ==
    UNION {{f \in Range(toAgent[a]) : f.type = "TCP_CONNECT_ACK"} : a \in Agents}

AckOnlyConfirmed ==
    \A f \in AckedStreams : /\ st[f.req].phase \in {"live", "cleaned"}
                            /\ st[f.req].id = f.id
                            /\ ~st[f.req].awaiting

=============================================================================
