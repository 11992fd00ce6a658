------------------------------ MODULE TcpTunnel ------------------------------
(***************************************************************************)
(* The whole TCP path: the relay of TcpRelay between its two real peers,   *)
(* the agent process (serve/tcp-agent.js) next to the application and the  *)
(* client process (serve/client.js with TcpClientHandler) next to the      *)
(* service.                                                                *)
(*                                                                         *)
(* A WebSocket is one element of Agents or Clients and is used once: a     *)
(* process that reconnects goes on with another element, and since both    *)
(* processes drop all their state in the 'close' handler, before the       *)
(* reconnect timer starts, the state is kept per WebSocket.  Each end of a *)
(* WebSocket closes in a step of its own, so frames in flight are lost in  *)
(* every possible way, but never reordered or duplicated (TCP).            *)
(***************************************************************************)
EXTENDS TcpRelay

CONSTANTS
    Routes,             \* AGENT_PORTS/AGENT_ROUTES: <<target port, tunnel id>>
    HostAllowedBy,      \* the clients whose TCP_CLIENT_ALLOWED_HOSTS has the
                        \* relay's TCP_TUNNEL_HOST
    MaxClientStreams    \* MAX_CONCURRENT_STREAMS of the client process

ASSUME TunnelAssumption ==
    /\ Routes \subseteq Ports \X (TunnelIds \cup {NoTunnelId})
    /\ HostAllowedBy \subseteq Clients
    /\ MaxClientStreams \in Nat \ {0}
    /\ MaxStreamId >= Cardinality(Conns)    \* 2^32 ids: no wrap in a behaviour

VARIABLES
    endAgent,       \* readyState of each /tcp WebSocket, agent end
    pending,        \* pendingConnects, per WebSocket
    entries,        \* streamedSockets, per WebSocket: stream id -> connection
    app,            \* the application's socket of each agent connection
    fromAgent,      \* frames sent by each agent, not yet handled by the relay
    endClient,      \* readyState of each /tunnel WebSocket, client end
    clientStreams,  \* keys of the client's streams map, per WebSocket
    local,          \* the client's socket to the service, per stream id: its
                    \* state, the port dialled and the WebSocket it serves
    fromClient      \* frames sent by each client, not yet handled by the relay

agentVars  == <<endAgent, pending, entries, app, fromAgent>>
clientVars == <<endClient, clientStreams, local, fromClient>>
vars == <<relayVars, agentVars, clientVars>>

\* "left": the socket ended, or was destroyed, before its stream was joined
AppStates == {"none", "waiting", "joined", "left", "closed"}
LocalSockets == [state : {"none", "dialing", "open", "closed"},
                 port : Ports \cup {0}, client : Clients \cup {NoClient}]

\* an agent asks for the port and the tunnel of one of its routes
ConnectFrame(c, r) ==
    [type |-> "TCP_CONNECT", id |-> 0, req |-> c, port |-> r[1], target |-> r[2]]
ConnectFrames == {ConnectFrame(c, r) : c \in Conns, r \in Routes}

TunnelTypeOK ==
    /\ TypeOK
    /\ endAgent \in [Agents -> {"none", "open", "closed"}]
    /\ pending \in [Agents -> SUBSET Conns]
    /\ entries \in [Agents -> [StreamIds -> Conns \cup {NoConn}]]
    /\ app \in [Conns -> AppStates]
    /\ fromAgent \in [Agents -> Seq(FromAgentFrames \cup ConnectFrames)]
    /\ endClient \in [Clients -> {"none", "open", "closed"}]
    /\ clientStreams \in [Clients -> SUBSET StreamIds]
    /\ local \in [StreamIds -> LocalSockets]
    /\ fromClient \in [Clients -> Seq(FromClientFrames)]

TunnelInit ==
    /\ RelayInit
    /\ endAgent = [a \in Agents |-> "none"]
    /\ pending = [a \in Agents |-> {}]
    /\ entries = [a \in Agents |-> [i \in StreamIds |-> NoConn]]
    /\ app = [c \in Conns |-> "none"]
    /\ fromAgent = [a \in Agents |-> <<>>]
    /\ endClient = [k \in Clients |-> "none"]
    /\ clientStreams = [k \in Clients |-> {}]
    /\ local = [i \in StreamIds |-> [state |-> "none", port |-> 0, client |-> NoClient]]
    /\ fromClient = [k \in Clients |-> <<>>]

\* a frame sent while the far end is gone is lost
AgentSends(a, f) ==
    IF endAgent[a] = "open" /\ wsAgent[a] = "open"
    THEN [fromAgent EXCEPT ![a] = Append(@, f)] ELSE fromAgent
ClientSends(k, f) ==
    IF endClient[k] = "open" /\ wsClient[k] = "open"
    THEN [fromClient EXCEPT ![k] = Append(@, f)] ELSE fromClient

\* bound: at most one TCP_DATA of a stream on its way in each direction, and
\* none from an agent that is being told to abort the stream
DataFrame(i) == StreamFrame("TCP_DATA", i)
DataToClient(i) ==
    \/ \E a \in Agents : DataFrame(i) \in Range(fromAgent[a])
    \/ \E k \in Clients : DataFrame(i) \in Range(toClient[k])
DataToAgent(i) ==
    \/ \E a \in Agents : DataFrame(i) \in Range(toAgent[a])
    \/ \E k \in Clients : DataFrame(i) \in Range(fromClient[k])

-----------------------------------------------------------------------------
(* Agent process.                                                          *)

\* the upgrade completes at both ends
AgentOpens(a) ==
    /\ HandleConnection(a)
    /\ endAgent' = [endAgent EXCEPT ![a] = "open"]
    /\ UNCHANGED <<pending, entries, app, fromAgent, clientVars>>

\* the listener accepts a connection: it waits for its ACK, or is destroyed
\* when the WebSocket is not open
AppConnects(a, c, r) ==
    /\ app[c] = "none" /\ st[c].phase = "unused"
    /\ \/ /\ endAgent[a] = "open"
          /\ app' = [app EXCEPT ![c] = "waiting"]
          /\ pending' = [pending EXCEPT ![a] = @ \cup {c}]
          /\ fromAgent' = AgentSends(a, ConnectFrame(c, r))
       \/ /\ endAgent[a] # "open"
          /\ app' = [app EXCEPT ![c] = "left"]
          /\ UNCHANGED <<pending, fromAgent>>
    /\ UNCHANGED <<relayVars, endAgent, entries, clientVars>>

\* the application closes or resets its socket: removePending says nothing to
\* the relay, a registered stream sends TCP_CLOSE, or TCP_ABORT on an error
AppEndsWaiting(a, c) ==
    /\ c \in pending[a]
    /\ pending' = [pending EXCEPT ![a] = @ \ {c}]
    /\ app' = [app EXCEPT ![c] = "left"]
    /\ UNCHANGED <<relayVars, endAgent, entries, fromAgent, clientVars>>

AppEndsJoined(a, i, type) ==
    /\ entries[a][i] # NoConn
    /\ entries' = [entries EXCEPT ![a][i] = NoConn]
    /\ app' = [app EXCEPT ![entries[a][i]] = "closed"]
    /\ fromAgent' = AgentSends(a, StreamFrame(type, i))
    /\ UNCHANGED <<relayVars, endAgent, pending, clientVars>>

AppSendsData(a, i) ==
    /\ entries[a][i] # NoConn
    /\ ~DataToClient(i) /\ StreamFrame("TCP_ABORT", i) \notin Range(toAgent[a])
    /\ fromAgent' = AgentSends(a, DataFrame(i))
    /\ UNCHANGED <<relayVars, endAgent, pending, entries, app, clientVars>>

\* mutant: any pending connect is taken, as by port alone
ConnectAckAnyPending(a, f) ==
    IF pending[a] # {}
    THEN LET c == CHOOSE c \in pending[a] : TRUE
         IN  /\ pending' = [pending EXCEPT ![a] = @ \ {c}]
             /\ entries' = [entries EXCEPT ![a][f.id] = c]
             /\ app' = [app EXCEPT ![c] = "joined"]
    ELSE UNCHANGED <<pending, entries, app>>

\* handleConnectAck: an ACK that matches no pending connect is dropped
ConnectAck(a, f) ==
    IF f.req \in pending[a]
    THEN /\ pending' = [pending EXCEPT ![a] = @ \ {f.req}]
         /\ entries' = [entries EXCEPT ![a][f.id] = f.req]
         /\ app' = [app EXCEPT ![f.req] = "joined"]
    ELSE UNCHANGED <<pending, entries, app>>

\* handleConnectReject
ConnectReject(a, f) ==
    /\ IF f.req \in pending[a]
       THEN /\ pending' = [pending EXCEPT ![a] = @ \ {f.req}]
            /\ app' = [app EXCEPT ![f.req] = "left"]
       ELSE UNCHANGED <<pending, app>>
    /\ UNCHANGED entries

\* TCP_CLOSE ends the application's socket, TCP_ABORT destroys it
StreamEnded(a, i) ==
    /\ IF entries[a][i] # NoConn
       THEN /\ entries' = [entries EXCEPT ![a][i] = NoConn]
            /\ app' = [app EXCEPT ![entries[a][i]] = "closed"]
       ELSE UNCHANGED <<entries, app>>
    /\ UNCHANGED pending

AgentReceives(a) ==
    /\ endAgent[a] = "open"
    /\ ReceivedByAgent(a)
    /\ LET f == Head(toAgent[a])
       IN  \/ f.type = "TCP_CONNECT_ACK" /\ ConnectAck(a, f)
           \/ f.type = "TCP_ABORT" /\ f.id = 0 /\ ConnectReject(a, f)
           \/ f.type \in EndTypes /\ f.id # 0 /\ StreamEnded(a, f.id)
           \/ f.type = "TCP_DATA" /\ UNCHANGED <<pending, entries, app>>
    /\ UNCHANGED <<endAgent, fromAgent, clientVars>>

\* 'close' at the agent: cleanupAll
AgentEndCloses(a) ==
    LET joined == Range(entries[a]) \ {NoConn}
    IN  /\ endAgent[a] = "open"
        /\ endAgent' = [endAgent EXCEPT ![a] = "closed"]
        /\ pending' = [pending EXCEPT ![a] = {}]
        /\ entries' = [entries EXCEPT ![a] = [i \in StreamIds |-> NoConn]]
        /\ app' = [c \in Conns |-> IF c \in pending[a] THEN "left"
                                  ELSE IF c \in joined THEN "closed" ELSE app[c]]
        /\ UNCHANGED <<relayVars, fromAgent, clientVars>>

-----------------------------------------------------------------------------
(* Client process.                                                         *)

\* the upgrade completes at both ends; a refused WebSocket closes at once
ClientOpens(k, t) ==
    /\ \/ AddClient(k, t) /\ endClient' = [endClient EXCEPT ![k] = "open"]
       \/ RefuseClient(k, t) /\ endClient' = [endClient EXCEPT ![k] = "closed"]
    /\ UNCHANGED <<agentVars, clientStreams, local, fromClient>>

\* mutant: the stream is confirmed before the local socket has connected
TcpOpenConfirmedAtOnce(k, f) ==
    /\ clientStreams' = [clientStreams EXCEPT ![k] = @ \cup {f.id}]
    /\ local' = [local EXCEPT ![f.id] =
           [state |-> "dialing", port |-> f.port, client |-> k]]
    /\ fromClient' = ClientSends(k, StreamFrame("TCP_OPEN_ACK", f.id))

\* handleTcpOpen
TcpOpen(k, f) ==
    IF k \notin HostAllowedBy \/ Cardinality(clientStreams[k]) >= MaxClientStreams
    THEN /\ fromClient' = ClientSends(k, StreamFrame("TCP_ABORT", f.id))
         /\ UNCHANGED <<clientStreams, local>>
    ELSE /\ clientStreams' = [clientStreams EXCEPT ![k] = @ \cup {f.id}]
         /\ local' = [local EXCEPT ![f.id] =
                [state |-> "dialing", port |-> f.port, client |-> k]]
         /\ UNCHANGED fromClient

\* cleanupTcpState: the entry goes and the local socket is destroyed
CleanupTcpState(k, i) ==
    /\ clientStreams' = [clientStreams EXCEPT ![k] = @ \ {i}]
    /\ local' = [local EXCEPT ![i].state = "closed"]

ClientReceives(k) ==
    /\ endClient[k] = "open"
    /\ ReceivedByClient(k)
    /\ LET f == Head(toClient[k])
       IN  \/ f.type = "TCP_OPEN" /\ TcpOpen(k, f)
           \/ /\ f.type \in EndTypes
              /\ IF f.id \in clientStreams[k] THEN CleanupTcpState(k, f.id)
                 ELSE UNCHANGED <<clientStreams, local>>
              /\ UNCHANGED fromClient
           \/ /\ f.type = "TCP_DATA"
              /\ UNCHANGED <<clientStreams, local, fromClient>>
    /\ UNCHANGED <<agentVars, endClient>>

\* 'connect' of the local socket confirms the stream, also when the idle timer
\* has already dropped its entry
LocalConnects(k, i) ==
    /\ local[i].client = k /\ local[i].state = "dialing"
    /\ local' = [local EXCEPT ![i].state = "open"]
    /\ fromClient' = ClientSends(k, StreamFrame("TCP_OPEN_ACK", i))
    /\ UNCHANGED <<relayVars, agentVars, endClient, clientStreams>>

\* mutant: the relay is not told
LocalEndsSilently(k, i, type) ==
    /\ i \in clientStreams[k]
    /\ local[i].state = "open" \/ (local[i].state = "dialing" /\ type = "TCP_ABORT")
    /\ CleanupTcpState(k, i)
    /\ UNCHANGED <<relayVars, agentVars, endClient, fromClient>>

\* 'error', connect timeout or 'close' of the local socket
LocalEnds(k, i, type) ==
    /\ i \in clientStreams[k]
    /\ local[i].state = "open" \/ (local[i].state = "dialing" /\ type = "TCP_ABORT")
    /\ CleanupTcpState(k, i)
    /\ fromClient' = ClientSends(k, StreamFrame(type, i))
    /\ UNCHANGED <<relayVars, agentVars, endClient>>

\* the same for a socket without an entry: the handlers return at once
OrphanEnds(k, i) ==
    /\ local[i].client = k /\ local[i].state \in {"dialing", "open"}
    /\ i \notin clientStreams[k]
    /\ local' = [local EXCEPT ![i].state = "closed"]
    /\ UNCHANGED <<relayVars, agentVars, endClient, clientStreams, fromClient>>

LocalSendsData(k, i) ==
    /\ i \in clientStreams[k] /\ local[i].state = "open"
    /\ ~DataToAgent(i)
    /\ fromClient' = ClientSends(k, DataFrame(i))
    /\ UNCHANGED <<relayVars, agentVars, endClient, clientStreams, local>>

\* the client's idle timer: sendResAbort and cleanupStream, which forgets the
\* stream but leaves state.localSocket alone
ClientStreamIdle(k, i) ==
    /\ IdleTimeouts /\ i \in clientStreams[k]
    /\ fromClient' = ClientSends(k, StreamFrame("RES_ABORT", i))
    /\ clientStreams' = [clientStreams EXCEPT ![k] = @ \ {i}]
    /\ UNCHANGED <<relayVars, agentVars, endClient, local>>

\* 'close' at the client: cleanupAllStreams
ClientEndCloses(k) ==
    /\ endClient[k] = "open"
    /\ endClient' = [endClient EXCEPT ![k] = "closed"]
    /\ clientStreams' = [clientStreams EXCEPT ![k] = {}]
    /\ local' = [i \in StreamIds |->
           IF i \in clientStreams[k] THEN [local[i] EXCEPT !.state = "closed"] ELSE local[i]]
    /\ UNCHANGED <<relayVars, agentVars, fromClient>>

-----------------------------------------------------------------------------
(* Relay.                                                                  *)

RelayTakesAgentFrame(a) ==
    /\ fromAgent[a] # <<>>
    /\ LET f == Head(fromAgent[a])
       IN  \/ f.type = "TCP_CONNECT" /\ HandleTcpConnect(a, f.req, f.port, f.target)
           \/ f.type # "TCP_CONNECT" /\ HandleAgentFrame(a, f)
    /\ fromAgent' = [fromAgent EXCEPT ![a] = Tail(@)]
    /\ UNCHANGED <<endAgent, pending, entries, app, clientVars>>

RelayTakesClientFrame(k) ==
    /\ fromClient[k] # <<>>
    /\ HandleClientFrame(k, Head(fromClient[k]))
    /\ fromClient' = [fromClient EXCEPT ![k] = Tail(@)]
    /\ UNCHANGED <<agentVars, endClient, clientStreams, local>>

\* the relay's end of a WebSocket closes; what the peer had sent is lost
RelayClosesAgent(a) ==
    /\ CleanupAgent(a)
    /\ fromAgent' = [fromAgent EXCEPT ![a] = <<>>]
    /\ UNCHANGED <<endAgent, pending, entries, app, clientVars>>

RelayClosesClient(k) ==
    /\ CleanupClient(k)
    /\ fromClient' = [fromClient EXCEPT ![k] = <<>>]
    /\ UNCHANGED <<agentVars, endClient, clientStreams, local>>

RelayEndClosing ==
    /\ \/ \E a \in Agents : AgentClosing(a)
       \/ \E k \in Clients : ClientClosing(k)
    /\ UNCHANGED <<agentVars, clientVars>>

\* a direct connection never has an application socket at an agent
DirectEvent(c) ==
    /\ app[c] = "none"
    /\ \/ \E p \in Ports, allowedIp \in BOOLEAN : HandleDirectConnection(c, p, allowedIp)
       \/ ~DataToClient(st[c].id) /\ DirectData(c)
       \/ \E error \in BOOLEAN : DirectEnd(c, error)
    /\ UNCHANGED <<agentVars, clientVars>>

RelayStreamIdle(c) == StreamIdle(c) /\ UNCHANGED <<agentVars, clientVars>>

-----------------------------------------------------------------------------
AgentNext(a) ==
    \/ AgentOpens(a)
    \/ \E c \in Conns, r \in Routes : AppConnects(a, c, r)
    \/ \E c \in Conns : AppEndsWaiting(a, c)
    \/ \E i \in StreamIds, type \in EndTypes : AppEndsJoined(a, i, type)
    \/ \E i \in StreamIds : AppSendsData(a, i)
    \/ AgentReceives(a)
    \/ AgentEndCloses(a)
    \/ RelayTakesAgentFrame(a)
    \/ RelayClosesAgent(a)

ClientNext(k) ==
    \/ \E t \in TunnelIds \cup {NoTunnelId} : ClientOpens(k, t)
    \/ ClientReceives(k)
    \/ \E i \in StreamIds :
          \/ LocalConnects(k, i)
          \/ \E type \in EndTypes : LocalEnds(k, i, type)
          \/ LocalSendsData(k, i)
          \/ OrphanEnds(k, i)
          \/ ClientStreamIdle(k, i)
    \/ ClientEndCloses(k)
    \/ RelayTakesClientFrame(k)
    \/ RelayClosesClient(k)

Next ==
    \/ \E a \in Agents : AgentNext(a)
    \/ \E k \in Clients : ClientNext(k)
    \/ \E c \in Conns : DirectEvent(c) \/ RelayStreamIdle(c)
    \/ RelayEndClosing

Spec == TunnelInit /\ [][Next]_vars

\* the dialled socket connects, fails or times out
DialResolves(k, i) ==
    /\ local[i].state = "dialing"
    /\ LocalConnects(k, i) \/ LocalEnds(k, i, "TCP_ABORT") \/ OrphanEnds(k, i)

\* Every process goes on reading its WebSockets.  The relay notices that a peer
\* is gone (FIN, or its heartbeat), and so does the client that its relay is
\* (FIN, or its own ping); the agent only by a FIN, which a link that died
\* never carries, so nothing is promised of it.  A dialled service answers or
\* times out.  Nothing is promised of the application, of the service, or of
\* a WebSocket that works.
Fairness ==
    /\ \A a \in Agents :
          /\ WF_vars(AgentReceives(a))
          /\ WF_vars(RelayTakesAgentFrame(a))
          /\ WF_vars(endAgent[a] = "closed" /\ RelayClosesAgent(a))
          /\ WF_vars(wsAgent[a] = "closing" /\ RelayClosesAgent(a))
    /\ \A k \in Clients :
          /\ WF_vars(ClientReceives(k))
          /\ WF_vars(RelayTakesClientFrame(k))
          /\ WF_vars(endClient[k] = "closed" /\ RelayClosesClient(k))
          /\ WF_vars(wsClient[k] = "closing" /\ RelayClosesClient(k))
          /\ WF_vars(wsClient[k] = "closed" /\ ClientEndCloses(k))
          /\ \A i \in StreamIds : WF_vars(DialResolves(k, i))

FairSpec == Spec /\ Fairness

-----------------------------------------------------------------------------
(* Safety.                                                                 *)

\* An application is never joined to another connection's service: the entry
\* an agent holds for a stream id, the relay's stream state and the socket the
\* client dialled all speak of the same connection, agent, client and port
\* (request ids matching ACKs, stream ids matching frames).
EndsMatch ==
    \A a \in Agents, i \in StreamIds : entries[a][i] # NoConn =>
        LET s == st[entries[a][i]]
        IN  /\ s.id = i /\ s.agent = a /\ ~s.awaiting
            /\ local[i].port = s.port /\ local[i].client = s.client

\* nothing is in flight and no WebSocket is half closed
AllDelivered ==
    /\ \A a \in Agents : /\ toAgent[a] = <<>> /\ fromAgent[a] = <<>>
                         /\ (endAgent[a] = "open") = (wsAgent[a] = "open")
                         /\ wsAgent[a] # "closing"
    /\ \A k \in Clients : /\ toClient[k] = <<>> /\ fromClient[k] = <<>>
                          /\ (endClient[k] = "open") = (wsClient[k] = "open")
                          /\ wsClient[k] # "closing"

\* Once everything sent has been delivered, a joined application still has its
\* stream at the relay and at the client, and an open service socket: whatever
\* closes, aborts and disconnects raced, no application is left talking to
\* nobody.
JoinedAppsServed ==
    AllDelivered => \A c \in Conns : app[c] = "joined" =>
        /\ Live(c) /\ ~st[c].awaiting
        /\ st[c].id \in clientStreams[st[c].client]
        /\ local[st[c].id].state = "open"

\* And the client process holds a stream exactly when the relay does: no
\* service socket outlives its stream, and no stream its socket.
ClientStreamsServed ==
    AllDelivered => \A k \in Clients, i \in StreamIds :
        /\ i \in clientStreams[k] <=> streams[i] # NoConn /\ st[streams[i]].client = k
        /\ local[i].state = "open" => \E j \in Clients : i \in clientStreams[j]

\* The composition keeps the promise of TunnelPromise: the service of a
\* connection is the socket the client dialled under its stream id.
Service(c) == IF st[c].id = 0 \/ IsAgent(c) = FALSE THEN "none" ELSE local[st[c].id].state
Promise == INSTANCE TunnelPromise WITH service <- [c \in Conns |-> Service(c)]
ImplementsPromise == Promise!Spec

-----------------------------------------------------------------------------
(* Liveness, with STREAM_IDLE_TIMEOUT_MS=0: no timer comes to the rescue.  *)

\* the relay's end of the WebSocket has gone
AgentLost(a)  == a # NoAgent /\ wsAgent[a] = "closed"
ClientLost(k) == k # NoClient /\ wsClient[k] = "closed"

\* When the service behind a joined application ends, or the relay has dropped
\* its stream, the application's socket is closed too, unless the relay has
\* lost the WebSocket of its agent: an agent on a dead link is never told.
EndReachesApp ==
    \A c \in Conns :
        app[c] = "joined" /\ (Service(c) = "closed" \/ ~Live(c)) ~>
            app[c] = "closed" \/ AgentLost(st[c].agent)

\* When an application that was joined ends, its service socket is closed.
EndReachesService ==
    \A c \in Conns : app[c] = "closed" ~> Service(c) = "closed"

\* The relay drops a stream, direct or through an agent, whose service ended.
EndReachesRelay ==
    \A c \in Conns : Live(c) /\ local[st[c].id].state = "closed" ~> ~Live(c)

\* A TCP_CONNECT is answered one way or the other, unless the relay loses its
\* agent, or the tunnel client it was routed to: then its stream is aborted by a
\* stream id that its agent has never heard of, and it waits for ever.
ConnectAnswered ==
    \A a \in Agents, c \in Conns : c \in pending[a] /\ app[c] = "waiting" ~>
        app[c] # "waiting" \/ AgentLost(a) \/ ClientLost(st[c].client)

-----------------------------------------------------------------------------
(* What the documentation and the tests say, and the code does not do.     *)

\* tcp-agent-server.test.js: "releases the per-agent stream slot after a stream
\* closes".  The slot of a stream that the client ended with a RES_ABORT (its
\* idle timer) is never released.
SlotsReleased ==
    \A a \in Agents : agentStreams[a] \subseteq {st[c].id : c \in LiveConns}
=============================================================================
