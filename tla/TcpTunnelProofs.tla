-------------------------- MODULE TcpTunnelProofs --------------------------
(***************************************************************************)
(* The relay of TcpRelay is proved about with peers that may send any      *)
(* frame at any time; TcpTunnel has the two real ones.  The first part of  *)
(* this module proves that nothing is lost by that: every step of          *)
(* TcpTunnel is a step of the open relay, or one that it does not see, so  *)
(* all that is proved of the relay holds between the real peers.           *)
(*                                                                         *)
(* The second part proves that TcpTunnel never joins an application to the *)
(* service of another one (EndsMatch) and keeps the promise of             *)
(* TunnelPromise.  The two ends of a stream share nothing but its id: the  *)
(* invariant follows an id from the TCP_OPEN through the dialled socket,   *)
(* the client's confirmation and the relay's acknowledgement to the        *)
(* agent's entry.                                                          *)
(***************************************************************************)
EXTENDS TcpTunnel, TcpRelayProofs

-----------------------------------------------------------------------------
(* Frames on their way to the relay.                                       *)

\* What an agent or a client sends is added to its queue, or lost.
LEMMA AppendTyped ==
  ASSUME NEW D, NEW T, NEW q \in [D -> Seq(T)], NEW d, NEW x \in T
  PROVE  [q EXCEPT ![d] = Append(@, x)] \in [D -> Seq(T)]
<1>1. \A s \in Seq(T) : Append(s, x) \in Seq(T)
  OBVIOUS
<1>. QED
  BY <1>1

LEMMA AgentSendsTyped ==
  ASSUME TunnelTypeOK, NEW a, NEW f \in FromAgentFrames \cup ConnectFrames
  PROVE  AgentSends(a, f) \in [Agents -> Seq(FromAgentFrames \cup ConnectFrames)]
BY AppendTyped DEF AgentSends, TunnelTypeOK

LEMMA ClientSendsTyped ==
  ASSUME TunnelTypeOK, NEW k, NEW f \in FromClientFrames
  PROVE  ClientSends(k, f) \in [Clients -> Seq(FromClientFrames)]
BY AppendTyped DEF ClientSends, TunnelTypeOK

\* A stream frame of either peer is a frame the relay expects.
LEMMA PeerFrames ==
  ASSUME NEW i \in StreamIds
  PROVE  /\ \A t \in {"TCP_DATA"} \cup EndTypes : StreamFrame(t, i) \in FromAgentFrames
         /\ \A t \in {"TCP_DATA", "TCP_OPEN_ACK", "RES_ABORT"} \cup EndTypes :
               StreamFrame(t, i) \in FromClientFrames
BY DEF StreamFrame, FromAgentFrames, FromClientFrames, EndTypes

\* The frame an agent or a client takes is one of those for it.
LEMMA TakenFrames ==
  ASSUME TunnelTypeOK
  PROVE  /\ \A a \in Agents : toAgent[a] # <<>> => Head(toAgent[a]) \in ToAgentFrames
         /\ \A k \in Clients : toClient[k] # <<>> => Head(toClient[k]) \in ToClientFrames
         /\ \A a \in Agents : fromAgent[a] # <<>> =>
               Head(fromAgent[a]) \in FromAgentFrames \cup ConnectFrames
         /\ \A k \in Clients : fromClient[k] # <<>> => Head(fromClient[k]) \in FromClientFrames
<1>1. \A T : \A s \in Seq(T) : s # <<>> => Head(s) \in T
  OBVIOUS
<1>. QED
  BY <1>1 DEF TunnelTypeOK, TypeOK

-----------------------------------------------------------------------------
(* Every step is a step of the relay, or leaves it alone.                  *)

LEMMA RelayStep ==
  ASSUME TunnelTypeOK, [Next]_vars
  PROVE  [RelayNext]_relayVars
<1>1. ASSUME NEW a \in Agents, AgentNext(a) PROVE [RelayNext]_relayVars
  <2>1. CASE AgentOpens(a) \/ AgentReceives(a) \/ RelayClosesAgent(a)
    BY <2>1 DEF AgentOpens, AgentReceives, RelayClosesAgent, RelayNext, AgentEvent
  <2>2. CASE RelayTakesAgentFrame(a)
    <3> DEFINE f == Head(fromAgent[a])
    <3>1. f \in FromAgentFrames \cup ConnectFrames
      BY <2>2, TakenFrames DEF RelayTakesAgentFrame
    <3>2. CASE f.type = "TCP_CONNECT" /\ HandleTcpConnect(a, f.req, f.port, f.target)
      <4>1. f \in ConnectFrames
        BY <3>1, <3>2 DEF FromAgentFrames
      <4>2. PICK c \in Conns, r \in Routes : f = ConnectFrame(c, r)
        BY <4>1 DEF ConnectFrames
      <4>3. f.req \in Conns /\ f.port \in Ports /\ f.target \in TunnelIds \cup {NoTunnelId}
        BY <4>2, TunnelAssumption DEF ConnectFrame
      <4>. QED
        BY <3>2, <4>3 DEF RelayNext, AgentEvent
    <3>3. CASE f.type # "TCP_CONNECT" /\ HandleAgentFrame(a, f)
      <4>1. f \in FromAgentFrames
        BY <3>1, <3>3 DEF ConnectFrames, ConnectFrame
      <4>. QED
        BY <3>3, <4>1 DEF RelayNext, AgentEvent
    <3>. QED
      BY <2>2, <3>2, <3>3 DEF RelayTakesAgentFrame
  <2>3. CASE UNCHANGED relayVars
    BY <2>3
  <2>. QED
    BY <1>1, <2>1, <2>2, <2>3
       DEF AgentNext, AppConnects, AppEndsWaiting, AppEndsJoined, AppSendsData, AgentEndCloses
<1>2. ASSUME NEW k \in Clients, ClientNext(k) PROVE [RelayNext]_relayVars
  <2>1. CASE \E t \in TunnelIds \cup {NoTunnelId} : ClientOpens(k, t)
    BY <2>1 DEF ClientOpens, RelayNext, ClientEvent
  <2>2. CASE ClientReceives(k) \/ RelayClosesClient(k)
    BY <2>2 DEF ClientReceives, RelayClosesClient, RelayNext, ClientEvent
  <2>3. CASE RelayTakesClientFrame(k)
    <3>1. Head(fromClient[k]) \in FromClientFrames
      BY <2>3, TakenFrames DEF RelayTakesClientFrame
    <3>. QED
      BY <2>3, <3>1 DEF RelayTakesClientFrame, RelayNext, ClientEvent
  <2>4. CASE UNCHANGED relayVars
    BY <2>4
  <2>. QED
    BY <1>2, <2>1, <2>2, <2>3, <2>4
       DEF ClientNext, LocalConnects, LocalEnds, LocalSendsData, OrphanEnds, ClientStreamIdle,
           ClientEndCloses
<1>3. ASSUME NEW c \in Conns, DirectEvent(c) \/ RelayStreamIdle(c) PROVE [RelayNext]_relayVars
  BY <1>3 DEF DirectEvent, RelayStreamIdle, RelayNext, ConnEvent
<1>4. CASE RelayEndClosing
  BY <1>4 DEF RelayEndClosing, RelayNext, ClientEvent, AgentEvent
<1>5. CASE UNCHANGED vars
  BY <1>5 DEF vars
<1>. QED
  BY <1>1, <1>2, <1>3, <1>4, <1>5 DEF Next

-----------------------------------------------------------------------------
(* Types.  The relay's come from its own proof.                            *)

PeersTypeOK ==
    /\ endAgent \in [Agents -> {"none", "open", "closed"}]
    /\ pending \in [Agents -> SUBSET Conns]
    /\ entries \in [Agents -> [StreamIds -> Conns \cup {NoConn}]]
    /\ app \in [Conns -> AppStates]
    /\ fromAgent \in [Agents -> Seq(FromAgentFrames \cup ConnectFrames)]
    /\ endClient \in [Clients -> {"none", "open", "closed"}]
    /\ clientStreams \in [Clients -> SUBSET StreamIds]
    /\ local \in [StreamIds -> LocalSockets]
    /\ fromClient \in [Clients -> Seq(FromClientFrames)]

\* A TCP_CONNECT_ACK, a rejection, or a frame of a stream.
LEMMA AgentFrameKinds ==
  ASSUME NEW f \in ToAgentFrames
  PROVE  /\ f.type = "TCP_CONNECT_ACK" => f.id \in StreamIds /\ f.req \in Conns
         /\ f.type = "TCP_ABORT" /\ f.id = 0 => f.req \in Conns
         /\ f.type \in EndTypes /\ f.id # 0 => f.id \in StreamIds
BY DEF ToAgentFrames, DownFrames, EndTypes, StreamIds

\* A TCP_OPEN, or a frame of a stream.
LEMMA ClientFrameKinds ==
  ASSUME NEW f \in ToClientFrames
  PROVE  f.id \in StreamIds /\ (f.type = "TCP_OPEN" => f.port \in Ports)
BY DEF ToClientFrames, DownFrames, EndTypes

\* A queue that loses its head keeps its type.
LEMMA TailTyped ==
  ASSUME NEW D, NEW T, NEW q \in [D -> Seq(T)], NEW d \in D, q[d] # <<>>
  PROVE  [q EXCEPT ![d] = Tail(@)] \in [D -> Seq(T)]
OBVIOUS

\* What one agent does to its tables and to a connection's socket.
LEMMA TablesTyped ==
  ASSUME TunnelTypeOK, NEW a \in Agents
  PROVE  /\ \A i \in StreamIds, c \in Conns \cup {NoConn} :
               [entries EXCEPT ![a][i] = c] \in [Agents -> [StreamIds -> Conns \cup {NoConn}]]
         /\ \A c \in Conns : /\ [pending EXCEPT ![a] = @ \cup {c}] \in [Agents -> SUBSET Conns]
                            /\ [pending EXCEPT ![a] = @ \ {c}] \in [Agents -> SUBSET Conns]
         /\ \A c \in Conns, s \in AppStates : [app EXCEPT ![c] = s] \in [Conns -> AppStates]
         /\ \A i \in StreamIds : entries[a][i] \in Conns \cup {NoConn}
BY DEF TunnelTypeOK

\* What an agent does with a frame.
LEMMA AnswersTyped ==
  ASSUME TunnelTypeOK, NEW a \in Agents, NEW f \in ToAgentFrames,
         \/ f.type = "TCP_CONNECT_ACK" /\ ConnectAck(a, f)
         \/ f.type = "TCP_ABORT" /\ f.id = 0 /\ ConnectReject(a, f)
         \/ f.type \in EndTypes /\ f.id # 0 /\ StreamEnded(a, f.id)
         \/ f.type = "TCP_DATA" /\ UNCHANGED <<pending, entries, app>>
  PROVE  /\ pending' \in [Agents -> SUBSET Conns]
         /\ entries' \in [Agents -> [StreamIds -> Conns \cup {NoConn}]]
         /\ app' \in [Conns -> AppStates]
<1>0. {"joined", "left", "closed"} \subseteq AppStates
  BY DEF AppStates
<1>1. CASE UNCHANGED <<pending, entries, app>>
  BY <1>1 DEF TunnelTypeOK
<1>2. CASE f.type = "TCP_CONNECT_ACK" /\ ConnectAck(a, f) /\ f.req \in pending[a]
  <2>1. f.id \in StreamIds /\ f.req \in Conns
    BY <1>2, AgentFrameKinds
  <2>2. /\ pending' = [pending EXCEPT ![a] = @ \ {f.req}]
        /\ entries' = [entries EXCEPT ![a][f.id] = f.req]
        /\ app' = [app EXCEPT ![f.req] = "joined"]
    BY <1>2 DEF ConnectAck
  <2>. QED
    BY <1>0, <2>1, <2>2, TablesTyped
<1>3. CASE f.type = "TCP_ABORT" /\ f.id = 0 /\ ConnectReject(a, f) /\ f.req \in pending[a]
  <2>1. f.req \in Conns
    BY <1>3, AgentFrameKinds
  <2>2. /\ pending' = [pending EXCEPT ![a] = @ \ {f.req}]
        /\ app' = [app EXCEPT ![f.req] = "left"]
        /\ entries' = entries
    BY <1>3 DEF ConnectReject
  <2>. QED
    BY <1>0, <2>1, <2>2, TablesTyped DEF TunnelTypeOK
<1>4. CASE f.type \in EndTypes /\ f.id # 0 /\ StreamEnded(a, f.id) /\ entries[a][f.id] # NoConn
  <2>1. f.id \in StreamIds /\ entries[a][f.id] \in Conns
    BY <1>4, AgentFrameKinds, TablesTyped
  <2>2. /\ entries' = [entries EXCEPT ![a][f.id] = NoConn]
        /\ app' = [app EXCEPT ![entries[a][f.id]] = "closed"]
        /\ pending' = pending
    BY <1>4 DEF StreamEnded
  <2>. QED
    BY <1>0, <2>1, <2>2, TablesTyped DEF TunnelTypeOK
<1>. QED
  BY <1>1, <1>2, <1>3, <1>4 DEF ConnectAck, ConnectReject, StreamEnded

LEMMA AgentTypes ==
  ASSUME TunnelTypeOK, NEW a \in Agents, AgentNext(a)
  PROVE  PeersTypeOK'
<1> USE DEF TunnelTypeOK, PeersTypeOK
<1> UNCHANGED clientVars => UNCHANGED <<endClient, clientStreams, local, fromClient>>
  BY DEF clientVars
<1>1. CASE AgentOpens(a)
  BY <1>1 DEF AgentOpens
<1>2. ASSUME NEW c \in Conns, NEW r \in Routes, AppConnects(a, c, r) PROVE PeersTypeOK'
  <2>1. ConnectFrame(c, r) \in FromAgentFrames \cup ConnectFrames
    BY DEF ConnectFrames
  <2>2. fromAgent' \in [Agents -> Seq(FromAgentFrames \cup ConnectFrames)]
    BY <1>2, <2>1, AgentSendsTyped DEF AppConnects
  <2>3. pending' \in [Agents -> SUBSET Conns] /\ app' \in [Conns -> AppStates]
    <3>1. /\ pending' = [pending EXCEPT ![a] = @ \cup {c}] \/ pending' = pending
          /\ \E s \in {"waiting", "left"} : app' = [app EXCEPT ![c] = s]
      BY <1>2 DEF AppConnects
    <3>2. pending \in [Agents -> SUBSET Conns] /\ {"waiting", "left"} \subseteq AppStates
      BY DEF AppStates
    <3> HIDE DEF TunnelTypeOK
    <3>. QED
      BY <3>1, <3>2, TablesTyped
  <2>. QED
    BY <1>2, <2>2, <2>3 DEF AppConnects
<1>3. ASSUME NEW c \in Conns, AppEndsWaiting(a, c) PROVE PeersTypeOK'
  BY <1>3 DEF AppEndsWaiting, AppStates
<1>4. ASSUME NEW i \in StreamIds, NEW type \in EndTypes, AppEndsJoined(a, i, type)
      PROVE  PeersTypeOK'
  <2>1. StreamFrame(type, i) \in FromAgentFrames
    BY PeerFrames
  <2>. QED
    BY <1>4, <2>1, AgentSendsTyped DEF AppEndsJoined, AppStates
<1>5. ASSUME NEW i \in StreamIds, AppSendsData(a, i) PROVE PeersTypeOK'
  <2>1. DataFrame(i) \in FromAgentFrames
    BY PeerFrames DEF DataFrame
  <2>. QED
    BY <1>5, <2>1, AgentSendsTyped DEF AppSendsData
<1>6. CASE AgentReceives(a)
  <2> DEFINE f == Head(toAgent[a])
  <2>1. f \in ToAgentFrames
    BY <1>6, TakenFrames DEF AgentReceives, ReceivedByAgent
  <2>2. /\ pending' \in [Agents -> SUBSET Conns]
        /\ entries' \in [Agents -> [StreamIds -> Conns \cup {NoConn}]]
        /\ app' \in [Conns -> AppStates]
    BY <1>6, <2>1, AnswersTyped DEF AgentReceives
  <2>. QED
    BY <1>6, <2>2 DEF AgentReceives
<1>7. CASE AgentEndCloses(a)
  BY <1>7 DEF AgentEndCloses, AppStates
<1>8. CASE RelayTakesAgentFrame(a)
  BY <1>8, TailTyped DEF RelayTakesAgentFrame
<1>9. CASE RelayClosesAgent(a)
  BY <1>9 DEF RelayClosesAgent
<1>. QED
  BY <1>1, <1>2, <1>3, <1>4, <1>5, <1>6, <1>7, <1>8, <1>9 DEF AgentNext

\* A local socket keeps its type when its state changes.
LEMMA LocalStates ==
  ASSUME TunnelTypeOK, NEW i \in StreamIds, NEW s \in {"none", "dialing", "open", "closed"}
  PROVE  /\ [local EXCEPT ![i].state = s] \in [StreamIds -> LocalSockets]
         /\ [local[i] EXCEPT !.state = s] \in LocalSockets
BY DEF TunnelTypeOK, LocalSockets

\* What a client does with a frame.
LEMMA TakenTyped ==
  ASSUME TunnelTypeOK, NEW k \in Clients, NEW f \in ToClientFrames,
         \/ f.type = "TCP_OPEN" /\ TcpOpen(k, f)
         \/ /\ f.type \in EndTypes
            /\ IF f.id \in clientStreams[k] THEN CleanupTcpState(k, f.id)
               ELSE UNCHANGED <<clientStreams, local>>
            /\ UNCHANGED fromClient
         \/ f.type = "TCP_DATA" /\ UNCHANGED <<clientStreams, local, fromClient>>
  PROVE  /\ clientStreams' \in [Clients -> SUBSET StreamIds]
         /\ local' \in [StreamIds -> LocalSockets]
         /\ fromClient' \in [Clients -> Seq(FromClientFrames)]
<1>1. f.id \in StreamIds /\ (f.type = "TCP_OPEN" => f.port \in Ports)
  BY ClientFrameKinds
<1>2. /\ clientStreams \in [Clients -> SUBSET StreamIds]
      /\ local \in [StreamIds -> LocalSockets]
      /\ fromClient \in [Clients -> Seq(FromClientFrames)]
  BY DEF TunnelTypeOK
<1>3. CASE f.type = "TCP_OPEN" /\ TcpOpen(k, f)
  <2>1. ClientSends(k, StreamFrame("TCP_ABORT", f.id)) \in [Clients -> Seq(FromClientFrames)]
    BY <1>1, PeerFrames, ClientSendsTyped DEF EndTypes
  <2>2. [state |-> "dialing", port |-> f.port, client |-> k] \in LocalSockets
    BY <1>1, <1>3 DEF LocalSockets
  <2>. QED
    BY <1>1, <1>2, <1>3, <2>1, <2>2 DEF TcpOpen
<1>4. CASE CleanupTcpState(k, f.id) /\ UNCHANGED fromClient
  BY <1>1, <1>2, <1>4, LocalStates DEF CleanupTcpState
<1>. QED
  BY <1>2, <1>3, <1>4

LEMMA ClientTypes ==
  ASSUME TunnelTypeOK, NEW k \in Clients, ClientNext(k)
  PROVE  PeersTypeOK'
<1> USE DEF TunnelTypeOK, PeersTypeOK
<1> UNCHANGED agentVars => UNCHANGED <<endAgent, pending, entries, app, fromAgent>>
  BY DEF agentVars
<1>1. ASSUME NEW t \in TunnelIds \cup {NoTunnelId}, ClientOpens(k, t) PROVE PeersTypeOK'
  BY <1>1 DEF ClientOpens
<1>2. CASE ClientReceives(k)
  <2> DEFINE f == Head(toClient[k])
  <2>1. f \in ToClientFrames
    BY <1>2, TakenFrames DEF ClientReceives, ReceivedByClient
  <2>2. /\ clientStreams' \in [Clients -> SUBSET StreamIds]
        /\ local' \in [StreamIds -> LocalSockets]
        /\ fromClient' \in [Clients -> Seq(FromClientFrames)]
    BY <1>2, <2>1, TakenTyped DEF ClientReceives
  <2>. QED
    BY <1>2, <2>2 DEF ClientReceives
<1>3. ASSUME NEW i \in StreamIds, LocalConnects(k, i) PROVE PeersTypeOK'
  <2>1. StreamFrame("TCP_OPEN_ACK", i) \in FromClientFrames
    BY PeerFrames
  <2>. QED
    BY <1>3, <2>1, ClientSendsTyped, LocalStates DEF LocalConnects
<1>4. ASSUME NEW i \in StreamIds, NEW type \in EndTypes, LocalEnds(k, i, type)
      PROVE  PeersTypeOK'
  <2>1. StreamFrame(type, i) \in FromClientFrames
    BY PeerFrames
  <2>. QED
    BY <1>4, <2>1, ClientSendsTyped, LocalStates DEF LocalEnds, CleanupTcpState
<1>5. ASSUME NEW i \in StreamIds, LocalSendsData(k, i) PROVE PeersTypeOK'
  <2>1. DataFrame(i) \in FromClientFrames
    BY PeerFrames DEF DataFrame
  <2>. QED
    BY <1>5, <2>1, ClientSendsTyped DEF LocalSendsData
<1>6. ASSUME NEW i \in StreamIds, OrphanEnds(k, i) PROVE PeersTypeOK'
  BY <1>6, LocalStates DEF OrphanEnds
<1>7. ASSUME NEW i \in StreamIds, ClientStreamIdle(k, i) PROVE PeersTypeOK'
  <2>1. StreamFrame("RES_ABORT", i) \in FromClientFrames
    BY PeerFrames
  <2>. QED
    BY <1>7, <2>1, ClientSendsTyped DEF ClientStreamIdle
<1>8. CASE ClientEndCloses(k)
  BY <1>8, LocalStates DEF ClientEndCloses
<1>9. CASE RelayTakesClientFrame(k)
  BY <1>9, TailTyped DEF RelayTakesClientFrame
<1>10. CASE RelayClosesClient(k)
  BY <1>10 DEF RelayClosesClient
<1>. QED
  BY <1>1, <1>2, <1>3, <1>4, <1>5, <1>6, <1>7, <1>8, <1>9, <1>10 DEF ClientNext

TypesInv == TunnelTypeOK /\ IInv

LEMMA TypesInit == TunnelInit => TypesInv
<1> SUFFICES ASSUME TunnelInit PROVE TypesInv
  OBVIOUS
<1>1. IInv
  BY InitIInv DEF TunnelInit
<1>2. [state |-> "none", port |-> 0, client |-> NoClient] \in LocalSockets
  BY DEF LocalSockets
<1>. QED
  BY <1>1, <1>2 DEF TypesInv, TunnelTypeOK, TunnelInit, IInv, AppStates

LEMMA TypesStep == TypesInv /\ [Next]_vars => TypesInv'
<1> SUFFICES ASSUME TypesInv, [Next]_vars PROVE TypesInv'
  OBVIOUS
<1>1. TunnelTypeOK /\ IInv
  BY DEF TypesInv
<1>2. IInv'
  BY <1>1, RelayStep, StepIInv
<1>3. PeersTypeOK'
  <2>1. CASE UNCHANGED <<agentVars, clientVars>>
    BY <1>1, <2>1 DEF PeersTypeOK, TunnelTypeOK, agentVars, clientVars
  <2>. QED
    BY <1>1, <2>1, AgentTypes, ClientTypes
       DEF Next, DirectEvent, RelayStreamIdle, RelayEndClosing, vars
<1>. QED
  BY <1>2, <1>3 DEF TypesInv, TunnelTypeOK, PeersTypeOK, IInv

\* Types, together with the invariant of the relay's own proof, whose steps the
\* steps of the composition are.
THEOREM TypesHold == Spec => []TypesInv
BY TypesInit, TypesStep, PTL DEF Spec

\* The tables of the agent and the client process, and the frames on every
\* WebSocket, keep their types.
THEOREM TunnelTypes == Spec => []TunnelTypeOK
<1>1. TypesInv => TunnelTypeOK
  BY DEF TypesInv
<1>. QED
  BY <1>1, TypesHold, PTL

-----------------------------------------------------------------------------
(* The relay between its two real peers.                                   *)

\* Between serve/tcp-agent.js and serve/client.js the relay is the relay of
\* TcpRelay.
THEOREM RelayIsRefined == Spec => RelaySpec
<1>1. TunnelInit => RelayInit
  BY DEF TunnelInit
<1>2. TypesInv /\ [Next]_vars => [RelayNext]_relayVars
  BY RelayStep DEF TypesInv
<1>. QED
  BY <1>1, <1>2, TypesHold, PTL DEF Spec, RelaySpec

\* So its table, its limits, its counters, its registry and its deferred
\* acknowledgements are right in the composition too.
THEOREM RelayKeepsItsWord ==
  Spec => /\ []TableConsistent /\ []LiveStreamsHaveEnds /\ []LimitsRespected
          /\ []CountsExact /\ []RegistryConsistent /\ []AckOnlyConfirmed
BY RelayIsRefined, TableStaysConsistent, LiveStreamsKeepEnds, LimitsNeverExceeded,
   CountsStayExact, RegistryStaysConsistent, AcksStayConfirmed, PTL


-----------------------------------------------------------------------------
(* Ends that speak of the same connection: the invariant that carries the  *)
(* proof.                                                                  *)

\* every connection that holds, or has held, a stream id
Numbered == {c \in Conns : st[c].id # 0}

\* ids are handed out in order and, as long as they do not wrap, once
IdsOnce ==
    /\ \A c \in Numbered : st[c].id <= Cardinality(Numbered)
    /\ \A c, d \in Numbered : st[c].id = st[d].id => c = d
    /\ nextStreamId = IF Cardinality(Numbered) = MaxStreamId THEN 1
                      ELSE Cardinality(Numbered) + 1
    /\ \A c \in Conns : st[c].phase = "unused" => st[c].id = 0

StreamOf(c, i, p, k) == st[c].id = i /\ st[c].port = p /\ st[c].client = k

\* the service has been reached, whatever became of it since
Reached(i) == local[i].state \in {"open", "closed"}

\* agent a may join the application of c to stream i
Joinable(c, a, i) == st[c].id = i /\ st[c].agent = a /\ ~st[c].awaiting

\* a TCP_OPEN on its way is the only one of its stream, which is not dialled yet
OpensOnce ==
    \A k \in Clients : \A m \in DOMAIN toClient[k] :
        LET f == toClient[k][m] IN f.type = "TCP_OPEN" =>
            /\ local[f.id].state = "none"
            /\ \E c \in Conns : StreamOf(c, f.id, f.port, k)
            /\ \A n \in DOMAIN toClient[k] :
                  toClient[k][n].type = "TCP_OPEN" /\ toClient[k][n].id = f.id => n = m

\* what a client has dialled is the port of a stream routed to it
Dialled ==
    \A i \in StreamIds : local[i].state # "none" =>
        \E c \in Conns : StreamOf(c, i, local[i].port, local[i].client)

\* a client confirms what it has reached, and the relay what a client confirmed
OpenAcksReached ==
    \A k \in Clients : \A f \in Range(fromClient[k]) : f.type = "TCP_OPEN_ACK" => Reached(f.id)

ConfirmedReached ==
    \A c \in Numbered : IsAgent(c) /\ ~st[c].awaiting => Reached(st[c].id)

\* an acknowledgement, and an entry, name a confirmed stream of their agent
AcksJoin ==
    \A a \in Agents : \A f \in Range(toAgent[a]) :
        f.type = "TCP_CONNECT_ACK" => Joinable(f.req, a, f.id)

EntriesJoin ==
    \A a \in Agents, i \in StreamIds : entries[a][i] # NoConn =>
        Joinable(entries[a][i], a, i) /\ app[entries[a][i]] = "joined"

\* an application waits at one agent, and is joined to a confirmed stream
PendingWait ==
    \A a \in Agents : \A c \in pending[a] :
        app[c] = "waiting" /\ \A b \in Agents : c \in pending[b] => b = a

JoinedConfirmed ==
    \A c \in Conns : app[c] = "joined" => \E a \in Agents, i \in StreamIds : Joinable(c, a, i)

\* a client holds the streams it has dialled
HeldDialled ==
    \A k \in Clients : \A i \in clientStreams[k] : local[i].state # "none"

EndsInv ==
    /\ IdsOnce /\ OpensOnce /\ Dialled /\ OpenAcksReached /\ ConfirmedReached
    /\ AcksJoin /\ EntriesJoin /\ PendingWait /\ JoinedConfirmed /\ HeldDialled

-----------------------------------------------------------------------------
(* What the relay does to streams and queues.                              *)

SameStream(s, t) ==
    /\ t.id = s.id /\ t.port = s.port /\ t.client = s.client /\ t.agent = s.agent
    /\ t.awaiting = s.awaiting
    /\ t.phase = "unused" => s.phase = "unused"

StreamsKept ==
    /\ nextStreamId' = nextStreamId
    /\ \A c \in Conns : SameStream(st[c], st'[c])

AgentsGet ==
    \A a \in Agents : \/ toAgent'[a] = toAgent[a]
                      \/ \E s \in Seq(OtherFrames) : toAgent'[a] = toAgent[a] \o s

ClientsGet ==
    \A k \in Clients : \/ toClient'[k] = toClient[k]
                       \/ \E s \in Seq(DownFrames) : toClient'[k] = toClient[k] \o s

\* no stream starts, is confirmed, opened or acknowledged
RelayQuiet == StreamsKept /\ AgentsGet /\ ClientsGet

LEMMA OneAgentGets ==
  ASSUME TypeOK, NEW a, NEW s \in Seq(OtherFrames), toAgent' = ToAgent(a, s)
  PROVE  AgentsGet
BY DEF AgentsGet, ToAgent, TypeOK

LEMMA OneClientGets ==
  ASSUME TypeOK, NEW k, NEW s \in Seq(DownFrames), toClient' = ToClient(k, s)
  PROVE  ClientsGet
BY DEF ClientsGet, ToClient, TypeOK

\* The aborts of live streams are frames of streams.
LEMMA AbortsGoDown ==
  ASSUME IInv, NEW S \in SUBSET LiveConns
  PROVE  AbortFrames(S) \in Seq(DownFrames)
BY AbortFramesAreFrames DEF IInv, LiveNamed, LiveConns

\* A change of phase or socket is none of what the ends share.
LEMMA StateKept ==
  ASSUME NEW s \in StreamStates
  PROVE  /\ SameStream(s, s)
         /\ SameStream(s, CleanedState(s))
         /\ SameStream(s, [s EXCEPT !.phase = "cleaned"])
         /\ SameStream(s, [s EXCEPT !.phase = "refused"])
         /\ SameStream(s, [s EXCEPT !.phase = "refused", !.socket = "destroyed"])
         /\ SameStream(s, [s EXCEPT !.socket = "destroyed"])
BY DEF SameStream, CleanedState, StreamStates

LEMMA SameStreamsKept ==
  ASSUME TypeOK, st' = st, nextStreamId' = nextStreamId
  PROVE  StreamsKept
BY StateKept DEF StreamsKept, TypeOK

LEMMA CleanupKeeps ==
  ASSUME TypeOK, NEW S \in SUBSET LiveConns, CleanupTcpStreams(S)
  PROVE  StreamsKept
<1>1. \A c \in Conns : st[c] \in StreamStates
  BY DEF TypeOK
<1>2. \A c \in Conns : st'[c] = CleanedState(st[c]) \/ st'[c] = st[c]
  BY DEF CleanupTcpStreams
<1>. QED
  BY <1>1, <1>2, StateKept DEF StreamsKept, CleanupTcpStreams

LEMMA OneStateKept ==
  ASSUME TypeOK, NEW c \in Conns, nextStreamId' = nextStreamId,
         \/ st' = [st EXCEPT ![c].phase = "cleaned"]
         \/ st' = [st EXCEPT ![c].phase = "refused"]
         \/ st' = [st EXCEPT ![c].phase = "refused", ![c].socket = "destroyed"]
         \/ st' = [st EXCEPT ![c].socket = "destroyed"]
  PROVE  StreamsKept
<1>1. \A d \in Conns : st[d] \in StreamStates
  BY DEF TypeOK
<1>2. \A d \in Conns :
        \/ st'[d] = st[d]
        \/ st'[d] = [st[d] EXCEPT !.phase = "cleaned"]
        \/ st'[d] = [st[d] EXCEPT !.phase = "refused"]
        \/ st'[d] = [st[d] EXCEPT !.phase = "refused", !.socket = "destroyed"]
        \/ st'[d] = [st[d] EXCEPT !.socket = "destroyed"]
  BY DEF TypeOK
<1>. QED
  BY <1>1, <1>2, StateKept, ZenonT(40) DEF StreamsKept

\* Queues that nothing is added to.
LEMMA NothingSent ==
  ASSUME toAgent' = toAgent, toClient' = toClient
  PROVE  AgentsGet /\ ClientsGet
BY DEF AgentsGet, ClientsGet

-----------------------------------------------------------------------------
(* The quiet handlers.                                                     *)

LEMMA EndingsKeep ==
  ASSUME IInv, NEW c \in LiveConns,
         \/ \E notify \in BOOLEAN : AbortTcpStream(c, notify)
         \/ CloseTcpStream(c) \/ RelaySocketError(c) \/ RelayInboundData(c)
         \/ TcpDataFromClient(c) \/ TcpCloseFromClient(c) \/ TcpAbortFromClient(c)
         \/ ResAbortFromClient(c)
  PROVE  RelayQuiet
<1>1. TypeOK /\ {c} \in SUBSET LiveConns /\ c \in Conns /\ st[c].id \in StreamIds
  BY DEF IInv, LiveConns, LiveNamed
<1>2. StreamsKept
  BY <1>1, CleanupKeeps, SameStreamsKept, OneStateKept
     DEF AbortTcpStream, CloseTcpStream, RelaySocketError, RelayInboundData, TcpDataFromClient,
         TcpCloseFromClient, TcpAbortFromClient, ResAbortFromClient, streamVars
<1>3. AbortFrames({c}) \in Seq(OtherFrames) /\ AbortFrames({c}) \in Seq(DownFrames)
  BY <1>1, AbortsAreOthers, AbortsGoDown
<1>4. \A t \in {"TCP_DATA", "TCP_CLOSE"} : /\ <<StreamFrame(t, st[c].id)>> \in Seq(OtherFrames)
                                           /\ <<StreamFrame(t, st[c].id)>> \in Seq(DownFrames)
  BY <1>1 DEF StreamFrame, OtherFrames, DownFrames, EndTypes
<1>5. (IF st[c].awaiting THEN <<RejectFrame(c)>> ELSE <<>>) \o AbortFrames({c})
        \in Seq(OtherFrames)
  <2>1. RejectFrame(c) \in OtherFrames
    BY <1>1 DEF RejectFrame, OtherFrames
  <2>2. (IF st[c].awaiting THEN <<RejectFrame(c)>> ELSE <<>>) \in Seq(OtherFrames)
    BY <2>1
  <2>3. \A s, u \in Seq(OtherFrames) : s \o u \in Seq(OtherFrames)
    OBVIOUS
  <2>. QED
    BY <1>3, <2>2, <2>3
<1>6. toAgent' = toAgent \/ \E s \in Seq(OtherFrames) : toAgent' = ToAgent(st[c].agent, s)
  BY <1>3, <1>4, <1>5
     DEF AbortTcpStream, CloseTcpStream, RelaySocketError, RelayInboundData, TcpDataFromClient,
         TcpCloseFromClient, TcpAbortFromClient, ResAbortFromClient
<1>7. toClient' = toClient \/ \E s \in Seq(DownFrames) : toClient' = ToClient(st[c].client, s)
  BY <1>3, <1>4
     DEF AbortTcpStream, CloseTcpStream, RelaySocketError, RelayInboundData, TcpDataFromClient,
         TcpCloseFromClient, TcpAbortFromClient, ResAbortFromClient
<1>8. AgentsGet
  BY <1>1, <1>6, OneAgentGets DEF AgentsGet
<1>9. ClientsGet
  BY <1>1, <1>7, OneClientGets DEF ClientsGet
<1>. QED
  BY <1>2, <1>8, <1>9 DEF RelayQuiet

\* Bulk cleanups: the aborts of each agent and of each client.
LEMMA BulkKeeps ==
  ASSUME IInv, NEW S \in SUBSET LiveConns, CleanupTcpStreams(S),
         \A a \in Agents : toAgent'[a] \in {toAgent[a], AgentsToldAbort(S)[a]},
         \A k \in Clients :
            toClient'[k] \in {toClient[k],
                              toClient[k] \o AbortFrames({c \in S : st[c].client = k})}
  PROVE  RelayQuiet
<1>1. \A a \in Agents : AbortFrames({c \in S : st[c].agent = a}) \in Seq(OtherFrames)
  BY AbortsAreOthers
<1>2. \A k \in Clients : AbortFrames({c \in S : st[c].client = k}) \in Seq(DownFrames)
  BY AbortsGoDown
<1>3. AgentsGet
  BY <1>1 DEF AgentsGet, AgentsToldAbort
<1>4. ClientsGet
  BY <1>2 DEF ClientsGet
<1>. QED
  BY <1>3, <1>4, CleanupKeeps DEF RelayQuiet, IInv

LEMMA ClosingsKeep ==
  ASSUME IInv, \/ \E a \in Agents : CleanupAgent(a)
               \/ \E k \in Clients : CleanupClient(k)
  PROVE  RelayQuiet
<1>1. TypeOK
  BY DEF IInv
<1>2. ASSUME NEW a \in Agents, CleanupAgent(a) PROVE RelayQuiet
  <2> DEFINE S == {c \in LiveConns : st[c].id \in agentStreams[a]}
  <2>1. /\ S \in SUBSET LiveConns /\ CleanupTcpStreams(S)
        /\ toAgent' = [AgentsToldAbort(S) EXCEPT ![a] = toAgent[a]]
        /\ toClient' = [k \in Clients |->
               IF wsClient[k] = "open"
               THEN toClient[k] \o AbortFrames({c \in S : st[c].client = k})
               ELSE toClient[k]]
    BY <1>2 DEF CleanupAgent
  <2> HIDE DEF S
  <2>2. \A b \in Agents : toAgent'[b] \in {toAgent[b], AgentsToldAbort(S)[b]}
    BY <2>1 DEF AgentsToldAbort
  <2>. QED
    BY <2>1, <2>2, BulkKeeps
<1>3. ASSUME NEW k \in Clients, CleanupClient(k) PROVE RelayQuiet
  <2> DEFINE S == IF k \in clients THEN {c \in LiveConns : st[c].client = k} ELSE {}
  <2>1. /\ S \in SUBSET LiveConns /\ CleanupTcpStreams(S)
        /\ toAgent' = AgentsToldAbort(S) /\ toClient' = toClient
    BY <1>3 DEF CleanupClient
  <2> HIDE DEF S
  <2>. QED
    BY <2>1, BulkKeeps
<1>. QED
  BY <1>2, <1>3

\* Registrations move no frame and touch no stream.
LEMMA RegistrationsKeep ==
  ASSUME IInv,
         \/ \E a \in Agents : HandleConnection(a) \/ AgentClosing(a)
         \/ \E k \in Clients : \/ ClientClosing(k)
                               \/ \E t \in TunnelIds \cup {NoTunnelId} :
                                     AddClient(k, t) \/ RefuseClient(k, t)
         \/ UNCHANGED relayVars
  PROVE  RelayQuiet
<1>1. st' = st /\ nextStreamId' = nextStreamId /\ toAgent' = toAgent /\ toClient' = toClient
  BY DEF HandleConnection, AgentClosing, ClientClosing, AddClient, RefuseClient, relayVars, streamVars
<1>. QED
  BY <1>1, SameStreamsKept, NothingSent DEF RelayQuiet, IInv

LEMMA AgentFrameKeeps ==
  ASSUME IInv, NEW a \in Agents, NEW f \in FromAgentFrames, HandleAgentFrame(a, f)
  PROVE  RelayQuiet
<1>1. TypeOK /\ f.id \in StreamIds
  BY DEF IInv, FromAgentFrames
<1>2. CASE AgentStreamMissing(a, f.type, f.id)
  <2>1. <<StreamFrame("TCP_ABORT", f.id)>> \in Seq(OtherFrames)
    BY <1>1 DEF StreamFrame, OtherFrames, DownFrames, EndTypes
  <2>2. toAgent' = toAgent \/ toAgent' = ToAgent(a, <<StreamFrame("TCP_ABORT", f.id)>>)
    BY <1>2 DEF AgentStreamMissing
  <2>3. AgentsGet
    BY <1>1, <2>1, <2>2, OneAgentGets DEF AgentsGet
  <2>4. StreamsKept /\ ClientsGet
    BY <1>1, <1>2, SameStreamsKept DEF AgentStreamMissing, streamVars, ClientsGet
  <2>. QED
    BY <2>3, <2>4 DEF RelayQuiet
<1>3. CASE AgentFrameIgnored(a, f.id)
  BY <1>3, RegistrationsKeep DEF AgentFrameIgnored
<1>4. CASE AgentStreamFrame(a, f.type, f.id)
  <2>1. streams[f.id] \in LiveConns
    BY <1>1, <1>4, TableEntryLive DEF AgentStreamFrame, IsAgentStream
  <2>. QED
    BY <1>4, <2>1, EndingsKeep DEF AgentStreamFrame
<1>. QED
  BY <1>2, <1>3, <1>4 DEF HandleAgentFrame

-----------------------------------------------------------------------------
(* What every relay step is: quiet, a start or a confirmation.             *)

Started(c, p, k, a) ==
    /\ c \in Conns /\ p \in Ports /\ k \in OpenClients /\ a \in Agents \cup {NoAgent}
    /\ st[c].phase = "unused"
    /\ StartStream(c, p, k, a)
    /\ toAgent' = toAgent

LEMMA ConnectKinds ==
  ASSUME IInv, NEW a \in Agents, NEW c \in Conns, NEW p \in Ports, NEW t,
         HandleTcpConnect(a, c, p, t)
  PROVE  RelayQuiet \/ \E k \in Clients : Started(c, p, k, a)
<1>1. TypeOK
  BY DEF IInv
<1>2. CASE ConnectRefused(a, p, t)
  <2>1. <<RejectFrame(c)>> \in Seq(OtherFrames)
    BY DEF RejectFrame, OtherFrames
  <2>2. AgentsGet
    BY <1>1, <1>2, <2>1, OneAgentGets DEF HandleTcpConnect
  <2>3. StreamsKept /\ ClientsGet
    BY <1>1, <1>2, OneStateKept DEF HandleTcpConnect, ClientsGet
  <2>. QED
    BY <2>2, <2>3 DEF RelayQuiet
<1>3. CASE ~ConnectRefused(a, p, t)
  <2>1. PICK k \in TargetClients(t) : StartStream(c, p, k, a)
    BY <1>3 DEF HandleTcpConnect
  <2>2. k \in OpenClients /\ k \in Clients
    BY <1>1, IInv DEF TargetClients, OpenClients, TypeOK, IInv, OpenRegistered
  <2>. QED
    BY <1>3, <2>1, <2>2 DEF HandleTcpConnect, Started
<1>. QED
  BY <1>2, <1>3

LEMMA DirectKinds ==
  ASSUME IInv, NEW c \in Conns,
         \/ \E p \in Ports, allowedIp \in BOOLEAN : HandleDirectConnection(c, p, allowedIp)
         \/ DirectData(c)
         \/ \E error \in BOOLEAN : DirectEnd(c, error)
         \/ StreamIdle(c)
  PROVE  RelayQuiet \/ \E p \in Ports, k \in Clients : Started(c, p, k, NoAgent)
<1>1. TypeOK
  BY DEF IInv
<1>2. ASSUME NEW p \in Ports, NEW allowedIp \in BOOLEAN, HandleDirectConnection(c, p, allowedIp)
      PROVE  RelayQuiet \/ \E k \in Clients : Started(c, p, k, NoAgent)
  <2>1. CASE ConnectionRefused(p, allowedIp)
    <3>1. StreamsKept
      BY <1>1, <1>2, <2>1, OneStateKept DEF HandleDirectConnection
    <3>2. toAgent' = toAgent /\ toClient' = toClient
      BY <1>2, <2>1 DEF HandleDirectConnection
    <3>. QED
      BY <3>1, <3>2, NothingSent DEF RelayQuiet
  <2>2. CASE ~ConnectionRefused(p, allowedIp)
    <3>1. PICK k \in OpenClients : StartStream(c, p, k, NoAgent)
      BY <1>2, <2>2 DEF HandleDirectConnection
    <3>2. k \in Clients
      BY <1>1 DEF OpenClients, TypeOK
    <3>. QED
      BY <1>2, <2>2, <3>1, <3>2 DEF HandleDirectConnection, Started
  <2>. QED
    BY <2>1, <2>2
<1>3. CASE DirectData(c)
  BY <1>3, EndingsKeep DEF DirectData, LiveConns
<1>4. ASSUME NEW error \in BOOLEAN, DirectEnd(c, error) PROVE RelayQuiet
  <2>1. CASE Live(c)
    BY <1>4, <2>1, EndingsKeep DEF DirectEnd, LiveConns
  <2>2. CASE ~Live(c)
    BY <1>1, <1>4, <2>2, OneStateKept, NothingSent DEF DirectEnd, RelayQuiet
  <2>. QED
    BY <2>1, <2>2
<1>5. CASE StreamIdle(c)
  BY <1>5, EndingsKeep DEF StreamIdle, LiveConns
<1>. QED
  BY <1>2, <1>3, <1>4, <1>5

\* A TCP_OPEN_ACK that confirms a stream; all other frames of a client are quiet.
Confirms(c) ==
    /\ c \in LiveConns /\ st[c].awaiting
    /\ st' = [st EXCEPT ![c].awaiting = FALSE]
    /\ toAgent' = ToAgent(st[c].agent, <<AckFrame(st[c].id, c)>>)
    /\ UNCHANGED <<nextStreamId, toClient>>

LEMMA ClientFrameKindsOfStep ==
  ASSUME IInv, NEW k \in Clients, NEW f \in FromClientFrames, HandleClientFrame(k, f)
  PROVE  RelayQuiet \/ \E c \in Conns : Confirms(c) /\ st[c].id = f.id /\ f.type = "TCP_OPEN_ACK"
<1>1. TypeOK
  BY DEF IInv
<1>2. CASE UNCHANGED relayVars
  BY <1>2, RegistrationsKeep
<1>3. CASE Owns(k, f.id)
  <2> DEFINE c == streams[f.id]
  <2>1. c \in LiveConns /\ st[c].id = f.id /\ c \in Conns
    BY <1>3, TableEntryLive DEF Owns, FromClientFrames, LiveConns
  <2>2. CASE f.type = "TCP_OPEN_ACK" /\ TcpOpenAck(c)
    <3>1. CASE st[c].awaiting
      BY <2>1, <2>2, <3>1 DEF TcpOpenAck, Confirms
    <3>2. CASE ~st[c].awaiting
      <4>1. st' = st /\ nextStreamId' = nextStreamId /\ toAgent' = toAgent /\ toClient' = toClient
        BY <2>2, <3>2 DEF TcpOpenAck
      <4>. QED
        BY <1>1, <4>1, SameStreamsKept, NothingSent DEF RelayQuiet
    <3>. QED
      BY <3>1, <3>2
  <2>3. CASE \/ TcpDataFromClient(c) \/ TcpCloseFromClient(c) \/ TcpAbortFromClient(c)
             \/ ResAbortFromClient(c)
    BY <2>1, <2>3, EndingsKeep
  <2>. QED
    BY <1>2, <1>3, <2>2, <2>3 DEF HandleClientFrame
<1>. QED
  BY <1>2, <1>3 DEF HandleClientFrame

-----------------------------------------------------------------------------
(* What the relay's steps keep of the invariant.                           *)

\* a stream that has an id keeps what its ends share, and stays confirmed
StreamsGrow ==
    \A c \in Conns : st[c].id # 0 =>
        /\ st'[c].id = st[c].id /\ st'[c].port = st[c].port
        /\ st'[c].client = st[c].client /\ st'[c].agent = st[c].agent
        /\ ~st[c].awaiting => ~st'[c].awaiting

\* the peers go on as they were, but for confirmations taken or lost
PeersKept ==
    /\ UNCHANGED <<pending, entries, app, clientStreams, local>>
    /\ \A k \in Clients : Range(fromClient'[k]) \subseteq Range(fromClient[k])

\* A queue that gets frames of streams has no other TCP_OPEN than before.
LEMMA OpensOfExtended ==
  ASSUME NEW q \in Seq(ToClientFrames), NEW s \in Seq(DownFrames),
         NEW m \in DOMAIN (q \o s), (q \o s)[m].type = "TCP_OPEN"
  PROVE  m \in DOMAIN q /\ (q \o s)[m] = q[m]
<1>1. /\ m \in 1..(Len(q) + Len(s))
      /\ (q \o s)[m] = IF m <= Len(q) THEN q[m] ELSE s[m - Len(q)]
  OBVIOUS
<1>2. CASE m <= Len(q)
  BY <1>1, <1>2
<1>3. CASE m > Len(q)
  <2>1. s[m - Len(q)] \in DownFrames
    BY <1>1, <1>3
  <2>2. \A f \in DownFrames : f.type # "TCP_OPEN"
    BY DEF DownFrames, EndTypes
  <2>. QED
    BY <1>1, <1>3, <2>1, <2>2
<1>. QED
  BY <1>1, <1>2, <1>3

\* A TCP_OPEN still on its way after a step was on its way before it.
LEMMA OpensWereThere ==
  ASSUME TypeOK, ClientsGet, NEW k \in Clients, NEW m \in DOMAIN toClient'[k],
         toClient'[k][m].type = "TCP_OPEN"
  PROVE  m \in DOMAIN toClient[k] /\ toClient'[k][m] = toClient[k][m]
<1>1. toClient[k] \in Seq(ToClientFrames)
  BY DEF TypeOK
<1>2. CASE toClient'[k] = toClient[k]
  BY <1>2
<1>3. ASSUME NEW s \in Seq(DownFrames), toClient'[k] = toClient[k] \o s
      PROVE  m \in DOMAIN toClient[k] /\ toClient'[k][m] = toClient[k][m]
  BY <1>1, <1>3, OpensOfExtended
<1>. QED
  BY <1>2, <1>3 DEF ClientsGet

\* An acknowledgement on its way after a step was on its way before it.
LEMMA AcksWereThere ==
  ASSUME TypeOK, AgentsGet, NEW a \in Agents, NEW f \in Range(toAgent'[a]),
         f.type = "TCP_CONNECT_ACK"
  PROVE  f \in Range(toAgent[a])
<1>1. CASE toAgent'[a] = toAgent[a]
  BY <1>1
<1>2. ASSUME NEW s \in Seq(OtherFrames), toAgent'[a] = toAgent[a] \o s
      PROVE  f \in Range(toAgent[a])
  <2>1. toAgent[a] \in Seq(ToAgentFrames) /\ s \in Seq(ToAgentFrames)
    BY OthersAreNoAcks DEF TypeOK
  <2>2. f \in Range(toAgent[a]) \cup Range(s)
    BY <1>2, <2>1, RangeOfConcat
  <2>. QED
    BY <2>2, OthersAreNoAcks
<1>. QED
  BY <1>1, <1>2 DEF AgentsGet

\* Frames on their way name streams.
LEMMA FramesNameStreams ==
  ASSUME TypeOK
  PROVE  /\ \A a \in Agents : \A f \in Range(toAgent[a]) : f.type = "TCP_CONNECT_ACK" =>
               f.id \in StreamIds /\ f.req \in Conns
         /\ \A k \in Clients : \A m \in DOMAIN toClient[k] : toClient[k][m].id \in StreamIds
<1>1. \A a \in Agents : \A f \in Range(toAgent[a]) : f \in ToAgentFrames
  <2>1. \A a \in Agents : toAgent[a] \in Seq(ToAgentFrames)
    BY DEF TypeOK
  <2>. QED
    BY <2>1 DEF Range
<1>2. \A k \in Clients : \A m \in DOMAIN toClient[k] : toClient[k][m] \in ToClientFrames
  <2>1. \A k \in Clients : toClient[k] \in Seq(ToClientFrames)
    BY DEF TypeOK
  <2>. QED
    BY <2>1
<1>. QED
  BY <1>1, <1>2, AgentFrameKinds, ClientFrameKinds

\* Zero is no stream id.
LEMMA IdsPositive == \A i \in StreamIds : i # 0 /\ i \in Nat
BY DEF StreamIds

\* What is said of streams with an id, and of the peers, stays true.
LEMMA GrowthKeeps ==
  ASSUME TypesInv, EndsInv, StreamsGrow, PeersKept
  PROVE  Dialled' /\ OpenAcksReached' /\ EntriesJoin' /\ PendingWait' /\ JoinedConfirmed'
         /\ HeldDialled'
<1> USE DEF EndsInv, PeersKept
<1>1. \A c \in Conns, i \in StreamIds : \A p, k : StreamOf(c, i, p, k) => StreamOf(c, i, p, k)'
  BY IdsPositive DEF StreamOf, StreamsGrow
<1>2. \A c \in Conns, i \in StreamIds, a \in Agents : Joinable(c, a, i) => Joinable(c, a, i)'
  BY IdsPositive DEF Joinable, StreamsGrow
<1>3. Dialled'
  BY <1>1 DEF Dialled
<1>4. OpenAcksReached'
  BY DEF OpenAcksReached, Reached
<1>5. EntriesJoin'
  <2>1. \A a \in Agents, i \in StreamIds : entries[a][i] # NoConn => entries[a][i] \in Conns
    BY DEF TypesInv, TunnelTypeOK
  <2>. QED
    BY <1>2, <2>1 DEF EntriesJoin
<1>6. PendingWait' /\ HeldDialled'
  BY DEF PendingWait, HeldDialled
<1>7. JoinedConfirmed'
  BY <1>2 DEF JoinedConfirmed
<1>. QED
  BY <1>3, <1>4, <1>5, <1>6, <1>7

LEMMA OpensKept ==
  ASSUME TypesInv, OpensOnce, StreamsGrow, local' = local, ClientsGet
  PROVE  OpensOnce'
<1>1. TypeOK
  BY DEF TypesInv, TunnelTypeOK
<1>2. ASSUME NEW k \in Clients, NEW m \in DOMAIN toClient'[k], NEW f,
             f = toClient'[k][m], f.type = "TCP_OPEN"
      PROVE  /\ local[f.id].state = "none"
             /\ \E c \in Conns : StreamOf(c, f.id, f.port, k)'
             /\ \A n \in DOMAIN toClient'[k] :
                   toClient'[k][n].type = "TCP_OPEN" /\ toClient'[k][n].id = f.id => n = m
  <2>1. m \in DOMAIN toClient[k] /\ f = toClient[k][m] /\ f.id \in StreamIds
    BY <1>1, <1>2, OpensWereThere, FramesNameStreams
  <2>2. PICK c \in Conns : StreamOf(c, f.id, f.port, k)
    BY <1>2, <2>1 DEF OpensOnce
  <2>3. StreamOf(c, f.id, f.port, k)'
    BY <2>1, <2>2, IdsPositive DEF StreamOf, StreamsGrow
  <2>4. ASSUME NEW n \in DOMAIN toClient'[k], toClient'[k][n].type = "TCP_OPEN",
               toClient'[k][n].id = f.id
        PROVE  n = m
    <3>1. n \in DOMAIN toClient[k] /\ toClient'[k][n] = toClient[k][n]
      BY <1>1, <2>4, OpensWereThere
    <3>. QED
      BY <1>2, <2>1, <2>4, <3>1 DEF OpensOnce
  <2>. QED
    BY <1>2, <2>1, <2>3, <2>4 DEF OpensOnce
<1>. QED
  BY <1>2 DEF OpensOnce

LEMMA AcksKept ==
  ASSUME TypesInv, AcksJoin, StreamsGrow, AgentsGet
  PROVE  AcksJoin'
<1> SUFFICES ASSUME NEW a \in Agents, NEW f \in Range(toAgent'[a]), f.type = "TCP_CONNECT_ACK"
             PROVE  Joinable(f.req, a, f.id)'
  BY DEF AcksJoin
<1>1. TypeOK
  BY DEF TypesInv, TunnelTypeOK
<1>2. f \in Range(toAgent[a])
  BY <1>1, AcksWereThere
<1>3. f.id \in StreamIds /\ f.req \in Conns /\ Joinable(f.req, a, f.id)
  BY <1>1, <1>2, FramesNameStreams DEF AcksJoin
<1>. QED
  BY <1>3, IdsPositive DEF Joinable, StreamsGrow

\* Quiet steps.
LEMMA QuietKeeps ==
  ASSUME TypesInv, EndsInv, RelayQuiet, PeersKept
  PROVE  EndsInv'
<1>1. /\ StreamsGrow
      /\ \A c \in Conns : /\ (st'[c].id = 0) = (st[c].id = 0)
                          /\ IsAgent(c)' = IsAgent(c) /\ st'[c].awaiting = st[c].awaiting
  BY DEF RelayQuiet, StreamsKept, SameStream, StreamsGrow, IsAgent
<1>2. Numbered' = Numbered
  BY <1>1 DEF Numbered
<1>3. IdsOnce'
  <2>1. \A c \in Conns : st'[c].id = st[c].id /\ (st'[c].phase = "unused" => st[c].phase = "unused")
    BY DEF RelayQuiet, StreamsKept, SameStream
  <2>2. nextStreamId' = nextStreamId /\ Numbered \subseteq Conns
    BY DEF RelayQuiet, StreamsKept, Numbered
  <2>. QED
    BY <1>2, <2>1, <2>2 DEF IdsOnce, EndsInv
<1>4. ConfirmedReached'
  BY <1>1, <1>2 DEF ConfirmedReached, EndsInv, PeersKept, Reached, StreamsGrow, Numbered
<1>5. OpensOnce'
  BY <1>1, OpensKept DEF EndsInv, PeersKept, RelayQuiet
<1>6. AcksJoin'
  BY <1>1, AcksKept DEF EndsInv, RelayQuiet
<1>7. Dialled' /\ OpenAcksReached' /\ EntriesJoin' /\ PendingWait' /\ JoinedConfirmed' /\ HeldDialled'
  BY <1>1, GrowthKeeps
<1>. QED
  BY <1>3, <1>4, <1>5, <1>6, <1>7 DEF EndsInv

-----------------------------------------------------------------------------
(* A stream starts.                                                        *)

\* c gets i, which is the id of no other connection
Fresh(i, c, p, k, a) ==
    /\ i = Cardinality(Numbered) + 1
    /\ \A d \in Conns : st[d].id # i
    /\ c \in Conns /\ st[c].id = 0
    /\ st' = [st EXCEPT ![c] =
          [phase |-> "live", id |-> i, port |-> p, client |-> k, agent |-> a,
           awaiting |-> a # NoAgent, socket |-> "open", counted |-> TRUE]]
    /\ nextStreamId' = SuccId(i)
    /\ toClient' = ToClient(k, <<OpenFrame(i, p)>>)

\* The id of a new stream is the next one that no connection has ever had.
LEMMA FreshId ==
  ASSUME TypesInv, IdsOnce, NEW c, NEW p, NEW k, NEW a, Started(c, p, k, a)
  PROVE  \E i \in StreamIds : Fresh(i, c, p, k, a)
<1> DEFINE n == Cardinality(Numbered)
<1>1. IInv
  BY DEF TypesInv
<1>2. c \in Conns /\ st[c].id = 0
  BY DEF Started, IdsOnce
<1>3. n \in Nat /\ n < MaxStreamId
  <2>1. IsFiniteSet(Conns \ {c}) /\ Cardinality(Conns \ {c}) = Cardinality(Conns) - 1
    BY <1>2, RelayAssumption, FS_RemoveElement
  <2>2. Numbered \in SUBSET (Conns \ {c})
    BY <1>2 DEF Numbered
  <2>3. n \in Nat /\ n <= Cardinality(Conns \ {c}) /\ Cardinality(Conns) \in Nat
    BY <2>1, <2>2, RelayAssumption, FS_Subset, FS_CardinalityType
  <2>. QED
    BY <2>1, <2>3, RelayAssumption, TunnelAssumption
<1>4. nextStreamId = n + 1 /\ n + 1 \in StreamIds
  BY <1>3, RelayAssumption DEF IdsOnce, StreamIds
<1>5. \A d \in Conns : st[d].id # n + 1
  <2> SUFFICES ASSUME NEW d \in Conns, st[d].id = n + 1 PROVE FALSE
    OBVIOUS
  <2>1. d \in Numbered
    BY <1>3 DEF Numbered
  <2>2. n + 1 <= n
    BY <2>1 DEF IdsOnce
  <2>. QED
    BY <1>3, <2>2
<1>6. streams[n + 1] = NoConn
  BY <1>1, <1>4, <1>5, TableEntryLive DEF LiveConns
<1>7. PICK i \in StreamIds :
         /\ Allocates(i)
         /\ st' = [st EXCEPT ![c] =
               [phase |-> "live", id |-> i, port |-> p, client |-> k, agent |-> a,
                awaiting |-> a # NoAgent, socket |-> "open", counted |-> TRUE]]
         /\ nextStreamId' = SuccId(i)
         /\ toClient' = ToClient(k, <<OpenFrame(i, p)>>)
  BY DEF Started, StartStream
<1>8. i = n + 1
  <2> SUFFICES ASSUME i # n + 1 PROVE FALSE
    OBVIOUS
  <2>1. CyclicallyBefore(n + 1, i)
    BY <1>3, <1>4 DEF CyclicallyBefore, StreamIds
  <2>. QED
    BY <1>4, <1>6, <1>7, <2>1 DEF Allocates
<1>9. i = Cardinality(Numbered) + 1 /\ \A d \in Conns : st[d].id # i
  BY <1>5, <1>8
<1>10. Fresh(i, c, p, k, a)
  BY <1>2, <1>7, <1>9 DEF Fresh
<1>. QED
  BY <1>10

LEMMA StartIds ==
  ASSUME TypesInv, IdsOnce, NEW c, NEW p, NEW k, NEW a, Started(c, p, k, a)
  PROVE  IdsOnce'
<1> DEFINE n == Cardinality(Numbered)
<1>1. PICK i \in StreamIds : Fresh(i, c, p, k, a)
  BY FreshId
<1>2. \A d \in Conns : /\ d # c => st'[d] = st[d]
                       /\ st'[c].id = i /\ st'[c].phase = "live"
  BY <1>1 DEF Fresh, TypesInv, TunnelTypeOK, TypeOK
<1>3. Numbered' = Numbered \cup {c} /\ c \notin Numbered
  BY <1>1, <1>2, IdsPositive DEF Fresh, Numbered
<1>4. IsFiniteSet(Numbered) /\ n \in Nat
  BY RelayAssumption, FS_Subset, FS_CardinalityType DEF Numbered
<1>5. Cardinality(Numbered)' = n + 1
  BY <1>3, <1>4, FS_AddElement
<1>6. \A d \in Numbered : st[d].id \in Nat
  BY DEF Numbered, TypesInv, TunnelTypeOK, TypeOK, StreamStates, StreamIds
<1>7. \A d \in Numbered' : st'[d].id <= n + 1
  BY <1>1, <1>2, <1>3, <1>4, <1>6 DEF Fresh, IdsOnce, Numbered
<1>8. \A d, e \in Numbered' : st'[d].id = st'[e].id => d = e
  BY <1>1, <1>2, <1>3 DEF Fresh, IdsOnce, Numbered
<1>9. nextStreamId' = IF n + 1 = MaxStreamId THEN 1 ELSE n + 1 + 1
  BY <1>1, <1>4, RelayAssumption DEF Fresh, SuccId, StreamIds
<1>10. \A d \in Conns : st'[d].phase = "unused" => st'[d].id = 0
  BY <1>2 DEF IdsOnce
<1>. QED
  BY <1>5, <1>7, <1>8, <1>9, <1>10 DEF IdsOnce

LEMMA StartGrows ==
  ASSUME TypesInv, IdsOnce, NEW c, NEW p, NEW k, NEW a, Started(c, p, k, a)
  PROVE  StreamsGrow
BY FreshId DEF Fresh, StreamsGrow, TypesInv, TunnelTypeOK, TypeOK

\* The TCP_OPEN of a new stream is the only frame on its way that names it.
LEMMA StartOpens ==
  ASSUME TypesInv, EndsInv, PeersKept, NEW c, NEW p, NEW k, NEW a, Started(c, p, k, a)
  PROVE  OpensOnce'
<1> USE DEF EndsInv, PeersKept
<1>1. TypeOK /\ k \in Clients
  BY DEF TypesInv, TunnelTypeOK, Started, OpenClients, TypeOK
<1>2. StreamsGrow
  BY StartGrows
<1>3. PICK i \in StreamIds : Fresh(i, c, p, k, a)
  BY FreshId
<1>4. /\ \A d \in Conns : st[d].id # i
      /\ c \in Conns /\ st'[c].id = i /\ st'[c].port = p /\ st'[c].client = k
      /\ toClient' = ToClient(k, <<OpenFrame(i, p)>>)
  BY <1>1, <1>3 DEF Fresh, TypeOK
<1>5. local[i].state = "none"
  BY <1>4 DEF Dialled, StreamOf
<1>6. ASSUME NEW j \in Clients, NEW m \in DOMAIN toClient'[j]
      PROVE  \/ m \in DOMAIN toClient[j] /\ toClient'[j][m] = toClient[j][m]
             \/ j = k /\ m = Len(toClient[k]) + 1 /\ toClient'[j][m] = OpenFrame(i, p)
  <2>1. toClient[j] \in Seq(ToClientFrames)
    BY <1>1 DEF TypeOK
  <2>2. toClient'[j] = toClient[j] \/ (j = k /\ toClient'[j] = toClient[j] \o <<OpenFrame(i, p)>>)
    BY <1>1, <1>4 DEF ToClient, TypeOK
  <2>3. CASE toClient'[j] = toClient[j]
    BY <2>3
  <2>4. CASE j = k /\ toClient'[j] = toClient[j] \o <<OpenFrame(i, p)>>
    <3>1. /\ m \in 1..(Len(toClient[j]) + 1)
          /\ toClient'[j][m] = IF m <= Len(toClient[j]) THEN toClient[j][m] ELSE OpenFrame(i, p)
      BY <2>1, <2>4
    <3>2. Len(toClient[j]) \in Nat /\ DOMAIN toClient[j] = 1..Len(toClient[j])
      BY <2>1
    <3>. QED
      BY <2>4, <3>1, <3>2
  <2>. QED
    BY <2>2, <2>3, <2>4
<1>7. \A j \in Clients : \A m \in DOMAIN toClient[j] :
         toClient[j][m].type = "TCP_OPEN" => toClient[j][m].id # i /\ toClient[j][m].id \in StreamIds
  <2> SUFFICES ASSUME NEW j \in Clients, NEW m \in DOMAIN toClient[j],
                      toClient[j][m].type = "TCP_OPEN"
               PROVE  toClient[j][m].id # i /\ toClient[j][m].id \in StreamIds
    OBVIOUS
  <2>1. \E d \in Conns : st[d].id = toClient[j][m].id
    BY DEF OpensOnce, StreamOf
  <2>. QED
    BY <1>1, <1>4, <2>1, FramesNameStreams
<1>8. OpenFrame(i, p).type = "TCP_OPEN" /\ OpenFrame(i, p).id = i /\ OpenFrame(i, p).port = p
  BY DEF OpenFrame
<1>9. ASSUME NEW j \in Clients, NEW m \in DOMAIN toClient'[j], NEW f,
             f = toClient'[j][m], f.type = "TCP_OPEN"
      PROVE  /\ local[f.id].state = "none"
             /\ \E d \in Conns : StreamOf(d, f.id, f.port, j)'
             /\ \A n \in DOMAIN toClient'[j] :
                   toClient'[j][n].type = "TCP_OPEN" /\ toClient'[j][n].id = f.id => n = m
  <2>1. CASE m \in DOMAIN toClient[j] /\ f = toClient[j][m]
    <3>1. f.id # i /\ f.id \in StreamIds
      BY <1>7, <1>9, <2>1
    <3>2. PICK d \in Conns : StreamOf(d, f.id, f.port, j)
      BY <1>9, <2>1 DEF OpensOnce
    <3>3. StreamOf(d, f.id, f.port, j)'
      BY <1>2, <3>1, <3>2, IdsPositive DEF StreamOf, StreamsGrow
    <3>4. ASSUME NEW n \in DOMAIN toClient'[j], toClient'[j][n].type = "TCP_OPEN",
                 toClient'[j][n].id = f.id
          PROVE  n = m
      <4>1. n \in DOMAIN toClient[j] /\ toClient'[j][n] = toClient[j][n]
        BY <1>6, <1>8, <3>1, <3>4
      <4>. QED
        BY <1>9, <2>1, <3>4, <4>1 DEF OpensOnce
    <3>. QED
      BY <1>9, <2>1, <3>3, <3>4 DEF OpensOnce
  <2>2. CASE j = k /\ m = Len(toClient[k]) + 1 /\ f = OpenFrame(i, p)
    <3>1. StreamOf(c, f.id, f.port, j)'
      BY <1>4, <1>8, <2>2 DEF StreamOf
    <3>2. ASSUME NEW n \in DOMAIN toClient'[j], toClient'[j][n].type = "TCP_OPEN",
                 toClient'[j][n].id = f.id
          PROVE  n = m
      BY <1>6, <1>7, <1>8, <2>2, <3>2
    <3>. QED
      BY <1>4, <1>5, <1>8, <2>2, <3>1, <3>2
  <2>. QED
    BY <1>6, <1>9, <2>1, <2>2
<1>. QED
  BY <1>9 DEF OpensOnce

LEMMA StartKeeps ==
  ASSUME TypesInv, EndsInv, PeersKept, NEW c, NEW p, NEW k, NEW a, Started(c, p, k, a)
  PROVE  EndsInv'
<1> USE DEF EndsInv
<1>1. StreamsGrow /\ IdsOnce' /\ OpensOnce'
  BY StartGrows, StartIds, StartOpens
<1>2. ConfirmedReached'
  <2>1. PICK i \in StreamIds : Fresh(i, c, p, k, a)
    BY FreshId
  <2>2. \A d \in Conns : /\ d # c => st'[d] = st[d]
                         /\ st'[c].agent = a /\ st'[c].awaiting = (a # NoAgent)
    BY <2>1 DEF Fresh, TypesInv, TunnelTypeOK, TypeOK
  <2>. QED
    BY <2>2 DEF ConfirmedReached, Numbered, IsAgent, Reached, PeersKept
<1>3. AcksJoin'
  <2>1. AgentsGet
    BY DEF AgentsGet, Started
  <2>. QED
    BY <1>1, <2>1, AcksKept
<1>. QED
  BY <1>1, <1>2, <1>3, GrowthKeeps

-----------------------------------------------------------------------------
(* A stream is confirmed.                                                  *)

LEMMA ConfirmKeeps ==
  ASSUME TypesInv, EndsInv, PeersKept, NEW c \in Conns, Confirms(c), Reached(st[c].id)
  PROVE  EndsInv'
<1> USE DEF EndsInv
<1>1. TypeOK /\ st[c] \in StreamStates /\ c \in LiveConns /\ st[c].id \in StreamIds
  BY DEF TypesInv, TunnelTypeOK, TypeOK, Confirms, IInv, LiveNamed
<1> DEFINE s == [st[c] EXCEPT !.awaiting = FALSE]
<1>2. /\ s.id = st[c].id /\ s.port = st[c].port /\ s.client = st[c].client
      /\ s.agent = st[c].agent /\ s.phase = st[c].phase /\ ~s.awaiting
  BY <1>1 DEF StreamStates
<1>3. \A d \in Conns : st'[d] = IF d = c THEN s ELSE st[d]
  BY <1>1 DEF Confirms, TypeOK
<1> HIDE DEF s
<1>4. StreamsGrow
  BY <1>2, <1>3 DEF StreamsGrow
<1>5. Numbered' = Numbered
  BY <1>2, <1>3 DEF Numbered
<1>6. IdsOnce'
  <2>1. \A d \in Conns : st'[d].id = st[d].id /\ st'[d].phase = st[d].phase
    BY <1>2, <1>3
  <2>2. nextStreamId' = nextStreamId /\ Numbered \subseteq Conns
    BY DEF Confirms, Numbered
  <2>. QED
    BY <1>5, <2>1, <2>2 DEF IdsOnce
<1>7. ConfirmedReached'
  BY <1>2, <1>3, <1>5 DEF ConfirmedReached, Numbered, IsAgent, Reached, PeersKept
<1>8. OpensOnce'
  <2>1. ClientsGet
    BY DEF Confirms, ClientsGet
  <2>. QED
    BY <1>4, <2>1, OpensKept DEF PeersKept
<1>9. AcksJoin'
  <2> SUFFICES ASSUME NEW a \in Agents, NEW f, f \in Range(toAgent'[a]),
                      f.type = "TCP_CONNECT_ACK"
               PROVE  Joinable(f.req, a, f.id)'
    BY DEF AcksJoin
  <2>1. toAgent[a] \in Seq(ToAgentFrames) /\ <<AckFrame(st[c].id, c)>> \in Seq(ToAgentFrames)
    BY <1>1 DEF AckFrame, ToAgentFrames, TypeOK
  <2>2. \/ toAgent'[a] = toAgent[a]
        \/ a = st[c].agent /\ toAgent'[a] = toAgent[a] \o <<AckFrame(st[c].id, c)>>
    BY <1>1 DEF Confirms, ToAgent, TypeOK
  <2>3. \/ f \in Range(toAgent[a])
        \/ a = st[c].agent /\ f \in Range(<<AckFrame(st[c].id, c)>>)
    BY <2>1, <2>2, RangeOfConcat
  <2>4. CASE f \in Range(toAgent[a])
    <3>1. f.id \in StreamIds /\ f.req \in Conns /\ Joinable(f.req, a, f.id)
      BY <1>1, <2>4, FramesNameStreams DEF AcksJoin
    <3>. QED
      BY <1>4, <3>1, IdsPositive DEF Joinable, StreamsGrow
  <2>5. CASE a = st[c].agent /\ f \in Range(<<AckFrame(st[c].id, c)>>)
    <3>1. f = AckFrame(st[c].id, c)
      BY <2>5 DEF Range
    <3>2. f.req = c /\ f.id = st[c].id
      BY <3>1 DEF AckFrame
    <3>. QED
      BY <1>2, <1>3, <2>5, <3>2 DEF Joinable
  <2>. QED
    BY <2>3, <2>4, <2>5
<1>. QED
  BY <1>4, <1>6, <1>7, <1>8, <1>9, GrowthKeeps

-----------------------------------------------------------------------------
(* The agent process.                                                      *)

LEMMA RangeOfTail ==
  ASSUME NEW T, NEW s \in Seq(T), s # <<>>
  PROVE  Range(Tail(s)) \subseteq Range(s)
<1> SUFFICES ASSUME NEW i \in DOMAIN Tail(s) PROVE Tail(s)[i] \in Range(s)
  BY DEF Range
<1>1. i + 1 \in DOMAIN s /\ Tail(s)[i] = s[i + 1]
  OBVIOUS
<1>. QED
  BY <1>1 DEF Range

TablesInv == EntriesJoin /\ PendingWait /\ JoinedConfirmed

\* Only its own tables and its applications' sockets change in the agent.
LEMMA AgentSide ==
  ASSUME TypesInv, EndsInv, TablesInv',
         UNCHANGED <<st, nextStreamId, toClient, clientVars>>,
         \A a \in Agents : Range(toAgent'[a]) \subseteq Range(toAgent[a])
  PROVE  EndsInv'
<1>0. clientVars' = clientVars => UNCHANGED <<clientStreams, local, fromClient>>
  BY DEF clientVars
<1>1. IdsOnce' /\ ConfirmedReached'
  BY <1>0 DEF EndsInv, IdsOnce, ConfirmedReached, Numbered, Reached, IsAgent
<1>2. OpensOnce' /\ Dialled'
  BY <1>0 DEF EndsInv, OpensOnce, Dialled, StreamOf
<1>3. OpenAcksReached' /\ HeldDialled'
  BY <1>0 DEF EndsInv, OpenAcksReached, HeldDialled, Reached
<1>4. AcksJoin'
  BY DEF EndsInv, AcksJoin, Joinable
<1>. QED
  BY <1>1, <1>2, <1>3, <1>4 DEF EndsInv, TablesInv

\* Sockets and tables as they are used below.
LEMMA AgentTables ==
  ASSUME TypesInv, EndsInv
  PROVE  /\ \A a \in Agents : pending[a] \in SUBSET Conns
         /\ \A a \in Agents, i \in StreamIds : entries[a][i] \in Conns \cup {NoConn}
         /\ \A a, b \in Agents, i, j \in StreamIds :
               entries[a][i] = entries[b][j] /\ entries[a][i] # NoConn => a = b /\ i = j
         /\ \A a, b \in Agents, i \in StreamIds : entries[b][i] # NoConn =>
               entries[b][i] \notin pending[a]
<1>1. /\ \A a \in Agents : pending[a] \in SUBSET Conns
      /\ \A a \in Agents, i \in StreamIds : entries[a][i] \in Conns \cup {NoConn}
  BY DEF TypesInv, TunnelTypeOK
<1>2. \A a, b \in Agents, i, j \in StreamIds :
         entries[a][i] = entries[b][j] /\ entries[a][i] # NoConn => a = b /\ i = j
  BY DEF EndsInv, EntriesJoin, Joinable
<1>3. \A a, b \in Agents, i \in StreamIds : entries[b][i] # NoConn =>
         entries[b][i] \notin pending[a]
  BY DEF EndsInv, EntriesJoin, PendingWait
<1>. QED
  BY <1>1, <1>2, <1>3

\* The agent takes a frame that is none of its business.
LEMMA SameTables ==
  ASSUME TypesInv, EndsInv, UNCHANGED <<pending, entries, app, st>>
  PROVE  TablesInv'
BY DEF EndsInv, TablesInv, EntriesJoin, PendingWait, JoinedConfirmed, Joinable

\* An application starts to wait.
LEMMA StartsWaiting ==
  ASSUME TypesInv, EndsInv, st' = st, NEW a \in Agents, NEW c \in Conns, app[c] = "none",
         entries' = entries,
         \/ pending' = [pending EXCEPT ![a] = @ \cup {c}] /\ app' = [app EXCEPT ![c] = "waiting"]
         \/ pending' = pending /\ app' = [app EXCEPT ![c] = "left"]
  PROVE  TablesInv'
<1>1. /\ \A b \in Agents : pending'[b] = IF b = a /\ app'[c] = "waiting"
                                       THEN pending[b] \cup {c} ELSE pending[b]
      /\ \A d \in Conns \ {c} : app'[d] = app[d]
      /\ app'[c] \in {"waiting", "left"}
  BY DEF TypesInv, TunnelTypeOK
<1>2. \A b \in Agents : c \notin pending[b]
  BY DEF EndsInv, PendingWait
<1>3. PendingWait'
  <2> SUFFICES ASSUME NEW b \in Agents, NEW d \in pending'[b]
               PROVE  app'[d] = "waiting" /\ \A e \in Agents : d \in pending'[e] => e = b
    BY DEF PendingWait
  <2>1. CASE d = c
    BY <1>1, <1>2, <2>1
  <2>2. CASE d # c
    <3>1. d \in pending[b] /\ d \in Conns /\ \A e \in Agents : d \in pending'[e] => d \in pending[e]
      <4>1. \A e \in Agents : d \in pending'[e] => d \in pending[e]
        BY <1>1, <2>2, ZenonT(40)
      <4>2. pending[b] \in SUBSET Conns
        BY AgentTables
      <4>. QED
        BY <4>1, <4>2
    <3>. QED
      BY <1>1, <2>2, <3>1 DEF EndsInv, PendingWait
  <2>. QED
    BY <2>1, <2>2
<1>4. EntriesJoin'
  BY <1>1, AgentTables DEF EndsInv, EntriesJoin, Joinable
<1>5. JoinedConfirmed'
  BY <1>1 DEF EndsInv, JoinedConfirmed, Joinable
<1>. QED
  BY <1>3, <1>4, <1>5 DEF TablesInv

\* An application stops waiting, joined or not.
LEMMA StopsWaiting ==
  ASSUME TypesInv, EndsInv, st' = st, NEW a \in Agents, NEW c \in pending[a],
         pending' = [pending EXCEPT ![a] = @ \ {c}],
         \/ app' = [app EXCEPT ![c] = "left"] /\ entries' = entries
         \/ \E i \in StreamIds : /\ Joinable(c, a, i)
                                 /\ entries' = [entries EXCEPT ![a][i] = c]
                                 /\ app' = [app EXCEPT ![c] = "joined"]
  PROVE  TablesInv'
<1>1. c \in Conns /\ app[c] = "waiting" /\ \A b \in Agents : c \in pending[b] => b = a
  BY AgentTables DEF EndsInv, PendingWait
<1>2. /\ \A b \in Agents : pending'[b] = IF b = a THEN pending[a] \ {c} ELSE pending[b]
      /\ \A d \in Conns \ {c} : app'[d] = app[d]
  BY <1>1 DEF TypesInv, TunnelTypeOK
<1>3. PendingWait'
  <2> SUFFICES ASSUME NEW b \in Agents, NEW d \in pending'[b]
               PROVE  app'[d] = "waiting" /\ \A e \in Agents : d \in pending'[e] => e = b
    BY DEF PendingWait
  <2>1. d # c /\ d \in pending[b] /\ d \in Conns /\ \A e \in Agents : d \in pending'[e] => d \in pending[e]
    BY <1>1, <1>2, AgentTables
  <2>. QED
    BY <1>2, <2>1 DEF EndsInv, PendingWait
<1>4. CASE app' = [app EXCEPT ![c] = "left"] /\ entries' = entries
  <2>1. app'[c] = "left"
    BY <1>1, <1>4 DEF TypesInv, TunnelTypeOK
  <2>2. EntriesJoin'
    <3> SUFFICES ASSUME NEW b \in Agents, NEW j \in StreamIds, entries[b][j] # NoConn
                 PROVE  Joinable(entries[b][j], b, j) /\ app'[entries[b][j]] = "joined"
      BY <1>4 DEF EntriesJoin, Joinable
    <3>1. Joinable(entries[b][j], b, j) /\ app[entries[b][j]] = "joined" /\ entries[b][j] \in Conns
      BY AgentTables DEF EndsInv, EntriesJoin
    <3>. QED
      BY <1>1, <1>2, <3>1
  <2>3. JoinedConfirmed'
    BY <1>2, <2>1 DEF EndsInv, JoinedConfirmed, Joinable
  <2>. QED
    BY <1>3, <2>2, <2>3 DEF TablesInv
<1>5. ASSUME NEW i \in StreamIds, Joinable(c, a, i), entries' = [entries EXCEPT ![a][i] = c],
             app' = [app EXCEPT ![c] = "joined"]
      PROVE  TablesInv'
  <2>1. /\ app'[c] = "joined"
        /\ \A b \in Agents, j \in StreamIds :
              entries'[b][j] = IF b = a /\ j = i THEN c ELSE entries[b][j]
    BY <1>1, <1>5 DEF TypesInv, TunnelTypeOK
  <2>2. EntriesJoin'
    <3> SUFFICES ASSUME NEW b \in Agents, NEW j \in StreamIds, NEW d, d = entries'[b][j],
                        d # NoConn
                 PROVE  Joinable(d, b, j)' /\ app'[d] = "joined"
      BY DEF EntriesJoin
    <3>1. CASE b = a /\ j = i
      BY <1>5, <2>1, <3>1 DEF Joinable
    <3>2. CASE ~(b = a /\ j = i)
      <4>1. d = entries[b][j] /\ d \in Conns
        BY <2>1, <3>2, AgentTables
      <4>2. Joinable(d, b, j) /\ app[d] = "joined"
        BY <4>1 DEF EndsInv, EntriesJoin
      <4>. QED
        BY <1>2, <2>1, <4>1, <4>2 DEF Joinable
    <3>. QED
      BY <3>1, <3>2
  <2>3. JoinedConfirmed'
    BY <1>2, <1>5 DEF EndsInv, JoinedConfirmed, Joinable
  <2>. QED
    BY <1>3, <2>2, <2>3 DEF TablesInv
<1>. QED
  BY <1>4, <1>5

\* A joined application ends.
LEMMA StopsBeingJoined ==
  ASSUME TypesInv, EndsInv, st' = st, NEW a \in Agents, NEW i \in StreamIds,
         entries[a][i] # NoConn, pending' = pending,
         entries' = [entries EXCEPT ![a][i] = NoConn],
         app' = [app EXCEPT ![entries[a][i]] = "closed"]
  PROVE  TablesInv'
<1> DEFINE c == entries[a][i]
<1>1. c \in Conns /\ \A b \in Agents : c \notin pending[b]
  BY AgentTables
<1>2. /\ \A d \in Conns : app'[d] = IF d = c THEN "closed" ELSE app[d]
      /\ \A b \in Agents, j \in StreamIds :
            entries'[b][j] = IF b = a /\ j = i THEN NoConn ELSE entries[b][j]
  <2>1. \A d \in Conns : app'[d] = IF d = c THEN "closed" ELSE app[d]
    BY <1>1 DEF TypesInv, TunnelTypeOK
  <2>2. \A b \in Agents, j \in StreamIds :
           entries'[b][j] = IF b = a /\ j = i THEN NoConn ELSE entries[b][j]
    BY DEF TypesInv, TunnelTypeOK
  <2>. QED
    BY <2>1, <2>2
<1>3. PendingWait'
  <2>1. \A b \in Agents : \A d \in pending[b] : app'[d] = app[d]
    BY <1>1, <1>2, AgentTables
  <2>. QED
    BY <2>1 DEF EndsInv, PendingWait
<1>4. EntriesJoin'
  <2> SUFFICES ASSUME NEW b \in Agents, NEW j \in StreamIds, NEW d, d = entries'[b][j], d # NoConn
               PROVE  Joinable(d, b, j)' /\ app'[d] = "joined"
    BY DEF EntriesJoin
  <2>1. d = entries[b][j] /\ d # c /\ d \in Conns
    BY <1>2, AgentTables
  <2>2. Joinable(d, b, j) /\ app[d] = "joined"
    BY <2>1 DEF EndsInv, EntriesJoin
  <2>. QED
    BY <1>2, <2>1, <2>2 DEF Joinable
<1>5. JoinedConfirmed'
  BY <1>2 DEF EndsInv, JoinedConfirmed, Joinable
<1>. QED
  BY <1>3, <1>4, <1>5 DEF TablesInv

\* All of an agent's applications end with its WebSocket.
LEMMA AllEnd ==
  ASSUME TypesInv, EndsInv, NEW a \in Agents, AgentEndCloses(a)
  PROVE  TablesInv'
<1> DEFINE joined == Range(entries[a]) \ {NoConn}
<1>1. /\ \A b \in Agents : pending'[b] = IF b = a THEN {} ELSE pending[b]
      /\ \A b \in Agents, j \in StreamIds : entries'[b][j] = IF b = a THEN NoConn ELSE entries[b][j]
      /\ \A c \in Conns : app'[c] = IF c \in pending[a] THEN "left"
                                    ELSE IF c \in joined THEN "closed" ELSE app[c]
      /\ st' = st
  BY DEF AgentEndCloses, relayVars, TypesInv, TunnelTypeOK
<1>2. \A c \in joined : \E j \in StreamIds : c = entries[a][j] /\ c # NoConn
  BY DEF Range, TypesInv, TunnelTypeOK
<1> HIDE DEF joined
<1>3. PendingWait'
  <2> SUFFICES ASSUME NEW b \in Agents, NEW d \in pending'[b]
               PROVE  app'[d] = "waiting" /\ \A e \in Agents : d \in pending'[e] => e = b
    BY DEF PendingWait
  <2>1. b # a /\ d \in pending[b] /\ d \in Conns
    BY <1>1, AgentTables
  <2>2. app[d] = "waiting" /\ d \notin pending[a] /\ \A e \in Agents : d \in pending[e] => e = b
    BY <2>1 DEF EndsInv, PendingWait
  <2>3. d \notin joined
    BY <1>2, <2>1, AgentTables
  <2>. QED
    BY <1>1, <2>1, <2>2, <2>3
<1>4. EntriesJoin'
  <2> SUFFICES ASSUME NEW b \in Agents, NEW j \in StreamIds, NEW d, d = entries'[b][j], d # NoConn
               PROVE  Joinable(d, b, j)' /\ app'[d] = "joined"
    BY DEF EntriesJoin
  <2>1. b # a /\ d = entries[b][j] /\ d \in Conns
    BY <1>1, AgentTables
  <2>2. Joinable(d, b, j) /\ app[d] = "joined" /\ d \notin pending[a]
    BY <2>1, AgentTables DEF EndsInv, EntriesJoin
  <2>3. d \notin joined
    BY <1>2, <2>1, AgentTables
  <2>. QED
    BY <1>1, <2>1, <2>2, <2>3 DEF Joinable
<1>5. JoinedConfirmed'
  BY <1>1 DEF EndsInv, JoinedConfirmed, Joinable
<1>. QED
  BY <1>3, <1>4, <1>5 DEF TablesInv

\* What the agent does with a frame of the relay.
LEMMA AgentAnswers ==
  ASSUME TypesInv, EndsInv, NEW a \in Agents, AgentReceives(a)
  PROVE  TablesInv'
<1>1. PICK f \in ToAgentFrames :
         /\ f \in Range(toAgent[a])
         /\ \/ f.type = "TCP_CONNECT_ACK" /\ ConnectAck(a, f)
            \/ f.type = "TCP_ABORT" /\ f.id = 0 /\ ConnectReject(a, f)
            \/ f.type \in EndTypes /\ f.id # 0 /\ StreamEnded(a, f.id)
            \/ f.type = "TCP_DATA" /\ UNCHANGED <<pending, entries, app>>
  <2>1. toAgent[a] \in Seq(ToAgentFrames) /\ toAgent[a] # <<>>
    BY DEF AgentReceives, ReceivedByAgent, TypesInv, TunnelTypeOK, TypeOK
  <2>2. Head(toAgent[a]) \in ToAgentFrames /\ Head(toAgent[a]) \in Range(toAgent[a])
    BY <2>1 DEF Range
  <2>. QED
    BY <2>2 DEF AgentReceives
<1>2. st' = st
  BY DEF AgentReceives, ReceivedByAgent, streamVars
<1>3. CASE UNCHANGED <<pending, entries, app>>
  BY <1>2, <1>3, SameTables
<1>4. CASE f.type = "TCP_CONNECT_ACK" /\ ConnectAck(a, f) /\ f.req \in pending[a]
  <2>1. f.id \in StreamIds /\ Joinable(f.req, a, f.id)
    BY <1>1, <1>4, AgentFrameKinds DEF EndsInv, AcksJoin
  <2>. QED
    BY <1>2, <1>4, <2>1, StopsWaiting DEF ConnectAck
<1>5. CASE ConnectReject(a, f) /\ f.req \in pending[a]
  BY <1>2, <1>5, StopsWaiting DEF ConnectReject
<1>6. CASE f.type \in EndTypes /\ f.id # 0 /\ StreamEnded(a, f.id) /\ entries[a][f.id] # NoConn
  <2>1. f.id \in StreamIds
    BY <1>6, AgentFrameKinds
  <2>. QED
    BY <1>2, <1>6, <2>1, StopsBeingJoined DEF StreamEnded
<1>. QED
  BY <1>1, <1>3, <1>4, <1>5, <1>6 DEF ConnectAck, ConnectReject, StreamEnded

LEMMA AgentActions ==
  ASSUME TypesInv, EndsInv, NEW a \in Agents,
         \/ \E c \in Conns, r \in Routes : AppConnects(a, c, r)
         \/ \E c \in Conns : AppEndsWaiting(a, c)
         \/ \E i \in StreamIds, type \in EndTypes : AppEndsJoined(a, i, type)
         \/ \E i \in StreamIds : AppSendsData(a, i)
         \/ AgentReceives(a) \/ AgentEndCloses(a)
  PROVE  EndsInv'
<1>1. UNCHANGED <<st, nextStreamId, toClient, clientVars>>
  BY DEF AppConnects, AppEndsWaiting, AppEndsJoined, AppSendsData, AgentReceives,
         AgentEndCloses, ReceivedByAgent, relayVars, streamVars
<1>2. \A b \in Agents : Range(toAgent'[b]) \subseteq Range(toAgent[b])
  <2>1. CASE AgentReceives(a)
    <3>1. toAgent \in [Agents -> Seq(ToAgentFrames)]
      BY DEF TypesInv, TunnelTypeOK, TypeOK
    <3>2. \A b \in Agents : \/ toAgent'[b] = toAgent[b]
                            \/ toAgent[b] # <<>> /\ toAgent'[b] = Tail(toAgent[b])
      BY <2>1, <3>1 DEF AgentReceives, ReceivedByAgent
    <3>. QED
      BY <3>1, <3>2, RangeOfTail
  <2>2. CASE toAgent' = toAgent
    BY <2>2
  <2>. QED
    BY <2>1, <2>2
       DEF AppConnects, AppEndsWaiting, AppEndsJoined, AppSendsData, AgentEndCloses, relayVars
<1>3. TablesInv'
  <2>1. ASSUME NEW c \in Conns, NEW r \in Routes, AppConnects(a, c, r) PROVE TablesInv'
    BY <1>1, <2>1, StartsWaiting DEF AppConnects
  <2>2. ASSUME NEW c \in Conns, AppEndsWaiting(a, c) PROVE TablesInv'
    BY <1>1, <2>2, StopsWaiting DEF AppEndsWaiting
  <2>3. ASSUME NEW i \in StreamIds, NEW type \in EndTypes, AppEndsJoined(a, i, type)
        PROVE  TablesInv'
    BY <1>1, <2>3, StopsBeingJoined DEF AppEndsJoined
  <2>4. ASSUME NEW i \in StreamIds, AppSendsData(a, i) PROVE TablesInv'
    BY <1>1, <2>4, SameTables DEF AppSendsData
  <2>. QED
    BY <2>1, <2>2, <2>3, <2>4, AgentAnswers, AllEnd
<1>. QED
  BY <1>1, <1>2, <1>3, AgentSide

-----------------------------------------------------------------------------
(* The client process.                                                     *)

\* a queue of the relay stays, or loses its first frame
QueuesShrink ==
    \A k \in Clients : \/ toClient'[k] = toClient[k]
                       \/ toClient[k] # <<>> /\ toClient'[k] = Tail(toClient[k])

\* local sockets go on; none is dialled, and none forgets what it was dialled for
LocalsGoOn ==
    \A i \in StreamIds :
        /\ (local'[i].state = "none") = (local[i].state = "none")
        /\ local'[i].port = local[i].port /\ local'[i].client = local[i].client
        /\ Reached(i) => local'[i].state \in {"open", "closed"}

LEMMA ClientSide ==
  ASSUME TypesInv, EndsInv, UNCHANGED <<st, nextStreamId, toAgent, pending, entries, app>>,
         OpensOnce', Dialled', OpenAcksReached', ConfirmedReached', HeldDialled'
  PROVE  EndsInv'
<1>1. IdsOnce'
  BY DEF EndsInv, IdsOnce, Numbered
<1>2. AcksJoin' /\ EntriesJoin' /\ PendingWait' /\ JoinedConfirmed'
  BY DEF EndsInv, AcksJoin, EntriesJoin, PendingWait, JoinedConfirmed, Joinable
<1>. QED
  BY <1>1, <1>2 DEF EndsInv

\* Where a frame is after the first one has been taken, it was before.
LEMMA ShrunkQueue ==
  ASSUME TypeOK, QueuesShrink, NEW k \in Clients
  PROVE  \/ \A m \in DOMAIN toClient'[k] : m \in DOMAIN toClient[k] /\ toClient'[k][m] = toClient[k][m]
         \/ \A m \in DOMAIN toClient'[k] :
               m \in Nat /\ m + 1 \in DOMAIN toClient[k] /\ toClient'[k][m] = toClient[k][m + 1]
<1>1. toClient[k] \in Seq(ToClientFrames)
  BY DEF TypeOK
<1>2. CASE toClient'[k] = toClient[k]
  BY <1>2
<1>3. CASE toClient[k] # <<>> /\ toClient'[k] = Tail(toClient[k])
  BY <1>1, <1>3
<1>. QED
  BY <1>2, <1>3 DEF QueuesShrink

LEMMA ShrunkOpens ==
  ASSUME TypesInv, OpensOnce, QueuesShrink, st' = st,
         \A k \in Clients : \A m \in DOMAIN toClient'[k] :
            toClient'[k][m].type = "TCP_OPEN" => local'[toClient'[k][m].id].state = "none"
  PROVE  OpensOnce'
<1>1. TypeOK
  BY DEF TypesInv, TunnelTypeOK
<1>2. ASSUME NEW k \in Clients, NEW m \in DOMAIN toClient'[k], NEW f, f = toClient'[k][m],
             f.type = "TCP_OPEN"
      PROVE  /\ \E c \in Conns : StreamOf(c, f.id, f.port, k)
             /\ \A n \in DOMAIN toClient'[k] :
                   toClient'[k][n].type = "TCP_OPEN" /\ toClient'[k][n].id = f.id => n = m
  <2>1. CASE \A n \in DOMAIN toClient'[k] :
                n \in DOMAIN toClient[k] /\ toClient'[k][n] = toClient[k][n]
    BY <1>2, <2>1 DEF OpensOnce
  <2>2. CASE \A n \in DOMAIN toClient'[k] :
                n \in Nat /\ n + 1 \in DOMAIN toClient[k] /\ toClient'[k][n] = toClient[k][n + 1]
    <3>1. m + 1 \in DOMAIN toClient[k] /\ f = toClient[k][m + 1] /\ m \in Nat
      BY <1>2, <2>2
    <3>2. \E c \in Conns : StreamOf(c, f.id, f.port, k)
      BY <1>2, <3>1 DEF OpensOnce
    <3>3. ASSUME NEW n \in DOMAIN toClient'[k], toClient'[k][n].type = "TCP_OPEN",
                 toClient'[k][n].id = f.id
          PROVE  n = m
      <4>1. n \in Nat /\ n + 1 \in DOMAIN toClient[k] /\ toClient'[k][n] = toClient[k][n + 1]
        BY <2>2
      <4>2. n + 1 = m + 1
        BY <1>2, <3>1, <3>3, <4>1 DEF OpensOnce
      <4>. QED
        BY <3>1, <4>1, <4>2
    <3>. QED
      BY <3>2, <3>3
  <2>. QED
    BY <1>1, <2>1, <2>2, ShrunkQueue
<1>. QED
  BY <1>2 DEF OpensOnce, StreamOf

\* What a client has sent names a stream.
LEMMA SentNameStreams ==
  ASSUME TypesInv, NEW k \in Clients, NEW f \in Range(fromClient[k])
  PROVE  f.id \in StreamIds
<1>1. fromClient[k] \in Seq(FromClientFrames)
  BY DEF TypesInv, TunnelTypeOK
<1>2. f \in FromClientFrames
  BY <1>1 DEF Range
<1>. QED
  BY <1>2 DEF FromClientFrames

\* A step of a client that dials nothing.
LEMMA ClientGoesOn ==
  ASSUME TypesInv, TypesInv', EndsInv,
         UNCHANGED <<st, nextStreamId, toAgent, pending, entries, app>>,
         QueuesShrink, LocalsGoOn,
         \A k \in Clients : clientStreams'[k] \subseteq clientStreams[k],
         \A k \in Clients : \A f \in Range(fromClient'[k]) :
            f.type = "TCP_OPEN_ACK" => f \in Range(fromClient[k]) \/ Reached(f.id)'
  PROVE  EndsInv'
<1>1. TypeOK
  BY DEF TypesInv, TunnelTypeOK
<1>2. OpensOnce'
  <2>1. ASSUME NEW k \in Clients, NEW m \in DOMAIN toClient'[k], toClient'[k][m].type = "TCP_OPEN"
        PROVE  local'[toClient'[k][m].id].state = "none"
    <3>1. PICK n \in DOMAIN toClient[k] : toClient'[k][m] = toClient[k][n]
      BY <1>1, ShrunkQueue
    <3>2. toClient[k][n].id \in StreamIds /\ local[toClient[k][n].id].state = "none"
      BY <1>1, <2>1, <3>1, FramesNameStreams DEF EndsInv, OpensOnce
    <3>. QED
      BY <3>1, <3>2 DEF LocalsGoOn
  <2>. QED
    BY <2>1, ShrunkOpens DEF EndsInv
<1>3. Dialled' /\ HeldDialled'
  <2>1. \A k \in Clients : clientStreams[k] \subseteq StreamIds
    BY DEF TypesInv, TunnelTypeOK
  <2>. QED
    BY <2>1 DEF EndsInv, Dialled, HeldDialled, StreamOf, LocalsGoOn
<1>4. ConfirmedReached'
  <2>1. \A c \in Numbered : st[c].id \in StreamIds
    BY <1>1 DEF Numbered, TypeOK, StreamStates
  <2>. QED
    BY <2>1 DEF EndsInv, ConfirmedReached, Numbered, IsAgent, LocalsGoOn, Reached
<1>5. OpenAcksReached'
  <2> SUFFICES ASSUME NEW k \in Clients, NEW f, f \in Range(fromClient'[k]),
                      f.type = "TCP_OPEN_ACK", f \in Range(fromClient[k])
               PROVE  Reached(f.id)'
    BY DEF OpenAcksReached
  <2>1. f.id \in StreamIds /\ Reached(f.id)
    BY SentNameStreams DEF EndsInv, OpenAcksReached
  <2>. QED
    BY <2>1 DEF LocalsGoOn, Reached
<1>. QED
  BY <1>2, <1>3, <1>4, <1>5, ClientSide

\* What a client sends is added to its queue.
LEMMA SentByClient ==
  ASSUME TypesInv, NEW k \in Clients, NEW g \in FromClientFrames, fromClient' = ClientSends(k, g),
         NEW j \in Clients, NEW f \in Range(fromClient'[j])
  PROVE  f \in Range(fromClient[j]) \/ f = g
<1>1. fromClient[j] \in Seq(FromClientFrames)
  BY DEF TypesInv, TunnelTypeOK
<1>2. fromClient'[j] = fromClient[j] \/ fromClient'[j] = Append(fromClient[j], g)
  BY DEF ClientSends, TypesInv, TunnelTypeOK
<1>3. CASE fromClient'[j] = fromClient[j]
  BY <1>3
<1>4. CASE fromClient'[j] = Append(fromClient[j], g)
  <2>1. PICK m \in DOMAIN Append(fromClient[j], g) : f = Append(fromClient[j], g)[m]
    BY <1>4 DEF Range
  <2>2. (m \in DOMAIN fromClient[j] /\ f = fromClient[j][m]) \/ f = g
    BY <1>1, <2>1
  <2>. QED
    BY <2>2 DEF Range
<1>. QED
  BY <1>2, <1>3, <1>4

\* Local sockets whose state changes, one or many.
LEMMA LocalsMove ==
  ASSUME TypesInv,
         \A i \in StreamIds :
            \/ local'[i] = local[i]
            \/ /\ local[i].state # "none"
               /\ \/ local'[i] = [local[i] EXCEPT !.state = "closed"]
                  \/ local[i].state = "dialing" /\ local'[i] = [local[i] EXCEPT !.state = "open"]
  PROVE  LocalsGoOn
<1> SUFFICES ASSUME NEW i \in StreamIds
             PROVE  /\ (local'[i].state = "none") = (local[i].state = "none")
                    /\ local'[i].port = local[i].port /\ local'[i].client = local[i].client
                    /\ Reached(i) => local'[i].state \in {"open", "closed"}
  BY DEF LocalsGoOn
<1>1. local[i] \in LocalSockets
  BY DEF TypesInv, TunnelTypeOK
<1>2. \A s \in LocalSockets, v \in {"open", "closed"} :
         /\ [s EXCEPT !.state = v].state = v
         /\ [s EXCEPT !.state = v].port = s.port
         /\ [s EXCEPT !.state = v].client = s.client
  BY DEF LocalSockets
<1>. QED
  BY <1>1, <1>2, ZenonT(40) DEF Reached

\* handleTcpOpen dials: the TCP_OPEN it takes was the only one of its stream.
LEMMA Dials ==
  ASSUME TypesInv, TypesInv', EndsInv, NEW k \in Clients, NEW f,
         UNCHANGED <<st, nextStreamId, toAgent, pending, entries, app, fromClient>>,
         toClient[k] # <<>>, toClient' = [toClient EXCEPT ![k] = Tail(@)], f = Head(toClient[k]),
         f.type = "TCP_OPEN",
         clientStreams' = [clientStreams EXCEPT ![k] = @ \cup {f.id}],
         local' = [local EXCEPT ![f.id] = [state |-> "dialing", port |-> f.port, client |-> k]]
  PROVE  EndsInv'
<1>1. TypeOK /\ toClient \in [Clients -> Seq(ToClientFrames)]
  BY DEF TypesInv, TunnelTypeOK, TypeOK
<1>2. toClient[k] \in Seq(ToClientFrames) /\ 1 \in DOMAIN toClient[k] /\ f = toClient[k][1]
  BY <1>1
<1>3. f.id \in StreamIds /\ local[f.id].state = "none"
  BY <1>1, <1>2, FramesNameStreams DEF EndsInv, OpensOnce
<1>4. PICK c \in Conns : StreamOf(c, f.id, f.port, k)
  BY <1>2 DEF EndsInv, OpensOnce
<1>5. \A i \in StreamIds : local'[i] = IF i = f.id
                                     THEN [state |-> "dialing", port |-> f.port, client |-> k]
                                     ELSE local[i]
  BY <1>3 DEF TypesInv, TunnelTypeOK
<1>6. OpensOnce'
  <2>1. QueuesShrink
    BY <1>1 DEF QueuesShrink
  <2>2. ASSUME NEW j \in Clients, NEW m \in DOMAIN toClient'[j], NEW g, g = toClient'[j][m],
               g.type = "TCP_OPEN"
        PROVE  local'[g.id].state = "none"
    <3>1. CASE j # k
      <4>1. toClient'[j] = toClient[j]
        BY <1>1, <3>1
      <4>2. PICK d \in Conns : StreamOf(d, g.id, g.port, j)
        BY <2>2, <4>1 DEF EndsInv, OpensOnce
      <4>3. local[g.id].state = "none" /\ g.id \in StreamIds
        BY <1>1, <2>2, <4>1, FramesNameStreams DEF EndsInv, OpensOnce
      <4>4. g.id # f.id
        BY <1>3, <1>4, <3>1, <4>2, IdsPositive DEF StreamOf, EndsInv, IdsOnce, Numbered
      <4>. QED
        BY <1>5, <4>3, <4>4
    <3>2. CASE j = k
      <4>1. toClient'[k] = Tail(toClient[k])
        BY <1>1
      <4>2. m \in Nat \ {0} /\ m + 1 \in DOMAIN toClient[k] /\ g = toClient[k][m + 1]
        <5>1. \A q \in Seq(ToClientFrames) : q # <<>> => \A n \in DOMAIN Tail(q) :
                 n \in Nat \ {0} /\ n + 1 \in DOMAIN q /\ Tail(q)[n] = q[n + 1]
          OBVIOUS
        <5>2. m \in DOMAIN Tail(toClient[k]) /\ g = Tail(toClient[k])[m]
          BY <2>2, <3>2, <4>1
        <5>. QED
          BY <1>2, <5>1, <5>2
      <4>3. local[g.id].state = "none" /\ g.id \in StreamIds
        BY <1>1, <2>2, <4>2, FramesNameStreams DEF EndsInv, OpensOnce
      <4>4. g.id # f.id
        <5> SUFFICES ASSUME g.id = f.id PROVE FALSE
          OBVIOUS
        <5>1. m + 1 = 1
          BY <1>2, <2>2, <4>2 DEF EndsInv, OpensOnce
        <5>. QED
          BY <4>2, <5>1
      <4>. QED
        BY <1>5, <4>3, <4>4
    <3>. QED
      BY <3>1, <3>2
  <2>. QED
    BY <2>1, <2>2, ShrunkOpens DEF EndsInv
<1>7. Dialled'
  <2> SUFFICES ASSUME NEW i \in StreamIds, local'[i].state # "none"
               PROVE  \E d \in Conns : StreamOf(d, i, local'[i].port, local'[i].client)
    BY DEF Dialled, StreamOf
  <2>1. CASE i = f.id
    BY <1>4, <1>5, <2>1
  <2>2. CASE i # f.id
    BY <1>5, <2>2 DEF EndsInv, Dialled
  <2>. QED
    BY <2>1, <2>2
<1>8. \A i \in StreamIds : Reached(i) => Reached(i)'
  BY <1>3, <1>5 DEF Reached
<1>9. ConfirmedReached'
  <2>1. \A d \in Numbered : st[d].id \in StreamIds
    BY <1>1 DEF Numbered, TypeOK, StreamStates
  <2>2. Numbered' = Numbered /\ \A d \in Conns : st'[d] = st[d] /\ IsAgent(d)' = IsAgent(d)
    BY DEF Numbered, IsAgent
  <2>3. \A d \in Numbered : d \in Conns
    BY DEF Numbered
  <2>. QED
    BY <1>8, <2>1, <2>2, <2>3 DEF EndsInv, ConfirmedReached, Reached
<1>10. OpenAcksReached'
  <2>1. \A j \in Clients : \A g \in Range(fromClient[j]) : g.id \in StreamIds
    BY SentNameStreams
  <2>. QED
    BY <1>8, <2>1 DEF EndsInv, OpenAcksReached, Reached
<1>11. HeldDialled'
  <2> SUFFICES ASSUME NEW j \in Clients, NEW i \in clientStreams'[j]
               PROVE  local'[i].state # "none"
    BY DEF HeldDialled
  <2>1. i \in StreamIds /\ (i = f.id \/ i \in clientStreams[j])
    BY <1>3 DEF TypesInv, TunnelTypeOK
  <2>. QED
    BY <1>5, <2>1 DEF EndsInv, HeldDialled
<1>. QED
  BY <1>6, <1>7, <1>9, <1>10, <1>11, ClientSide

LEMMA EntryDropped ==
  ASSUME TypesInv, NEW k \in Clients, NEW i, clientStreams' = [clientStreams EXCEPT ![k] = @ \ {i}]
  PROVE  \A j \in Clients : clientStreams'[j] \subseteq clientStreams[j]
<1>1. \A j \in Clients :
         clientStreams'[j] = IF j = k THEN clientStreams[k] \ {i} ELSE clientStreams[j]
  BY DEF TypesInv, TunnelTypeOK
<1>. QED
  BY <1>1

\* What the client does with a frame of the relay.
LEMMA ClientAnswers ==
  ASSUME TypesInv, TypesInv', EndsInv, NEW k \in Clients, ClientReceives(k)
  PROVE  EndsInv'
<1>1. /\ UNCHANGED <<st, nextStreamId, toAgent, pending, entries, app>>
      /\ toClient[k] # <<>> /\ toClient' = [toClient EXCEPT ![k] = Tail(@)]
  BY DEF ClientReceives, ReceivedByClient, streamVars, agentVars
<1>2. TunnelTypeOK /\ QueuesShrink
  BY <1>1 DEF TypesInv, TunnelTypeOK, TypeOK, QueuesShrink
<1>3. PICK f : f = Head(toClient[k])
  OBVIOUS
<1>4. f \in ToClientFrames /\ f.id \in StreamIds
  BY <1>1, <1>2, <1>3, TakenFrames, ClientFrameKinds
<1>5. CASE f.type = "TCP_OPEN" /\ TcpOpen(k, f)
  <2>1. CASE k \notin HostAllowedBy \/ Cardinality(clientStreams[k]) >= MaxClientStreams
    <3>1. /\ fromClient' = ClientSends(k, StreamFrame("TCP_ABORT", f.id))
          /\ clientStreams' = clientStreams /\ local' = local
      BY <1>5, <2>1 DEF TcpOpen
    <3>2. StreamFrame("TCP_ABORT", f.id) \in FromClientFrames
          /\ StreamFrame("TCP_ABORT", f.id).type # "TCP_OPEN_ACK"
      BY <1>4, PeerFrames DEF EndTypes, StreamFrame
    <3>3. \A j \in Clients : \A g \in Range(fromClient'[j]) :
             g.type = "TCP_OPEN_ACK" => g \in Range(fromClient[j])
      BY <3>1, <3>2, SentByClient
    <3>4. LocalsGoOn
      BY <3>1, LocalsMove
    <3>. QED
      BY <1>1, <1>2, <3>1, <3>3, <3>4, ClientGoesOn
  <2>2. CASE ~(k \notin HostAllowedBy \/ Cardinality(clientStreams[k]) >= MaxClientStreams)
    BY <1>1, <1>3, <1>5, <2>2, Dials DEF TcpOpen
  <2>. QED
    BY <2>1, <2>2
<1>6. CASE /\ UNCHANGED fromClient
           /\ \/ f.id \in clientStreams[k] /\ CleanupTcpState(k, f.id)
              \/ UNCHANGED <<clientStreams, local>>
  <2>1. LocalsGoOn
    <3>1. CASE f.id \in clientStreams[k] /\ CleanupTcpState(k, f.id)
      <4>1. local[f.id].state # "none"
        BY <3>1 DEF EndsInv, HeldDialled
      <4>2. \A i \in StreamIds : local'[i] = IF i = f.id THEN [local[i] EXCEPT !.state = "closed"]
                                             ELSE local[i]
        BY <3>1 DEF CleanupTcpState, TypesInv, TunnelTypeOK
      <4>. QED
        BY <4>1, <4>2, LocalsMove
    <3>2. CASE UNCHANGED <<clientStreams, local>>
      BY <3>2, LocalsMove
    <3>. QED
      BY <1>6, <3>1, <3>2
  <2>2. \A j \in Clients : clientStreams'[j] \subseteq clientStreams[j]
    BY <1>6, EntryDropped DEF CleanupTcpState
  <2>. QED
    BY <1>1, <1>2, <1>6, <2>1, <2>2, ClientGoesOn
<1>. QED
  BY <1>3, <1>5, <1>6 DEF ClientReceives

LEMMA ClientActions ==
  ASSUME TypesInv, TypesInv', EndsInv, NEW k \in Clients, NEW i \in StreamIds,
         \/ LocalConnects(k, i)
         \/ \E type \in EndTypes : LocalEnds(k, i, type)
         \/ LocalSendsData(k, i) \/ OrphanEnds(k, i) \/ ClientStreamIdle(k, i)
         \/ ClientEndCloses(k)
  PROVE  EndsInv'
<1>1. /\ UNCHANGED <<st, nextStreamId, toAgent, pending, entries, app>>
      /\ QueuesShrink
  BY DEF LocalConnects, LocalEnds, LocalSendsData, OrphanEnds, ClientStreamIdle, ClientEndCloses,
         relayVars, agentVars, QueuesShrink
<1>2. \A j \in Clients : clientStreams'[j] \subseteq clientStreams[j]
  <2>1. CASE ClientEndCloses(k)
    <3>1. clientStreams' = [clientStreams EXCEPT ![k] = {}]
      BY <2>1 DEF ClientEndCloses
    <3>. QED
      BY <3>1 DEF TypesInv, TunnelTypeOK
  <2>2. CASE clientStreams' = [clientStreams EXCEPT ![k] = @ \ {i}]
    BY <2>2, EntryDropped
  <2>3. CASE clientStreams' = clientStreams
    BY <2>3
  <2>. QED
    BY <2>1, <2>2, <2>3
       DEF LocalConnects, LocalEnds, LocalSendsData, OrphanEnds, ClientStreamIdle, CleanupTcpState
<1>3. LocalsGoOn
  <2>1. CASE ClientEndCloses(k)
    <3>1. \A j \in StreamIds :
             local'[j] = IF j \in clientStreams[k] THEN [local[j] EXCEPT !.state = "closed"]
                         ELSE local[j]
      BY <2>1 DEF ClientEndCloses
    <3>2. \A j \in clientStreams[k] : local[j].state # "none"
      BY DEF EndsInv, HeldDialled
    <3>. QED
      BY <3>1, <3>2, LocalsMove
  <2>2. CASE LocalConnects(k, i)
    <3>1. \A j \in StreamIds : local'[j] = IF j = i THEN [local[j] EXCEPT !.state = "open"]
                                           ELSE local[j]
      BY <2>2 DEF LocalConnects, TypesInv, TunnelTypeOK
    <3>. QED
      BY <2>2, <3>1, LocalsMove DEF LocalConnects
  <2>3. CASE OrphanEnds(k, i) \/ \E type \in EndTypes : LocalEnds(k, i, type)
    <3>1. \A j \in StreamIds : local'[j] = IF j = i THEN [local[j] EXCEPT !.state = "closed"]
                                           ELSE local[j]
      BY <2>3 DEF LocalEnds, OrphanEnds, CleanupTcpState, TypesInv, TunnelTypeOK
    <3>2. local[i].state # "none"
      BY <2>3 DEF LocalEnds, OrphanEnds
    <3>. QED
      BY <3>1, <3>2, LocalsMove
  <2>4. CASE local' = local
    BY <2>4, LocalsMove
  <2>. QED
    BY <2>1, <2>2, <2>3, <2>4 DEF LocalSendsData, ClientStreamIdle
<1>4. ASSUME NEW j \in Clients, NEW f, f \in Range(fromClient'[j]), f.type = "TCP_OPEN_ACK"
      PROVE  f \in Range(fromClient[j]) \/ Reached(f.id)'
  <2>1. CASE LocalConnects(k, i)
    <3>1. StreamFrame("TCP_OPEN_ACK", i) \in FromClientFrames /\ StreamFrame("TCP_OPEN_ACK", i).id = i
      BY PeerFrames DEF StreamFrame
    <3>2. f \in Range(fromClient[j]) \/ f = StreamFrame("TCP_OPEN_ACK", i)
      BY <1>4, <2>1, <3>1, SentByClient DEF LocalConnects
    <3>3. local'[i].state = "open"
      BY <2>1 DEF LocalConnects, TypesInv, TunnelTypeOK, LocalSockets
    <3>. QED
      BY <3>1, <3>2, <3>3 DEF Reached
  <2>2. CASE fromClient' = fromClient
    BY <1>4, <2>2
  <2>3. ASSUME NEW t \in {"TCP_DATA", "RES_ABORT"} \cup EndTypes,
               fromClient' = ClientSends(k, StreamFrame(t, i))
        PROVE  f \in Range(fromClient[j])
    <3>1. StreamFrame(t, i) \in FromClientFrames /\ StreamFrame(t, i).type # "TCP_OPEN_ACK"
      BY PeerFrames DEF StreamFrame, EndTypes
    <3>. QED
      BY <1>4, <2>3, <3>1, SentByClient
  <2>. QED
    BY <2>1, <2>2, <2>3
       DEF LocalEnds, LocalSendsData, OrphanEnds, ClientStreamIdle, ClientEndCloses, DataFrame
<1>. QED
  BY <1>1, <1>2, <1>3, <1>4, ClientGoesOn

-----------------------------------------------------------------------------
(* Every step is one of an agent, of a client, or of the relay.            *)

AgentMoves(a) ==
    \/ \E c \in Conns, r \in Routes : AppConnects(a, c, r)
    \/ \E c \in Conns : AppEndsWaiting(a, c)
    \/ \E i \in StreamIds, type \in EndTypes : AppEndsJoined(a, i, type)
    \/ \E i \in StreamIds : AppSendsData(a, i)
    \/ AgentReceives(a) \/ AgentEndCloses(a)

ClientMoves(k) ==
    \/ ClientReceives(k)
    \/ \E i \in StreamIds :
          \/ LocalConnects(k, i)
          \/ \E type \in EndTypes : LocalEnds(k, i, type)
          \/ LocalSendsData(k, i) \/ OrphanEnds(k, i) \/ ClientStreamIdle(k, i)
    \/ ClientEndCloses(k)

RelayMoves ==
    /\ PeersKept
    /\ \/ RelayQuiet
       \/ \E c, p, k, a : Started(c, p, k, a)
       \/ \E c \in Conns : Confirms(c) /\ Reached(st[c].id)

LEMMA AgentFrameTaken ==
  ASSUME TypesInv, EndsInv, NEW a \in Agents, RelayTakesAgentFrame(a)
  PROVE  RelayMoves
<1>1. PeersKept
  BY DEF RelayTakesAgentFrame, PeersKept, clientVars
<1>2. PICK f \in FromAgentFrames \cup ConnectFrames :
         \/ f.type = "TCP_CONNECT" /\ HandleTcpConnect(a, f.req, f.port, f.target)
         \/ f.type # "TCP_CONNECT" /\ HandleAgentFrame(a, f)
  BY TakenFrames DEF RelayTakesAgentFrame, TypesInv
<1>3. CASE f.type = "TCP_CONNECT" /\ HandleTcpConnect(a, f.req, f.port, f.target)
  <2>1. f \in ConnectFrames
    BY <1>2, <1>3 DEF FromAgentFrames
  <2>2. PICK c \in Conns, r \in Routes : f = ConnectFrame(c, r)
    BY <2>1 DEF ConnectFrames
  <2>3. f.req \in Conns /\ f.port \in Ports
    BY <2>2, TunnelAssumption DEF ConnectFrame
  <2>. QED
    BY <1>1, <1>3, <2>3, ConnectKinds DEF RelayMoves, TypesInv
<1>4. CASE f.type # "TCP_CONNECT" /\ HandleAgentFrame(a, f)
  <2>1. f \in FromAgentFrames
    BY <1>2, <1>4 DEF ConnectFrames, ConnectFrame
  <2>. QED
    BY <1>1, <1>4, <2>1, AgentFrameKeeps DEF RelayMoves, TypesInv
<1>. QED
  BY <1>2, <1>3, <1>4

LEMMA ClientFrameTaken ==
  ASSUME TypesInv, EndsInv, NEW k \in Clients, RelayTakesClientFrame(k)
  PROVE  RelayMoves
<1>1. fromClient \in [Clients -> Seq(FromClientFrames)] /\ fromClient[k] # <<>>
  BY DEF RelayTakesClientFrame, TypesInv, TunnelTypeOK
<1>2. PeersKept
  <2>1. UNCHANGED <<pending, entries, app, clientStreams, local>>
    BY DEF RelayTakesClientFrame, agentVars
  <2>2. \A j \in Clients : fromClient'[j] = fromClient[j] \/ (j = k /\ fromClient'[j] = Tail(fromClient[j]))
    BY <1>1 DEF RelayTakesClientFrame
  <2>3. \A j \in Clients : Range(fromClient'[j]) \subseteq Range(fromClient[j])
    BY <1>1, <2>2, RangeOfTail
  <2>. QED
    BY <2>1, <2>3 DEF PeersKept
<1>3. PICK f \in FromClientFrames : f \in Range(fromClient[k]) /\ HandleClientFrame(k, f)
  <2>1. \A q \in Seq(FromClientFrames) : q # <<>> => Head(q) \in FromClientFrames /\ Head(q) \in Range(q)
    BY DEF Range
  <2>2. fromClient[k] \in Seq(FromClientFrames)
    BY <1>1
  <2>3. HandleClientFrame(k, Head(fromClient[k]))
    BY DEF RelayTakesClientFrame
  <2>. QED
    BY <1>1, <2>1, <2>2, <2>3
<1>4. CASE RelayQuiet
  BY <1>2, <1>4 DEF RelayMoves
<1>5. ASSUME NEW c \in Conns, Confirms(c), st[c].id = f.id, f.type = "TCP_OPEN_ACK"
      PROVE  RelayMoves
  <2>1. Reached(st[c].id)
    BY <1>3, <1>5 DEF EndsInv, OpenAcksReached
  <2>. QED
    BY <1>2, <1>5, <2>1 DEF RelayMoves
<1>. QED
  BY <1>3, <1>4, <1>5, ClientFrameKindsOfStep DEF TypesInv

\* The relay's other steps.
LEMMA RelayOwnSteps ==
  ASSUME TypesInv, EndsInv,
         \/ \E a \in Agents : AgentOpens(a) \/ RelayClosesAgent(a)
         \/ \E k \in Clients : \/ \E t \in TunnelIds \cup {NoTunnelId} : ClientOpens(k, t)
                               \/ RelayClosesClient(k)
         \/ \E c \in Conns : DirectEvent(c) \/ RelayStreamIdle(c)
         \/ RelayEndClosing
  PROVE  RelayMoves
<1>0. IInv
  BY DEF TypesInv
<1>1. ASSUME NEW a \in Agents, AgentOpens(a) PROVE RelayMoves
  BY <1>0, <1>1, RegistrationsKeep DEF AgentOpens, RelayMoves, PeersKept, clientVars
<1>2. ASSUME NEW a \in Agents, RelayClosesAgent(a) PROVE RelayMoves
  BY <1>0, <1>2, ClosingsKeep DEF RelayClosesAgent, RelayMoves, PeersKept, clientVars
<1>3. ASSUME NEW k \in Clients, NEW t \in TunnelIds \cup {NoTunnelId}, ClientOpens(k, t)
      PROVE  RelayMoves
  BY <1>0, <1>3, RegistrationsKeep DEF ClientOpens, RelayMoves, PeersKept, agentVars
<1>4. ASSUME NEW k \in Clients, RelayClosesClient(k) PROVE RelayMoves
  <2>1. RelayQuiet
    BY <1>0, <1>4, ClosingsKeep DEF RelayClosesClient
  <2>2. \A j \in Clients : Range(fromClient'[j]) \subseteq Range(fromClient[j])
    <3>1. \A j \in Clients : fromClient'[j] = fromClient[j] \/ fromClient'[j] = <<>>
      BY <1>4 DEF RelayClosesClient, TypesInv, TunnelTypeOK
    <3>. QED
      BY <3>1 DEF Range
  <2>. QED
    BY <1>4, <2>1, <2>2 DEF RelayClosesClient, RelayMoves, PeersKept, agentVars
<1>5. ASSUME NEW c \in Conns, DirectEvent(c) \/ RelayStreamIdle(c) PROVE RelayMoves
  <2>1. PeersKept
    BY <1>5 DEF DirectEvent, RelayStreamIdle, PeersKept, agentVars, clientVars
  <2>2. RelayQuiet \/ \E p \in Ports, k \in Clients : Started(c, p, k, NoAgent)
    BY <1>0, <1>5, DirectKinds DEF DirectEvent, RelayStreamIdle
  <2>. QED
    BY <2>1, <2>2 DEF RelayMoves
<1>6. CASE RelayEndClosing
  BY <1>0, <1>6, RegistrationsKeep DEF RelayEndClosing, RelayMoves, PeersKept, agentVars, clientVars
<1>. QED
  BY <1>1, <1>2, <1>3, <1>4, <1>5, <1>6

LEMMA WhoseSteps ==
  ASSUME TypesInv, EndsInv, [Next]_vars
  PROVE  (\E a \in Agents : AgentMoves(a)) \/ (\E k \in Clients : ClientMoves(k)) \/ RelayMoves
<1>1. ASSUME NEW a \in Agents, AgentNext(a) PROVE AgentMoves(a) \/ RelayMoves
  BY <1>1, AgentFrameTaken, RelayOwnSteps DEF AgentNext, AgentMoves
<1>2. ASSUME NEW k \in Clients, ClientNext(k) PROVE ClientMoves(k) \/ RelayMoves
  BY <1>2, ClientFrameTaken, RelayOwnSteps DEF ClientNext, ClientMoves
<1>3. CASE UNCHANGED vars
  <2>1. UNCHANGED relayVars /\ PeersKept
    BY <1>3 DEF vars, agentVars, clientVars, PeersKept
  <2>. QED
    BY <2>1, RegistrationsKeep DEF RelayMoves, TypesInv
<1>4. ASSUME NEW c \in Conns, DirectEvent(c) \/ RelayStreamIdle(c) PROVE RelayMoves
  BY <1>4, RelayOwnSteps
<1>5. CASE RelayEndClosing
  BY <1>5, RelayOwnSteps
<1>6. \/ \E a \in Agents : AgentNext(a)
      \/ \E k \in Clients : ClientNext(k)
      \/ \E c \in Conns : DirectEvent(c) \/ RelayStreamIdle(c)
      \/ RelayEndClosing \/ UNCHANGED vars
  BY DEF Next
<1>7. CASE \E a \in Agents : AgentNext(a)
  BY <1>1, <1>7
<1>8. CASE \E k \in Clients : ClientNext(k)
  BY <1>2, <1>8
<1>. QED
  BY <1>3, <1>4, <1>5, <1>6, <1>7, <1>8

LEMMA RelayMovesKeep ==
  ASSUME TypesInv, EndsInv, RelayMoves
  PROVE  EndsInv' /\ StreamsGrow /\ PeersKept
<1>1. PeersKept
  BY DEF RelayMoves
<1>2. CASE RelayQuiet
  <2>1. StreamsGrow
    BY <1>2 DEF RelayQuiet, StreamsKept, SameStream, StreamsGrow
  <2>. QED
    BY <1>1, <1>2, <2>1, QuietKeeps
<1>3. ASSUME NEW c, NEW p, NEW k, NEW a, Started(c, p, k, a) PROVE EndsInv' /\ StreamsGrow
  BY <1>1, <1>3, StartKeeps, StartGrows DEF EndsInv
<1>4. ASSUME NEW c \in Conns, Confirms(c), Reached(st[c].id) PROVE EndsInv' /\ StreamsGrow
  <2>1. StreamsGrow
    BY <1>4 DEF Confirms, StreamsGrow, TypesInv, TunnelTypeOK, TypeOK, StreamStates
  <2>. QED
    BY <1>1, <1>4, <2>1, ConfirmKeeps
<1>. QED
  BY <1>1, <1>2, <1>3, <1>4 DEF RelayMoves

LEMMA EndsInit == TunnelInit => EndsInv
<1> SUFFICES ASSUME TunnelInit PROVE EndsInv
  OBVIOUS
<1>1. /\ \A c \in Conns : st[c].id = 0
      /\ \A c \in Conns : app[c] = "none"
      /\ \A a \in Agents : toAgent[a] = <<>> /\ pending[a] = {}
      /\ \A a \in Agents, i \in StreamIds : entries[a][i] = NoConn
      /\ \A k \in Clients : toClient[k] = <<>> /\ fromClient[k] = <<>> /\ clientStreams[k] = {}
      /\ \A i \in StreamIds : local[i].state = "none"
      /\ nextStreamId = 1
  BY DEF TunnelInit, RelayInit, Unused
<1>2. Numbered = {} /\ Cardinality(Numbered) = 0
  BY <1>1, FS_EmptySet DEF Numbered
<1>3. IdsOnce
  BY <1>1, <1>2, RelayAssumption DEF IdsOnce
<1>4. OpensOnce /\ OpenAcksReached /\ AcksJoin
  BY <1>1 DEF OpensOnce, OpenAcksReached, AcksJoin, Range
<1>5. Dialled /\ ConfirmedReached /\ EntriesJoin /\ PendingWait /\ JoinedConfirmed /\ HeldDialled
  BY <1>1, <1>2 DEF Dialled, ConfirmedReached, EntriesJoin, PendingWait, JoinedConfirmed, HeldDialled
<1>. QED
  BY <1>3, <1>4, <1>5 DEF EndsInv

LEMMA EndsStep ==
  ASSUME TypesInv, TypesInv', EndsInv, [Next]_vars
  PROVE  EndsInv'
<1>1. ASSUME NEW a \in Agents, AgentMoves(a) PROVE EndsInv'
  BY <1>1, AgentActions DEF AgentMoves
<1>2. ASSUME NEW k \in Clients, ClientMoves(k) PROVE EndsInv'
  <2>1. 1 \in StreamIds
    BY RelayAssumption DEF StreamIds
  <2>2. CASE ClientReceives(k)
    BY <2>2, ClientAnswers
  <2>3. CASE ClientEndCloses(k)
    BY <2>1, <2>3, ClientActions
  <2>4. ASSUME NEW i \in StreamIds,
               \/ LocalConnects(k, i)
               \/ \E type \in EndTypes : LocalEnds(k, i, type)
               \/ LocalSendsData(k, i) \/ OrphanEnds(k, i) \/ ClientStreamIdle(k, i)
        PROVE  EndsInv'
    BY <2>4, ClientActions
  <2>. QED
    BY <1>2, <2>2, <2>3, <2>4 DEF ClientMoves
<1>3. CASE RelayMoves
  BY <1>3, RelayMovesKeep
<1>. QED
  BY <1>1, <1>2, <1>3, WhoseSteps

\* The two ends of every stream agree, frames in flight included.
THEOREM EndsStayTied == Spec => []EndsInv
<1>1. TypesInv /\ TypesInv' /\ EndsInv /\ [Next]_vars => EndsInv'
  BY EndsStep
<1>. QED
  BY <1>1, EndsInit, TypesHold, PTL DEF Spec

\* An application is never joined to another connection's service: stream ids,
\* request ids and ports match from the agent's entry to the dialled socket.
THEOREM EndsStayMatched == Spec => []EndsMatch
<1>1. TypesInv /\ EndsInv => EndsMatch
  <2> SUFFICES ASSUME TypesInv, EndsInv, NEW a \in Agents, NEW i \in StreamIds, NEW c,
                      c = entries[a][i], c # NoConn
               PROVE  /\ st[c].id = i /\ st[c].agent = a /\ ~st[c].awaiting
                      /\ local[i].port = st[c].port /\ local[i].client = st[c].client
    BY DEF EndsMatch
  <2>1. c \in Conns /\ Joinable(c, a, i)
    BY AgentTables DEF EndsInv, EntriesJoin
  <2>2. c \in Numbered /\ IsAgent(c)
    BY <2>1, IdsPositive, RelayAssumption DEF Joinable, Numbered, IsAgent
  <2>3. local[i].state # "none"
    BY <2>1, <2>2 DEF EndsInv, ConfirmedReached, Reached, Joinable
  <2>4. PICK d \in Conns : StreamOf(d, i, local[i].port, local[i].client)
    BY <2>3 DEF EndsInv, Dialled
  <2>5. d = c
    BY <2>1, <2>2, <2>4, IdsPositive DEF EndsInv, IdsOnce, Numbered, StreamOf, Joinable
  <2>. QED
    BY <2>1, <2>4, <2>5 DEF StreamOf, Joinable
<1>. QED
  BY <1>1, EndsStayTied, TypesHold, PTL

-----------------------------------------------------------------------------
(* The promise of TunnelPromise.                                           *)

\* The agent's steps move applications as promised.
LEMMA AppsAsPromised ==
  ASSUME TypesInv, EndsInv, NEW a \in Agents, AgentMoves(a), NEW c \in Conns
  PROVE  Promise!AppStep(c)
<1>0. app \in [Conns -> AppStates]
  BY DEF TypesInv, TunnelTypeOK
<1>1. ASSUME NEW d \in Conns, NEW r \in Routes, AppConnects(a, d, r) PROVE Promise!AppStep(c)
  <2>1. app'[c] = app[c] \/ (app[c] = "none" /\ app'[c] \in {"waiting", "left"})
    BY <1>0, <1>1 DEF AppConnects
  <2>. QED
    BY <2>1 DEF Promise!AppStep, Promise!AppArrives
<1>2. ASSUME NEW d \in Conns, d \in pending[a], app' = [app EXCEPT ![d] = "left"]
      PROVE  Promise!AppStep(c)
  <2>1. app'[c] = app[c] \/ (app[c] = "waiting" /\ app'[c] = "left")
    BY <1>0, <1>2 DEF EndsInv, PendingWait
  <2>. QED
    BY <2>1 DEF Promise!AppStep, Promise!AppLeaves
<1>3. ASSUME NEW i \in StreamIds, entries[a][i] # NoConn,
             app' = [app EXCEPT ![entries[a][i]] = "closed"]
      PROVE  Promise!AppStep(c)
  <2>1. app'[c] = app[c] \/ (app[c] = "joined" /\ app'[c] = "closed")
    BY <1>0, <1>3 DEF EndsInv, EntriesJoin
  <2>. QED
    BY <2>1 DEF Promise!AppStep, Promise!AppEnds
<1>4. CASE app' = app
  BY <1>4 DEF Promise!AppStep
<1>5. CASE AgentEndCloses(a)
  <2>1. CASE app'[c] = app[c]
    BY <2>1 DEF Promise!AppStep
  <2>2. CASE c \in pending[a]
    <3>1. app[c] = "waiting" /\ app'[c] = "left"
      BY <1>5, <2>2 DEF AgentEndCloses, EndsInv, PendingWait
    <3>. QED
      BY <3>1 DEF Promise!AppStep, Promise!AppLeaves
  <2>3. CASE c \notin pending[a] /\ c \in Range(entries[a]) \ {NoConn}
    <3>1. PICK j \in StreamIds : c = entries[a][j]
      BY <2>3 DEF Range, TypesInv, TunnelTypeOK
    <3>2. app[c] = "joined" /\ app'[c] = "closed"
      BY <1>5, <2>3, <3>1 DEF AgentEndCloses, EndsInv, EntriesJoin
    <3>. QED
      BY <3>2 DEF Promise!AppStep, Promise!AppEnds
  <2>. QED
    BY <1>5, <2>1, <2>2, <2>3 DEF AgentEndCloses
<1>6. CASE AgentReceives(a)
  <2>1. PICK f \in ToAgentFrames :
           /\ f \in Range(toAgent[a])
           /\ \/ f.type = "TCP_CONNECT_ACK" /\ ConnectAck(a, f)
              \/ f.type = "TCP_ABORT" /\ f.id = 0 /\ ConnectReject(a, f)
              \/ f.type \in EndTypes /\ f.id # 0 /\ StreamEnded(a, f.id)
              \/ f.type = "TCP_DATA" /\ UNCHANGED <<pending, entries, app>>
    <3>1. toAgent[a] \in Seq(ToAgentFrames) /\ toAgent[a] # <<>>
      BY <1>6 DEF AgentReceives, ReceivedByAgent, TypesInv, TunnelTypeOK, TypeOK
    <3>2. Head(toAgent[a]) \in ToAgentFrames /\ Head(toAgent[a]) \in Range(toAgent[a])
      BY <3>1 DEF Range
    <3>. QED
      BY <1>6, <3>2 DEF AgentReceives
  <2>2. CASE f.type = "TCP_CONNECT_ACK" /\ ConnectAck(a, f) /\ f.req \in pending[a]
    <3>1. f.id \in StreamIds /\ Joinable(f.req, a, f.id) /\ f.req \in Conns /\ app[f.req] = "waiting"
      BY <2>1, <2>2, AgentFrameKinds DEF EndsInv, AcksJoin, PendingWait
    <3>2. CASE c = f.req
      <4>1. app[c] = "waiting" /\ app'[c] = "joined"
        BY <1>0, <2>2, <3>1, <3>2 DEF ConnectAck
      <4>2. IsAgent(c) /\ c \in Numbered /\ st[c].id # 0
        BY <3>1, <3>2, IdsPositive, RelayAssumption DEF Joinable, IsAgent, Numbered
      <4>3. Service(c) \in {"open", "closed"}
        BY <3>1, <3>2, <4>2 DEF EndsInv, ConfirmedReached, Reached, Service, Joinable
      <4>4. Service(c)' = Service(c)
        BY <1>6 DEF AgentReceives, ReceivedByAgent, streamVars, clientVars, Service, IsAgent
      <4>. QED
        BY <4>1, <4>3, <4>4 DEF Promise!AppStep, Promise!AppJoins
    <3>3. CASE c # f.req
      <4>1. app'[c] = app[c]
        BY <1>0, <2>2, <3>1, <3>3 DEF ConnectAck
      <4>. QED
        BY <4>1 DEF Promise!AppStep
    <3>. QED
      BY <3>2, <3>3
  <2>3. CASE ConnectReject(a, f) /\ f.req \in pending[a]
    <3>1. f.req \in Conns
      BY <2>3, AgentTables
    <3>. QED
      BY <1>2, <2>3, <3>1 DEF ConnectReject
  <2>4. CASE f.type \in EndTypes /\ f.id # 0 /\ StreamEnded(a, f.id) /\ entries[a][f.id] # NoConn
    <3>1. f.id \in StreamIds
      BY <2>4, AgentFrameKinds
    <3>. QED
      BY <1>3, <2>4, <3>1 DEF StreamEnded
  <2>. QED
    BY <1>4, <2>1, <2>2, <2>3, <2>4 DEF ConnectAck, ConnectReject, StreamEnded
<1>. QED
  BY <1>1, <1>2, <1>3, <1>4, <1>5, <1>6
     DEF AgentMoves, AppEndsWaiting, AppEndsJoined, AppSendsData

\* The client's steps move the local sockets as promised.
LEMMA LocalSteps ==
  ASSUME TypesInv, EndsInv, NEW k \in Clients, ClientMoves(k), NEW i \in StreamIds
  PROVE  \/ local'[i].state = local[i].state
         \/ local[i].state = "none" /\ local'[i].state = "dialing"
         \/ local[i].state = "dialing" /\ local'[i].state \in {"open", "closed"}
         \/ local[i].state = "open" /\ local'[i].state = "closed"
<1>0. /\ local \in [StreamIds -> LocalSockets] /\ local[i] \in LocalSockets
      /\ local[i].state \in {"none", "dialing", "open", "closed"}
  BY DEF TypesInv, TunnelTypeOK, LocalSockets
<1>1. ASSUME NEW j \in StreamIds, local[j].state # "none",
             local' = [local EXCEPT ![j].state = "closed"]
      PROVE  local'[i].state = local[i].state \/ (local[i].state # "none" /\ local'[i].state = "closed")
  BY <1>0, <1>1 DEF LocalSockets
<1>2. CASE local' = local
  BY <1>2
<1>3. CASE ClientEndCloses(k)
  <2>1. \/ local'[i] = local[i]
        \/ i \in clientStreams[k] /\ local'[i] = [local[i] EXCEPT !.state = "closed"]
    BY <1>3 DEF ClientEndCloses
  <2>2. i \in clientStreams[k] => local[i].state # "none"
    BY DEF EndsInv, HeldDialled
  <2>3. [local[i] EXCEPT !.state = "closed"].state = "closed"
    BY <1>0 DEF LocalSockets
  <2>. QED
    BY <1>0, <2>1, <2>2, <2>3
<1>4. ASSUME NEW j \in StreamIds, LocalConnects(k, j)
      PROVE  local'[i].state = local[i].state \/ (local[i].state = "dialing" /\ local'[i].state = "open")
  BY <1>0, <1>4 DEF LocalConnects, LocalSockets
<1>5. CASE ClientReceives(k)
  <2>1. PICK f : f = Head(toClient[k])
    OBVIOUS
  <2>2. TypeOK /\ toClient[k] \in Seq(ToClientFrames) /\ toClient[k] # <<>>
    BY <1>5 DEF ClientReceives, ReceivedByClient, TypesInv, TunnelTypeOK, TypeOK
  <2>3. 1 \in DOMAIN toClient[k] /\ f = toClient[k][1]
    BY <2>1, <2>2
  <2>4. f.id \in StreamIds
    BY <2>2, <2>3, FramesNameStreams
  <2>5. CASE f.type = "TCP_OPEN" /\ TcpOpen(k, f)
    <3>1. local[f.id].state = "none"
      BY <2>3, <2>5 DEF EndsInv, OpensOnce
    <3>2. \/ local' = local
          \/ local' = [local EXCEPT ![f.id] =
                [state |-> "dialing", port |-> f.port, client |-> k]]
      BY <2>5 DEF TcpOpen
    <3>. QED
      BY <1>0, <2>4, <3>1, <3>2
  <2>6. CASE f.id \in clientStreams[k] /\ CleanupTcpState(k, f.id)
    <3>1. local[f.id].state # "none"
      BY <2>6 DEF EndsInv, HeldDialled
    <3>. QED
      BY <1>0, <1>1, <2>4, <2>6, <3>1 DEF CleanupTcpState
  <2>. QED
    BY <1>2, <1>5, <2>1, <2>5, <2>6 DEF ClientReceives
<1>6. ASSUME NEW j \in StreamIds, OrphanEnds(k, j) \/ \E type \in EndTypes : LocalEnds(k, j, type)
      PROVE  local'[i].state = local[i].state \/ (local[i].state # "none" /\ local'[i].state = "closed")
  BY <1>1, <1>6 DEF LocalEnds, OrphanEnds, CleanupTcpState
<1>. QED
  BY <1>0, <1>2, <1>3, <1>4, <1>5, <1>6 DEF ClientMoves, LocalSendsData, ClientStreamIdle

LEMMA ServicesAsPromised ==
  ASSUME TypesInv, EndsInv, NEW k \in Clients, ClientMoves(k), NEW c \in Conns
  PROVE  Promise!ServiceStep(c) /\ app' = app
<1>1. st' = st /\ app' = app
  BY DEF ClientMoves, ClientReceives, ReceivedByClient, streamVars, LocalConnects, LocalEnds,
         LocalSendsData, OrphanEnds, ClientStreamIdle, ClientEndCloses, relayVars, agentVars
<1>2. CASE st[c].id = 0 \/ ~IsAgent(c)
  <2>1. Service(c)' = Service(c)
    BY <1>1, <1>2 DEF Service, IsAgent
  <2>. QED
    BY <1>1, <2>1 DEF Promise!ServiceStep
<1>3. CASE st[c].id # 0 /\ IsAgent(c)
  <2> DEFINE i == st[c].id
  <2>1. i \in StreamIds
    BY <1>3 DEF TypesInv, TunnelTypeOK, TypeOK, StreamStates
  <2>2. Service(c) = local[i].state /\ Service(c)' = local'[i].state
    BY <1>1, <1>3 DEF Service, IsAgent
  <2>3. app[c] = "joined" => local[i].state # "none"
    <3> SUFFICES ASSUME app[c] = "joined" PROVE local[i].state # "none"
      OBVIOUS
    <3>1. ~st[c].awaiting
      BY DEF EndsInv, JoinedConfirmed, Joinable
    <3>2. Reached(i)
      BY <1>3, <3>1 DEF EndsInv, ConfirmedReached, Numbered
    <3>. QED
      BY <3>2 DEF Reached
  <2> HIDE DEF i
  <2>4. \/ local'[i].state = local[i].state
        \/ local[i].state = "none" /\ local'[i].state = "dialing"
        \/ local[i].state = "dialing" /\ local'[i].state \in {"open", "closed"}
        \/ local[i].state = "open" /\ local'[i].state = "closed"
    BY <2>1, LocalSteps
  <2>. QED
    BY <1>1, <2>2, <2>3, <2>4 DEF Promise!ServiceStep
<1>. QED
  BY <1>2, <1>3

\* A stream that starts has an id no service was dialled for.
LEMMA RelayServes ==
  ASSUME TypesInv, TypesInv', EndsInv, RelayMoves, NEW c \in Conns
  PROVE  Service(c)' = Service(c) /\ app' = app
<1>1. EndsInv' /\ StreamsGrow /\ local' = local /\ app' = app
  BY RelayMovesKeep DEF PeersKept
<1>2. CASE st[c].id # 0
  <2>1. st'[c].id = st[c].id /\ st'[c].agent = st[c].agent
    BY <1>1, <1>2 DEF StreamsGrow
  <2>. QED
    BY <1>1, <2>1 DEF Service, IsAgent
<1>3. CASE st[c].id = 0
  <2>1. Service(c) = "none"
    BY <1>3 DEF Service
  <2>2. ASSUME Service(c)' # "none" PROVE FALSE
    <3> DEFINE i == st'[c].id
    <3>1. i # 0 /\ local[i].state # "none"
      BY <1>1, <2>2 DEF Service
    <3>2. i \in StreamIds
      BY <3>1 DEF TypesInv, TunnelTypeOK, TypeOK, StreamStates
    <3>3. PICK d \in Conns : StreamOf(d, i, local[i].port, local[i].client)
      BY <3>1, <3>2 DEF EndsInv, Dialled
    <3>4. st'[d].id = i /\ st[d].id # 0
      BY <1>1, <3>1, <3>3 DEF StreamOf, StreamsGrow
    <3>5. d = c
      BY <1>1, <3>1, <3>4 DEF EndsInv, IdsOnce, Numbered
    <3>. QED
      BY <1>3, <3>4, <3>5
  <2>. QED
    BY <1>1, <2>1, <2>2
<1>. QED
  BY <1>2, <1>3

LEMMA PromisedTypes ==
  ASSUME TypesInv
  PROVE  /\ app \in [Conns -> {"none", "waiting", "joined", "left", "closed"}]
         /\ \A c \in Conns : Service(c) \in {"none", "dialing", "open", "closed"}
<1>1. app \in [Conns -> {"none", "waiting", "joined", "left", "closed"}]
  BY DEF TypesInv, TunnelTypeOK, AppStates
<1>2. ASSUME NEW c \in Conns PROVE Service(c) \in {"none", "dialing", "open", "closed"}
  <2>1. st[c].id = 0 \/ st[c].id \in StreamIds
    BY DEF TypesInv, TunnelTypeOK, TypeOK, StreamStates
  <2>2. \A i \in StreamIds : local[i].state \in {"none", "dialing", "open", "closed"}
    BY DEF TypesInv, TunnelTypeOK, LocalSockets
  <2>. QED
    BY <2>1, <2>2 DEF Service
<1>. QED
  BY <1>1, <1>2

LEMMA PromiseStep ==
  ASSUME TypesInv, TypesInv', EndsInv, [Next]_vars
  PROVE  Promise!Next
<1>1. /\ app' \in [Conns -> {"none", "waiting", "joined", "left", "closed"}]
      /\ [c \in Conns |-> Service(c)]' \in [Conns -> {"none", "dialing", "open", "closed"}]
  <2>1. /\ app' \in [Conns -> {"none", "waiting", "joined", "left", "closed"}]
        /\ \A c \in Conns : Service(c)' \in {"none", "dialing", "open", "closed"}
    <3>1. (/\ app \in [Conns -> {"none", "waiting", "joined", "left", "closed"}]
           /\ \A c \in Conns : Service(c) \in {"none", "dialing", "open", "closed"})'
      BY PromisedTypes, PTL
    <3>. QED
      BY <3>1
  <2>. QED
    BY <2>1
<1>2. ASSUME NEW c \in Conns PROVE Promise!AppStep(c) /\ Promise!ServiceStep(c)
  <2>1. ASSUME NEW a \in Agents, AgentMoves(a)
        PROVE  Promise!AppStep(c) /\ Promise!ServiceStep(c)
    <3>1. st' = st /\ local' = local
      BY <2>1 DEF AgentMoves, AppConnects, AppEndsWaiting, AppEndsJoined, AppSendsData,
                  AgentReceives, AgentEndCloses, ReceivedByAgent, relayVars, streamVars, clientVars
    <3>2. Service(c)' = Service(c)
      BY <3>1 DEF Service, IsAgent
    <3>3. Promise!ServiceStep(c)
      BY <3>2 DEF Promise!ServiceStep
    <3>. QED
      BY <2>1, <3>3, AppsAsPromised
  <2>2. ASSUME NEW k \in Clients, ClientMoves(k)
        PROVE  Promise!AppStep(c) /\ Promise!ServiceStep(c)
    <3>1. Promise!ServiceStep(c) /\ app' = app
      BY <2>2, ServicesAsPromised
    <3>2. Promise!AppStep(c)
      BY <3>1 DEF Promise!AppStep
    <3>. QED
      BY <3>1, <3>2
  <2>3. CASE RelayMoves
    <3>1. Service(c)' = Service(c) /\ app' = app
      BY <2>3, RelayServes
    <3>. QED
      BY <3>1 DEF Promise!AppStep, Promise!ServiceStep
  <2>. QED
    BY <2>1, <2>2, <2>3, WhoseSteps
<1>. QED
  BY <1>1, <1>2 DEF Promise!Next

\* The composition implements TunnelPromise: an application is joined only to a
\* service that was reached for it, at most once, and what has ended stays ended.
THEOREM PromiseOfTunnel == Spec => ImplementsPromise
<1>1. TunnelInit => Promise!Init
  <2> SUFFICES ASSUME TunnelInit PROVE Promise!Init
    OBVIOUS
  <2>1. \A c \in Conns : Service(c) = "none"
    BY DEF TunnelInit, RelayInit, Unused, Service
  <2>. QED
    BY <2>1 DEF Promise!Init, TunnelInit
<1>2. TypesInv /\ TypesInv' /\ EndsInv /\ [Next]_vars =>
         [Promise!Next]_<<app, [c \in Conns |-> Service(c)]>>
  BY PromiseStep
<1>. QED
  BY <1>1, <1>2, TypesHold, EndsStayTied, PTL DEF Spec, ImplementsPromise, Promise!Spec
=============================================================================
