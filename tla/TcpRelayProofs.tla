--------------------------- MODULE TcpRelayProofs ---------------------------
(***************************************************************************)
(* Proofs about TcpRelay, for every number of connections, clients, agents *)
(* and ports and every value of the limits: type correctness, the          *)
(* consistency of the stream table, the presence of both ends of every     *)
(* live stream, the counters and limits, the client registry and the       *)
(* deferred ACK.                                                           *)
(***************************************************************************)
EXTENDS TcpRelay, FiniteSetTheorems, SequenceTheorems, TLAPS

-----------------------------------------------------------------------------
(* Sequences of frames.                                                    *)

\* SetToSeq lists a finite set: what it returns is a sequence of its elements.
LEMMA SetToSeqIsSeq ==
  ASSUME NEW T, NEW S \in SUBSET T, IsFiniteSet(S)
  PROVE  SetToSeq(S) \in Seq(T)
<1>1. PICK f : f \in Bijection(1..Cardinality(S), S)
  BY FS_CardinalityType DEF ExistsBijection
<1>2. Cardinality(S) \in Nat
  BY FS_CardinalityType
<1>3. f \in [1..Cardinality(S) -> S] /\ IsInjective(f)
  BY <1>1 DEF Bijection, Injection, IsInjective
<1>4. SetToSeq(S) \in [1..Cardinality(S) -> S]
  BY <1>3 DEF SetToSeq
<1>5. SetToSeq(S) \in [1..Cardinality(S) -> T]
  BY <1>4
<1>. QED
  BY <1>2, <1>5, SeqDef

\* A batch of TCP_ABORT frames for connections that hold stream ids.
LEMMA AbortFramesAreFrames ==
  ASSUME NEW S \in SUBSET Conns, \A c \in S : st[c].id \in StreamIds
  PROVE  AbortFrames(S) \in Seq(DownFrames)
<1> DEFINE frames == {StreamFrame("TCP_ABORT", st[c].id) : c \in S}
           g == [c \in S |-> StreamFrame("TCP_ABORT", st[c].id)]
<1>1. frames \in SUBSET DownFrames
  BY DEF StreamFrame, DownFrames, EndTypes
<1>2. IsFiniteSet(S)
  BY RelayAssumption, FS_Subset
<1>3. g \in Surjection(S, frames)
  BY DEF Surjection
<1>4. IsFiniteSet(frames)
  BY <1>2, <1>3, FS_Surjection
<1>. QED
  BY <1>1, <1>4, SetToSeqIsSeq DEF AbortFrames

-----------------------------------------------------------------------------
(* The invariant that carries the proofs.                                  *)

\* a live stream has an id of the table
LiveNamed == \A c \in LiveConns : st[c].id \in StreamIds

\* a WebSocket on /tunnel that is open has been registered
OpenRegistered == \A k \in Clients : wsClient[k] = "open" => k \in clients

IInv ==
    /\ TypeOK
    /\ TableConsistent
    /\ LiveNamed
    /\ OpenRegistered
    /\ LiveStreamsHaveEnds

\* What a cleanup of any set of live streams leaves behind.
LEMMA CleanupEffect ==
  ASSUME IInv, NEW S \in SUBSET LiveConns, CleanupTcpStreams(S)
  PROVE  /\ streams' \in [StreamIds -> Conns \cup {NoConn}]
         /\ nextStreamId' \in StreamIds
         /\ st' \in [Conns -> StreamStates]
         /\ portCount' \in [Ports -> Nat]
         /\ agentPortCount' \in [Ports -> Nat]
         /\ TableConsistent'
         /\ LiveNamed'
         /\ \A c \in LiveConns' : c \in LiveConns \ S /\ st'[c] = st[c]
<1> USE DEF IInv
<1>1. S \subseteq Conns /\ IsFiniteSet(S)
  BY RelayAssumption, FS_Subset DEF LiveConns
<1>2. streams' \in [StreamIds -> Conns \cup {NoConn}] /\ nextStreamId' \in StreamIds
  BY DEF CleanupTcpStreams, TypeOK
<1>3. \A c \in S : CleanedState(st[c]) \in StreamStates
  <2>1. ASSUME NEW s \in StreamStates PROVE CleanedState(s) \in StreamStates
    BY DEF CleanedState, StreamStates, Phases
  <2>. QED
    BY <1>1, <2>1 DEF TypeOK
<1>4. st' \in [Conns -> StreamStates]
  BY <1>1, <1>3 DEF CleanupTcpStreams, TypeOK
<1>5. \A p \in Ports, d \in BOOLEAN : Cardinality(S \cap CountedOn(p, d)) \in Nat
  BY <1>1, FS_Subset, FS_CardinalityType
<1>6. portCount' \in [Ports -> Nat] /\ agentPortCount' \in [Ports -> Nat]
  <2>1. \A count \in Nat, n \in Nat : Lowered(count, n) \in Nat
    BY DEF Lowered
  <2>2. \A p \in Ports : portCount[p] \in Nat /\ agentPortCount[p] \in Nat
    BY DEF TypeOK
  <2>. QED
    BY <1>5, <2>1, <2>2 DEF CleanupTcpStreams
<1>7. \A c \in Conns : IF c \in S THEN st'[c].phase = "cleaned" ELSE st'[c] = st[c]
  BY <1>1 DEF CleanupTcpStreams, CleanedState, TypeOK, StreamStates
<1>8. \A c \in LiveConns' : c \in LiveConns \ S /\ st'[c] = st[c]
  BY <1>7 DEF LiveConns, Live
<1>9. LiveNamed'
  BY <1>8 DEF LiveNamed
<1>10. TableConsistent'
  BY <1>1, <1>7, RelayAssumption DEF TableConsistent, CleanupTcpStreams, LiveConns, Live, TypeOK
<1>. QED
  BY <1>2, <1>4, <1>6, <1>8, <1>9, <1>10

\* Frames appended to one queue of many keep all of them well typed.
LEMMA AppendedQueue ==
  ASSUME NEW D, NEW F, NEW q \in [D -> Seq(F)], NEW d, NEW frames \in Seq(F)
  PROVE  [q EXCEPT ![d] = @ \o frames] \in [D -> Seq(F)]
<1>1. \A s \in Seq(F) : s \o frames \in Seq(F)
  OBVIOUS
<1>. QED
  BY <1>1

\* A frame list sent to one agent keeps the queues well typed.
LEMMA ToAgentType ==
  ASSUME TypeOK, NEW a, NEW frames \in Seq(ToAgentFrames)
  PROVE  ToAgent(a, frames) \in [Agents -> Seq(ToAgentFrames)]
BY AppendedQueue DEF TypeOK, ToAgent

\* The same for a frame list to one client.
LEMMA ToClientType ==
  ASSUME TypeOK, NEW k, NEW frames \in Seq(ToClientFrames)
  PROVE  ToClient(k, frames) \in [Clients -> Seq(ToClientFrames)]
BY AppendedQueue DEF TypeOK, ToClient

\* A batch of TCP_ABORT frames may go either way.
LEMMA AbortFramesToBoth ==
  ASSUME IInv, NEW S \in SUBSET LiveConns
  PROVE  AbortFrames(S) \in Seq(ToAgentFrames) /\ AbortFrames(S) \in Seq(ToClientFrames)
<1>1. AbortFrames(S) \in Seq(DownFrames)
  BY AbortFramesAreFrames DEF IInv, LiveNamed, LiveConns
<1>2. DownFrames \subseteq ToAgentFrames /\ DownFrames \subseteq ToClientFrames
  BY DEF ToAgentFrames, ToClientFrames
<1>. QED
  BY <1>1, <1>2

\* Telling every connected agent of its aborted streams keeps the queues typed.
LEMMA AgentsToldAbortType ==
  ASSUME IInv, NEW S \in SUBSET LiveConns
  PROVE  AgentsToldAbort(S) \in [Agents -> Seq(ToAgentFrames)]
<1>1. \A a \in Agents : AbortFrames({c \in S : st[c].agent = a}) \in Seq(ToAgentFrames)
  BY AbortFramesToBoth
<1>. QED
  BY <1>1 DEF AgentsToldAbort, IInv, TypeOK

\* The slots of the streams that go are given back, those of the others stay.
LEMMA SlotsAfterEffect ==
  ASSUME IInv, NEW S \in SUBSET LiveConns
  PROVE  /\ SlotsAfter(S) \in [Agents -> SUBSET StreamIds]
         /\ \A c \in LiveConns \ S : IsAgent(c) =>
               st[c].id \in SlotsAfter(S)[st[c].agent]
<1> USE DEF IInv
<1>1. SlotsAfter(S) \in [Agents -> SUBSET StreamIds]
  BY DEF SlotsAfter, TypeOK
<1>2. ASSUME NEW c \in LiveConns \ S, IsAgent(c)
      PROVE  st[c].id \in SlotsAfter(S)[st[c].agent]
  <2>1. st[c].id \in agentStreams[st[c].agent] /\ st[c].agent \in Agents
    BY <1>2 DEF LiveStreamsHaveEnds, TypeOK, IsAgent, LiveConns, StreamStates
  <2>2. \A d \in S : st[d].id # st[c].id
    BY <1>2 DEF TableConsistent, LiveNamed, LiveConns
  <2>. QED
    BY <2>1, <2>2 DEF SlotsAfter
<1>. QED
  BY <1>1, <1>2

\* Ending any one live stream, whichever side is told.
LEMMA EndOneStream ==
  ASSUME IInv, NEW c \in LiveConns,
         CleanupTcpStreams({c}), agentStreams' = SlotsAfter({c}), UNCHANGED peerVars,
         toAgent' \in [Agents -> Seq(ToAgentFrames)],
         toClient' \in [Clients -> Seq(ToClientFrames)]
  PROVE  IInv'
<1> USE DEF IInv
<1>1. {c} \in SUBSET LiveConns
  OBVIOUS
<1>2. TypeOK'
  BY <1>1, CleanupEffect, SlotsAfterEffect DEF TypeOK, peerVars
<1>3. TableConsistent' /\ LiveNamed'
  BY <1>1, CleanupEffect
<1>4. OpenRegistered'
  BY DEF OpenRegistered, peerVars
<1>5. LiveStreamsHaveEnds'
  BY <1>1, CleanupEffect, SlotsAfterEffect DEF LiveStreamsHaveEnds, IsAgent, peerVars
<1>. QED
  BY <1>2, <1>3, <1>4, <1>5

\* A step that moves frames only.
LEMMA FramesOnly ==
  ASSUME IInv, UNCHANGED <<streamVars, peerVars>>,
         toAgent' \in [Agents -> Seq(ToAgentFrames)],
         toClient' \in [Clients -> Seq(ToClientFrames)]
  PROVE  IInv'
BY DEF IInv, TypeOK, TableConsistent, LiveNamed, OpenRegistered, LiveStreamsHaveEnds,
       LiveConns, Live, IsAgent, streamVars, peerVars

\* A stream may start only on an id that is free, for an open client and, when
\* it has one, a connected agent.
LEMMA StartOneStream ==
  ASSUME IInv, NEW c \in Conns, NEW p \in Ports, NEW k \in OpenClients,
         NEW a \in Agents \cup {NoAgent}, st[c].phase = "unused",
         a # NoAgent => a \in agents /\ wsAgent[a] = "open",
         StartStream(c, p, k, a), UNCHANGED peerVars,
         toAgent' \in [Agents -> Seq(ToAgentFrames)],
         portCount' \in [Ports -> Nat], agentPortCount' \in [Ports -> Nat]
  PROVE  IInv'
<1> USE DEF IInv
<1>1. PICK i \in StreamIds :
          /\ streams[i] = NoConn
          /\ streams' = [streams EXCEPT ![i] = c]
          /\ nextStreamId' = SuccId(i)
          /\ st' = [st EXCEPT ![c] =
                [phase |-> "live", id |-> i, port |-> p, client |-> k, agent |-> a,
                 awaiting |-> a # NoAgent, socket |-> "open", counted |-> TRUE]]
          /\ toClient' = ToClient(k, <<OpenFrame(i, p)>>)
          /\ agentStreams' = IF a = NoAgent THEN agentStreams
                             ELSE [agentStreams EXCEPT ![a] = @ \cup {i}]
  BY DEF StartStream, Allocates
<1>2. k \in clients /\ k \in Clients /\ wsClient[k] = "open"
  BY DEF OpenClients, TypeOK
<1>3. SuccId(i) \in StreamIds
  BY RelayAssumption DEF SuccId, StreamIds
<1>4. st' \in [Conns -> StreamStates]
  BY <1>1, <1>2 DEF TypeOK, StreamStates, Phases
<1>5. toClient' \in [Clients -> Seq(ToClientFrames)]
  <2>1. <<OpenFrame(i, p)>> \in Seq(ToClientFrames)
    BY DEF OpenFrame, ToClientFrames
  <2>. QED
    BY <1>1, <2>1, ToClientType
<1>6. TypeOK'
  <2>1. streams' \in [StreamIds -> Conns \cup {NoConn}] /\ nextStreamId' \in StreamIds
    BY <1>1, <1>3 DEF TypeOK
  <2>2. agentStreams' \in [Agents -> SUBSET StreamIds]
    BY <1>1 DEF TypeOK
  <2>. QED
    BY <1>4, <1>5, <2>1, <2>2 DEF TypeOK, peerVars
<1>7. \A d \in Conns : IF d = c THEN Live(d)' /\ st'[d].id = i /\ ~Live(d)
                                ELSE st'[d] = st[d] /\ Live(d)' = Live(d)
  BY <1>1 DEF Live, TypeOK
<1>8. TableConsistent'
  <2>1. \A d \in LiveConns : st[d].id # i
    BY <1>1, RelayAssumption DEF TableConsistent, LiveConns
  <2>2. ASSUME NEW j \in StreamIds, NEW d \in Conns
        PROVE  streams'[j] = d <=> Live(d)' /\ st'[d].id = j
    <3>1. CASE j = i
      BY <1>1, <1>7, <2>1, <3>1 DEF TypeOK, LiveConns
    <3>2. CASE j # i
      <4>1. streams'[j] = streams[j] /\ (streams[j] = d <=> Live(d) /\ st[d].id = j)
        BY <1>1, <3>2 DEF TypeOK, TableConsistent
      <4>. QED
        BY <1>7, <3>2, <4>1
    <3>. QED
      BY <3>1, <3>2
  <2>. QED
    BY <2>2 DEF TableConsistent
<1>9. LiveNamed'
  BY <1>7 DEF LiveNamed, LiveConns
<1>10. OpenRegistered'
  BY DEF OpenRegistered, peerVars
<1>11. LiveStreamsHaveEnds'
  <2>1. \A b \in Agents : agentStreams[b] \subseteq agentStreams'[b]
    BY <1>1 DEF TypeOK
  <2>2. ASSUME NEW d \in LiveConns', d # c
        PROVE  /\ st'[d].client \in clients /\ wsClient[st'[d].client] \in {"open", "closing"}
               /\ st'[d].socket = "open"
               /\ st'[d].agent # NoAgent =>
                     /\ st'[d].agent \in agents
                     /\ wsAgent[st'[d].agent] \in {"open", "closing"}
                     /\ st'[d].id \in agentStreams'[st'[d].agent]
    BY <1>7, <2>1, <2>2 DEF LiveConns, LiveStreamsHaveEnds, IsAgent, TypeOK
  <2>3. /\ st'[c].client = k /\ st'[c].socket = "open" /\ st'[c].agent = a
        /\ a # NoAgent => st'[c].id \in agentStreams'[a]
    BY <1>1 DEF TypeOK
  <2>. QED
    BY <1>2, <2>2, <2>3 DEF LiveStreamsHaveEnds, IsAgent, peerVars
<1>. QED
  BY <1>6, <1>8, <1>9, <1>10, <1>11

\* The state of a connection that is not live is of no consequence.
LEMMA NotLiveChange ==
  ASSUME IInv, NEW c \in Conns, ~Live(c),
         NEW s \in StreamStates, s.phase # "live", st' = [st EXCEPT ![c] = s],
         UNCHANGED <<streams, nextStreamId, portCount, agentPortCount, agentStreams>>,
         UNCHANGED peerVars,
         toAgent' \in [Agents -> Seq(ToAgentFrames)],
         toClient' \in [Clients -> Seq(ToClientFrames)]
  PROVE  IInv'
<1> USE DEF IInv
<1>1. \A d \in Conns : Live(d)' = Live(d) /\ (Live(d) => st'[d] = st[d])
  BY DEF TypeOK, Live
<1>2. TypeOK'
  BY DEF TypeOK, peerVars
<1>3. LiveConns' = LiveConns /\ \A d \in LiveConns : st'[d] = st[d]
  BY <1>1 DEF LiveConns
<1>4. TableConsistent'
  BY <1>1 DEF TableConsistent
<1>5. LiveNamed' /\ OpenRegistered'
  BY <1>3 DEF LiveNamed, OpenRegistered, peerVars
<1>6. LiveStreamsHaveEnds'
  BY <1>3 DEF LiveStreamsHaveEnds, IsAgent, peerVars
<1>. QED
  BY <1>2, <1>4, <1>5, <1>6

-----------------------------------------------------------------------------
(* The initial state and the steps.                                        *)

\* The relay starts in the invariant.
LEMMA InitIInv == RelayInit => IInv
<1> SUFFICES ASSUME RelayInit PROVE IInv
  OBVIOUS
<1>1. \A c \in Conns : ~Live(c)
  BY DEF RelayInit, Live, Unused
<1>2. TypeOK
  <2>1. Unused \in StreamStates
    BY DEF Unused, StreamStates, Phases
  <2>2. 1 \in StreamIds
    BY RelayAssumption DEF StreamIds
  <2>. QED
    BY <2>1, <2>2 DEF RelayInit, TypeOK, WsStates
<1>3. TableConsistent
  BY <1>1, RelayAssumption DEF TableConsistent, RelayInit
<1>4. OpenRegistered
  BY DEF OpenRegistered, RelayInit
<1>. QED
  BY <1>1, <1>2, <1>3, <1>4 DEF IInv, LiveNamed, LiveStreamsHaveEnds, LiveConns

\* One frame about a live stream, to either side.
LEMMA StreamFrameTypes ==
  ASSUME IInv, NEW c \in LiveConns, NEW t \in {"TCP_DATA"} \cup EndTypes
  PROVE  /\ <<StreamFrame(t, st[c].id)>> \in Seq(ToAgentFrames)
         /\ <<StreamFrame(t, st[c].id)>> \in Seq(ToClientFrames)
         /\ AbortFrames({c}) \in Seq(ToAgentFrames)
         /\ AbortFrames({c}) \in Seq(ToClientFrames)
<1>1. StreamFrame(t, st[c].id) \in DownFrames
  BY DEF IInv, LiveNamed, StreamFrame, DownFrames
<1>2. {c} \in SUBSET LiveConns
  OBVIOUS
<1>. QED
  BY <1>1, <1>2, AbortFramesToBoth DEF ToAgentFrames, ToClientFrames

\* abortTcpStream, the socket's 'close' and 'error' handlers and its 'data'
\* handler, applied to a live stream.
LEMMA StreamEndings ==
  ASSUME IInv, NEW c \in LiveConns,
         \/ \E notify \in BOOLEAN : AbortTcpStream(c, notify)
         \/ CloseTcpStream(c)
         \/ RelaySocketError(c)
         \/ RelayInboundData(c)
  PROVE  IInv'
<1>1. TypeOK /\ "TCP_CLOSE" \in EndTypes
  BY DEF IInv, EndTypes
<1>2. toAgent \in [Agents -> Seq(ToAgentFrames)] /\ toClient \in [Clients -> Seq(ToClientFrames)]
  BY <1>1 DEF TypeOK
<1>3. ASSUME NEW notify \in BOOLEAN, AbortTcpStream(c, notify) PROVE IInv'
  <2>1. toAgent' \in [Agents -> Seq(ToAgentFrames)]
    BY <1>1, <1>3, StreamFrameTypes, ToAgentType DEF AbortTcpStream
  <2>2. toClient' \in [Clients -> Seq(ToClientFrames)]
    BY <1>1, <1>2, <1>3, StreamFrameTypes, ToClientType DEF AbortTcpStream
  <2>. QED
    BY <1>3, <2>1, <2>2, EndOneStream DEF AbortTcpStream
<1>4. CASE CloseTcpStream(c)
  <2>1. toClient' \in [Clients -> Seq(ToClientFrames)]
    BY <1>1, <1>4, StreamFrameTypes, ToClientType DEF CloseTcpStream
  <2>. QED
    BY <1>2, <1>4, <2>1, EndOneStream DEF CloseTcpStream
<1>5. CASE RelaySocketError(c)
  <2>1. toClient' \in [Clients -> Seq(ToClientFrames)]
    BY <1>1, <1>5, StreamFrameTypes, ToClientType DEF RelaySocketError
  <2>. QED
    BY <1>2, <1>5, <2>1, EndOneStream DEF RelaySocketError
<1>6. CASE RelayInboundData(c)
  <2>1. CASE wsClient[st[c].client] # "open"
    BY <1>3, <1>6, <2>1 DEF RelayInboundData
  <2>2. CASE wsClient[st[c].client] = "open"
    <3>1. toClient' \in [Clients -> Seq(ToClientFrames)]
      BY <1>1, <1>6, <2>2, StreamFrameTypes, ToClientType DEF RelayInboundData
    <3>. QED
      BY <1>2, <1>6, <2>2, <3>1, FramesOnly DEF RelayInboundData
  <2>. QED
    BY <2>1, <2>2
<1>. QED
  BY <1>3, <1>4, <1>5, <1>6

\* A change of WebSockets that leaves streams and queues alone.
LEMMA PeersOnly ==
  ASSUME IInv, UNCHANGED <<streamVars, toClient, toAgent>>,
         TypeOK', OpenRegistered',
         \A k \in clients : k \in clients' /\ (wsClient[k] \in {"open", "closing"}
                                                => wsClient'[k] \in {"open", "closing"}),
         \A a \in agents : a \in agents' /\ (wsAgent[a] \in {"open", "closing"}
                                                => wsAgent'[a] \in {"open", "closing"})
  PROVE  IInv'
<1>1. TableConsistent' /\ LiveNamed'
  BY DEF IInv, TableConsistent, LiveNamed, LiveConns, Live, streamVars
<1>2. LiveStreamsHaveEnds'
  BY DEF IInv, LiveStreamsHaveEnds, LiveConns, Live, IsAgent, streamVars
<1>. QED
  BY <1>1, <1>2 DEF IInv

\* Registration and the WebSocket closing of a tunnel client.
LEMMA ClientRegistration ==
  ASSUME IInv, NEW k \in Clients,
         \/ \E t \in TunnelIds \cup {NoTunnelId} : AddClient(k, t) \/ RefuseClient(k, t)
         \/ ClientClosing(k)
  PROVE  IInv'
<1> USE DEF IInv
<1>1. ASSUME NEW t \in TunnelIds \cup {NoTunnelId}, AddClient(k, t) PROVE IInv'
  <2>1. TypeOK'
    BY <1>1 DEF AddClient, TypeOK, WsStates, streamVars
  <2>2. OpenRegistered'
    BY <1>1 DEF AddClient, OpenRegistered, TypeOK
  <2>. QED
    BY <1>1, <2>1, <2>2, PeersOnly DEF AddClient, TypeOK
<1>2. ASSUME NEW t \in TunnelIds \cup {NoTunnelId}, RefuseClient(k, t) PROVE IInv'
  <2>1. TypeOK'
    BY <1>2 DEF RefuseClient, TypeOK, WsStates, streamVars
  <2>2. OpenRegistered'
    BY <1>2 DEF RefuseClient, OpenRegistered, TypeOK
  <2>. QED
    BY <1>2, <2>1, <2>2, PeersOnly DEF RefuseClient, TypeOK
<1>3. CASE ClientClosing(k)
  <2>1. TypeOK'
    BY <1>3 DEF ClientClosing, TypeOK, WsStates, streamVars
  <2>2. OpenRegistered'
    BY <1>3 DEF ClientClosing, OpenRegistered, TypeOK
  <2>. QED
    BY <1>3, <2>1, <2>2, PeersOnly DEF ClientClosing, TypeOK
<1>. QED
  BY <1>1, <1>2, <1>3

\* A tunnel client that goes takes exactly its own streams with it.
LEMMA ClientCleanup ==
  ASSUME IInv, NEW k \in Clients, CleanupClient(k)
  PROVE  IInv'
<1> USE DEF IInv
<1> DEFINE S == IF k \in clients THEN {c \in LiveConns : st[c].client = k} ELSE {}
<1>1. /\ S \in SUBSET LiveConns
      /\ wsClient' = [wsClient EXCEPT ![k] = "closed"]
      /\ clients' = clients \ {k}
      /\ byTunnelId' = [t \in TunnelIds |->
             IF byTunnelId[t] = k /\ tunnelId[k] = t THEN NoClient ELSE byTunnelId[t]]
      /\ CleanupTcpStreams(S)
      /\ agentStreams' = SlotsAfter(S)
      /\ toAgent' = AgentsToldAbort(S)
      /\ UNCHANGED <<agents, tunnelId, wsAgent, toClient>>
  BY DEF CleanupClient
<1>2. \A c \in LiveConns \ S : st[c].client # k
  BY DEF LiveStreamsHaveEnds
<1> HIDE DEF S
<1>3. TypeOK'
  <2>1. agentStreams' \in [Agents -> SUBSET StreamIds]
    BY <1>1, SlotsAfterEffect
  <2>2. toAgent' \in [Agents -> Seq(ToAgentFrames)]
    BY <1>1, AgentsToldAbortType
  <2>3. /\ wsClient' \in [Clients -> WsStates] /\ clients' \subseteq Clients
        /\ byTunnelId' \in [TunnelIds -> Clients \cup {NoClient}]
    BY <1>1 DEF TypeOK, WsStates
  <2>. QED
    BY <1>1, <2>1, <2>2, <2>3, CleanupEffect DEF TypeOK
<1>4. TableConsistent' /\ LiveNamed'
  BY <1>1, CleanupEffect
<1>5. OpenRegistered'
  BY <1>1 DEF OpenRegistered, TypeOK
<1>6. LiveStreamsHaveEnds'
  <2>1. ASSUME NEW c \in LiveConns'
        PROVE  c \in LiveConns \ S /\ st'[c] = st[c] /\ st[c].client # k
    BY <1>1, <1>2, CleanupEffect
  <2>2. ASSUME NEW c \in LiveConns \ S, IsAgent(c)
        PROVE  st[c].id \in agentStreams'[st[c].agent]
    BY <1>1, <2>2, SlotsAfterEffect
  <2>3. \A j \in clients \ {k} : j \in clients' /\ wsClient'[j] = wsClient[j]
    BY <1>1 DEF TypeOK
  <2>. QED
    BY <1>1, <2>1, <2>2, <2>3 DEF LiveStreamsHaveEnds, IsAgent
<1>. QED
  BY <1>3, <1>4, <1>5, <1>6

\* Arrival and closing of an agent's WebSocket.
LEMMA AgentRegistration ==
  ASSUME IInv, NEW a \in Agents, HandleConnection(a) \/ AgentClosing(a)
  PROVE  IInv'
<1> USE DEF IInv
<1>1. CASE HandleConnection(a)
  <2>1. TypeOK'
    BY <1>1 DEF HandleConnection, TypeOK, WsStates
  <2>2. \A c \in LiveConns : st[c].agent # a
    <3>1. a # NoAgent
      BY RelayAssumption
    <3>. QED
      BY <1>1, <3>1 DEF HandleConnection, LiveStreamsHaveEnds, IsAgent
  <2>3. TableConsistent' /\ LiveNamed' /\ OpenRegistered'
    BY <1>1 DEF HandleConnection, TableConsistent, LiveNamed, OpenRegistered, LiveConns, Live
  <2>4. /\ LiveConns' = LiveConns /\ agents \subseteq agents'
        /\ \A b \in Agents \ {a} : wsAgent'[b] = wsAgent[b] /\ agentStreams'[b] = agentStreams[b]
    BY <1>1 DEF HandleConnection, LiveConns, Live, TypeOK
  <2>5. LiveStreamsHaveEnds'
    BY <1>1, <2>2, <2>4 DEF HandleConnection, LiveStreamsHaveEnds, IsAgent, TypeOK
  <2>. QED
    BY <2>1, <2>3, <2>5
<1>2. CASE AgentClosing(a)
  <2>1. TypeOK'
    BY <1>2 DEF AgentClosing, TypeOK, WsStates, streamVars
  <2>2. OpenRegistered'
    BY <1>2 DEF AgentClosing, OpenRegistered, TypeOK
  <2>. QED
    BY <1>2, <2>1, <2>2, PeersOnly DEF AgentClosing, TypeOK
<1>. QED
  BY <1>1, <1>2

\* An agent that goes takes exactly its own streams with it: the ids it owns
\* are those of its live streams, so none is left behind.
LEMMA AgentCleanup ==
  ASSUME IInv, NEW a \in Agents, CleanupAgent(a)
  PROVE  IInv'
<1> USE DEF IInv
<1> DEFINE S == {c \in LiveConns : st[c].id \in agentStreams[a]}
<1>1. /\ S \in SUBSET LiveConns
      /\ wsAgent' = [wsAgent EXCEPT ![a] = "closed"]
      /\ agents' = agents \ {a}
      /\ CleanupTcpStreams(S)
      /\ agentStreams' = [SlotsAfter(S) EXCEPT ![a] = {}]
      /\ toAgent' = [AgentsToldAbort(S) EXCEPT ![a] = toAgent[a]]
      /\ toClient' = [k \in Clients |->
             IF wsClient[k] = "open"
             THEN toClient[k] \o AbortFrames({c \in S : st[c].client = k})
             ELSE toClient[k]]
      /\ UNCHANGED <<clients, byTunnelId, tunnelId, wsClient>>
  BY DEF CleanupAgent
<1>2. \A c \in LiveConns \ S : st[c].agent # a
  <2>1. a # NoAgent
    BY RelayAssumption
  <2>. QED
    BY <2>1 DEF LiveStreamsHaveEnds, IsAgent
<1> HIDE DEF S
<1>3. TypeOK'
  <2>1. agentStreams' \in [Agents -> SUBSET StreamIds]
    BY <1>1, SlotsAfterEffect
  <2>2. toAgent' \in [Agents -> Seq(ToAgentFrames)]
    BY <1>1, AgentsToldAbortType DEF TypeOK
  <2>3. toClient' \in [Clients -> Seq(ToClientFrames)]
    <3>1. \A k \in Clients : AbortFrames({c \in S : st[c].client = k}) \in Seq(ToClientFrames)
      BY <1>1, AbortFramesToBoth
    <3>. QED
      BY <1>1, <3>1 DEF TypeOK
  <2>4. wsAgent' \in [Agents -> WsStates] /\ agents' \subseteq Agents
    BY <1>1 DEF TypeOK, WsStates
  <2>. QED
    BY <1>1, <2>1, <2>2, <2>3, <2>4, CleanupEffect DEF TypeOK
<1>4. TableConsistent' /\ LiveNamed'
  BY <1>1, CleanupEffect
<1>5. OpenRegistered'
  BY <1>1 DEF OpenRegistered
<1>6. LiveStreamsHaveEnds'
  <2>1. ASSUME NEW c \in LiveConns'
        PROVE  c \in LiveConns \ S /\ st'[c] = st[c] /\ st[c].agent # a
    BY <1>1, <1>2, CleanupEffect
  <2>2. ASSUME NEW c \in LiveConns \ S, IsAgent(c)
        PROVE  st[c].id \in agentStreams'[st[c].agent]
    <3>1. st[c].agent \in Agents /\ st[c].agent # a
      BY <1>2, <2>2 DEF IsAgent, LiveConns, TypeOK, StreamStates
    <3>2. st[c].id \in SlotsAfter(S)[st[c].agent]
      BY <1>1, <2>2, SlotsAfterEffect
    <3>. QED
      BY <1>1, <3>1, <3>2, SlotsAfterEffect
  <2>3. \A b \in agents \ {a} : b \in agents' /\ wsAgent'[b] = wsAgent[b]
    BY <1>1 DEF TypeOK
  <2>. QED
    BY <1>1, <2>1, <2>2, <2>3 DEF LiveStreamsHaveEnds, IsAgent
<1>. QED
  BY <1>3, <1>4, <1>5, <1>6

\* A TCP_CONNECT, refused or accepted.
LEMMA TcpConnect ==
  ASSUME IInv, NEW a \in Agents, NEW c \in Conns, NEW p \in Ports,
         NEW t \in TunnelIds \cup {NoTunnelId}, HandleTcpConnect(a, c, p, t)
  PROVE  IInv'
<1>1. TypeOK /\ a \in agents /\ wsAgent[a] = "open" /\ st[c].phase = "unused"
      /\ UNCHANGED <<portCount, peerVars>>
  BY DEF HandleTcpConnect, IInv
<1>2. CASE /\ st' = [st EXCEPT ![c].phase = "refused"]
           /\ toAgent' = ToAgent(a, <<RejectFrame(c)>>)
           /\ UNCHANGED <<streams, nextStreamId, agentPortCount, agentStreams, toClient>>
  <2>1. <<RejectFrame(c)>> \in Seq(ToAgentFrames)
    BY DEF RejectFrame, ToAgentFrames
  <2>2. toAgent' \in [Agents -> Seq(ToAgentFrames)]
    BY <1>1, <1>2, <2>1, ToAgentType
  <2> DEFINE s == [st[c] EXCEPT !.phase = "refused"]
  <2>3. s \in StreamStates /\ s.phase # "live" /\ st' = [st EXCEPT ![c] = s]
    BY <1>1, <1>2, ZenonT(40) DEF TypeOK, StreamStates, Phases
  <2>4. ~Live(c) /\ toClient' \in [Clients -> Seq(ToClientFrames)]
    BY <1>1, <1>2 DEF Live, TypeOK
  <2>. QED
    BY <1>1, <1>2, <2>2, <2>3, <2>4, NotLiveChange
<1>3. CASE /\ \E k \in TargetClients(t) : StartStream(c, p, k, a)
           /\ agentPortCount' = [agentPortCount EXCEPT ![p] = @ + 1]
           /\ UNCHANGED toAgent
  <2>1. PICK k \in TargetClients(t) : StartStream(c, p, k, a)
    BY <1>3
  <2>2. k \in OpenClients
    BY <2>1 DEF TargetClients, OpenClients, IInv, OpenRegistered
  <2>3. agentPortCount' \in [Ports -> Nat] /\ portCount' \in [Ports -> Nat]
    BY <1>1, <1>3 DEF TypeOK
  <2>4. toAgent' \in [Agents -> Seq(ToAgentFrames)]
    BY <1>1, <1>3 DEF TypeOK
  <2>. QED
    BY <1>1, <2>1, <2>2, <2>3, <2>4, StartOneStream
<1>. QED
  BY <1>2, <1>3 DEF HandleTcpConnect

\* An entry of the table is a live stream.
LEMMA TableEntryLive ==
  ASSUME IInv, NEW i \in StreamIds, streams[i] # NoConn
  PROVE  streams[i] \in LiveConns /\ st[streams[i]].id = i
BY DEF IInv, TypeOK, TableConsistent, LiveConns

\* A stream frame from an agent.
LEMMA AgentFrame ==
  ASSUME IInv, NEW a \in Agents, NEW f \in FromAgentFrames, HandleAgentFrame(a, f)
  PROVE  IInv'
<1>1. TypeOK /\ f.id \in StreamIds /\ f.type \in {"TCP_DATA"} \cup EndTypes
  BY DEF IInv, FromAgentFrames, EndTypes
<1>2. CASE AgentStreamMissing(a, f.type, f.id)
  <2>1. <<StreamFrame("TCP_ABORT", f.id)>> \in Seq(ToAgentFrames)
    BY <1>1 DEF StreamFrame, ToAgentFrames, DownFrames, EndTypes
  <2>2. toAgent' \in [Agents -> Seq(ToAgentFrames)]
    <3>1. CASE f.type = "TCP_ABORT"
      BY <1>1, <1>2, <3>1 DEF AgentStreamMissing, TypeOK
    <3>2. CASE f.type # "TCP_ABORT"
      BY <1>1, <1>2, <2>1, <3>2, ToAgentType DEF AgentStreamMissing
    <3>. QED
      BY <3>1, <3>2
  <2>3. toClient' \in [Clients -> Seq(ToClientFrames)]
    BY <1>1, <1>2 DEF AgentStreamMissing, TypeOK
  <2>. QED
    BY <1>2, <2>2, <2>3, FramesOnly DEF AgentStreamMissing
<1>3. CASE AgentFrameIgnored(a, f.id)
  <2>1. UNCHANGED <<streamVars, peerVars>> /\ toAgent' = toAgent /\ toClient' = toClient
    BY <1>3 DEF AgentFrameIgnored, relayVars, streamVars, peerVars
  <2>. QED
    BY <1>1, <2>1, FramesOnly DEF TypeOK
<1>4. CASE AgentStreamFrame(a, f.type, f.id)
  <2>1. streams[f.id] \in LiveConns
    BY <1>1, <1>4, TableEntryLive DEF AgentStreamFrame, IsAgentStream
  <2>. QED
    BY <1>4, <2>1, StreamEndings DEF AgentStreamFrame
<1>. QED
  BY <1>2, <1>3, <1>4 DEF HandleAgentFrame

\* The changes of one state object keep its type.
LEMMA StateChanges ==
  ASSUME NEW s \in StreamStates
  PROVE  /\ [s EXCEPT !.phase = "cleaned"] \in StreamStates
         /\ [s EXCEPT !.awaiting = FALSE] \in StreamStates
         /\ [s EXCEPT !.socket = "destroyed"] \in StreamStates
         /\ [s EXCEPT !.socket = "destroyed"].phase = s.phase
         /\ [s EXCEPT !.phase = "refused", !.socket = "destroyed"] \in StreamStates
         /\ [s EXCEPT !.phase = "refused", !.socket = "destroyed"].phase = "refused"
         /\ [s EXCEPT !.awaiting = FALSE].phase = s.phase
         /\ [s EXCEPT !.awaiting = FALSE].id = s.id
         /\ [s EXCEPT !.awaiting = FALSE].client = s.client
         /\ [s EXCEPT !.awaiting = FALSE].agent = s.agent
         /\ [s EXCEPT !.awaiting = FALSE].socket = s.socket
BY DEF StreamStates, Phases

\* The local end confirmed the stream, once or again.
LEMMA OpenAck ==
  ASSUME IInv, NEW c \in LiveConns, TcpOpenAck(c)
  PROVE  IInv'
<1> USE DEF IInv
<1>0. c \in Conns /\ st[c].id \in StreamIds
  BY DEF LiveConns, LiveNamed
<1>1. toAgent' \in [Agents -> Seq(ToAgentFrames)]
  <2>1. <<AckFrame(st[c].id, c)>> \in Seq(ToAgentFrames)
    BY <1>0 DEF AckFrame, ToAgentFrames
  <2>2. CASE st[c].awaiting
    BY <2>1, <2>2, ToAgentType DEF TcpOpenAck
  <2>3. CASE ~st[c].awaiting
    BY <2>3 DEF TcpOpenAck, TypeOK
  <2>. QED
    BY <2>2, <2>3
<1>2. st' \in [Conns -> StreamStates]
  <2>1. [st[c] EXCEPT !.awaiting = FALSE] \in StreamStates
    BY <1>0, StateChanges DEF TypeOK
  <2>. QED
    BY <2>1 DEF TcpOpenAck, TypeOK
<1>3. \A d \in Conns : /\ st'[d].phase = st[d].phase /\ st'[d].id = st[d].id
                       /\ st'[d].client = st[d].client /\ st'[d].agent = st[d].agent
                       /\ st'[d].socket = st[d].socket
  <2>1. st[c] \in StreamStates /\ (st' = st \/ st' = [st EXCEPT ![c] = [st[c] EXCEPT !.awaiting = FALSE]])
    BY <1>0 DEF TcpOpenAck, TypeOK
  <2> DEFINE t == [st[c] EXCEPT !.awaiting = FALSE]
  <2>2. /\ t.phase = st[c].phase /\ t.id = st[c].id /\ t.client = st[c].client
        /\ t.agent = st[c].agent /\ t.socket = st[c].socket
    BY <2>1, StateChanges
  <2>3. st' = st \/ st' = [st EXCEPT ![c] = t]
    BY <2>1
  <2> HIDE DEF t
  <2>. QED
    BY <2>2, <2>3 DEF TypeOK
<1>4. TypeOK'
  BY <1>1, <1>2 DEF TcpOpenAck, TypeOK, peerVars
<1>5. TableConsistent' /\ LiveNamed' /\ OpenRegistered'
  BY <1>3 DEF TcpOpenAck, TableConsistent, LiveNamed, OpenRegistered, LiveConns, Live, peerVars
<1>6. LiveStreamsHaveEnds'
  BY <1>3 DEF TcpOpenAck, LiveStreamsHaveEnds, LiveConns, Live, IsAgent, peerVars
<1>. QED
  BY <1>4, <1>5, <1>6

\* TCP_CLOSE and TCP_ABORT of a live stream by its client, and a write to it.
LEMMA ClientEndings ==
  ASSUME IInv, NEW c \in LiveConns,
         TcpDataFromClient(c) \/ TcpCloseFromClient(c) \/ TcpAbortFromClient(c)
  PROVE  IInv'
<1>1. TypeOK /\ toClient \in [Clients -> Seq(ToClientFrames)] /\ "TCP_CLOSE" \in EndTypes
  BY DEF IInv, TypeOK, EndTypes
<1>2. CASE TcpDataFromClient(c)
  <2>1. toAgent' \in [Agents -> Seq(ToAgentFrames)]
    BY <1>1, <1>2, StreamFrameTypes, ToAgentType DEF TcpDataFromClient
  <2>. QED
    BY <1>1, <1>2, <2>1, FramesOnly DEF TcpDataFromClient
<1>3. CASE TcpCloseFromClient(c)
  <2>1. toAgent' \in [Agents -> Seq(ToAgentFrames)]
    BY <1>1, <1>3, StreamFrameTypes, ToAgentType DEF TcpCloseFromClient
  <2>. QED
    BY <1>1, <1>3, <2>1, EndOneStream DEF TcpCloseFromClient
<1>4. CASE TcpAbortFromClient(c)
  <2> DEFINE reject == IF st[c].awaiting THEN <<RejectFrame(c)>> ELSE <<>>
  <2>1. reject \in Seq(ToAgentFrames) /\ AbortFrames({c}) \in Seq(ToAgentFrames)
    <3>1. RejectFrame(c) \in ToAgentFrames
      BY DEF RejectFrame, ToAgentFrames, LiveConns
    <3>2. reject \in Seq(ToAgentFrames)
      BY <3>1
    <3>. QED
      BY <1>1, <3>2, StreamFrameTypes
  <2>2. toAgent' = ToAgent(st[c].agent, reject \o AbortFrames({c}))
    BY <1>4 DEF TcpAbortFromClient
  <2> HIDE DEF reject
  <2>3. reject \o AbortFrames({c}) \in Seq(ToAgentFrames)
    BY <2>1
  <2>4. toAgent' \in [Agents -> Seq(ToAgentFrames)]
    BY <1>1, <2>2, <2>3, ToAgentType
  <2>. QED
    BY <1>1, <1>4, <2>4, EndOneStream DEF TcpAbortFromClient
<1>. QED
  BY <1>2, <1>3, <1>4

\* RES_ABORT takes a TCP stream out of the table and nothing else.
LEMMA ResAbort ==
  ASSUME IInv, NEW c \in LiveConns, ResAbortFromClient(c)
  PROVE  IInv'
<1> USE DEF IInv
<1>1. c \in Conns /\ st[c].id \in StreamIds
  BY DEF LiveConns, LiveNamed
<1>2. TypeOK'
  <2>1. [st[c] EXCEPT !.phase = "cleaned"] \in StreamStates
    BY <1>1, StateChanges DEF TypeOK
  <2>. QED
    BY <2>1 DEF ResAbortFromClient, TypeOK, peerVars
<1>3. \A d \in Conns : IF d = c THEN ~Live(d)' ELSE st'[d] = st[d] /\ Live(d)' = Live(d)
  BY <1>1 DEF ResAbortFromClient, TypeOK, StreamStates, Live
<1>4. TableConsistent'
  <2>1. \A i \in StreamIds : streams'[i] = IF i = st[c].id THEN NoConn ELSE streams[i]
    BY <1>1 DEF ResAbortFromClient, TypeOK
  <2>2. \A d \in Conns : d # c /\ Live(d) => st[d].id # st[c].id
    BY <1>1 DEF TableConsistent, LiveConns
  <2>3. streams[st[c].id] = c
    BY <1>1 DEF TableConsistent, LiveConns
  <2>. QED
    BY <1>1, <1>3, <2>1, <2>2, <2>3, RelayAssumption DEF TableConsistent
<1>5. LiveNamed' /\ OpenRegistered'
  BY <1>3 DEF ResAbortFromClient, LiveNamed, OpenRegistered, LiveConns, peerVars
<1>6. LiveStreamsHaveEnds'
  BY <1>3 DEF ResAbortFromClient, LiveStreamsHaveEnds, LiveConns, IsAgent, peerVars
<1>. QED
  BY <1>2, <1>4, <1>5, <1>6

\* A frame from a tunnel client.
LEMMA ClientFrame ==
  ASSUME IInv, NEW k \in Clients, NEW f \in FromClientFrames, HandleClientFrame(k, f)
  PROVE  IInv'
<1>1. f.id \in StreamIds
  BY DEF FromClientFrames
<1>2. CASE UNCHANGED relayVars
  <2>1. /\ UNCHANGED <<streamVars, peerVars>> /\ toAgent' = toAgent /\ toClient' = toClient
        /\ TypeOK
    BY <1>2 DEF relayVars, streamVars, peerVars, IInv
  <2>. QED
    BY <2>1, FramesOnly DEF TypeOK
<1>3. CASE Owns(k, f.id)
  <2>1. streams[f.id] \in LiveConns
    BY <1>1, <1>3, TableEntryLive DEF Owns
  <2>. QED
    BY <1>2, <2>1, OpenAck, ClientEndings, ResAbort DEF HandleClientFrame
<1>. QED
  BY <1>2, <1>3 DEF HandleClientFrame

\* A direct connection, refused or accepted.
LEMMA DirectConnection ==
  ASSUME IInv, NEW c \in Conns, NEW p \in Ports, NEW allowedIp \in BOOLEAN,
         HandleDirectConnection(c, p, allowedIp)
  PROVE  IInv'
<1>1. /\ TypeOK /\ st[c].phase = "unused" /\ UNCHANGED <<agentPortCount, peerVars, toAgent>>
      /\ toAgent' \in [Agents -> Seq(ToAgentFrames)]
  BY DEF HandleDirectConnection, IInv, TypeOK
<1>2. CASE /\ st' = [st EXCEPT ![c].phase = "refused", ![c].socket = "destroyed"]
           /\ UNCHANGED <<streams, nextStreamId, portCount, agentStreams, toClient>>
  <2> DEFINE s == [st[c] EXCEPT !.phase = "refused", !.socket = "destroyed"]
  <2>1. s \in StreamStates /\ s.phase # "live"
    <3>1. st[c] \in StreamStates
      BY <1>1 DEF TypeOK
    <3>. QED
      BY <3>1, StateChanges
  <2>2. st' = [st EXCEPT ![c] = s]
    BY <1>1, <1>2 DEF TypeOK
  <2>3. ~Live(c) /\ toClient' \in [Clients -> Seq(ToClientFrames)]
    BY <1>1, <1>2 DEF Live, TypeOK
  <2>. QED
    BY <1>1, <1>2, <2>1, <2>2, <2>3, NotLiveChange
<1>3. CASE /\ \E k \in OpenClients : StartStream(c, p, k, NoAgent)
           /\ portCount' = [portCount EXCEPT ![p] = @ + 1]
  <2>1. PICK k \in OpenClients : StartStream(c, p, k, NoAgent)
    BY <1>3
  <2>2. agentPortCount' \in [Ports -> Nat] /\ portCount' \in [Ports -> Nat]
    BY <1>1, <1>3 DEF TypeOK
  <2>. QED
    BY <1>1, <2>1, <2>2, StartOneStream
<1>. QED
  BY <1>2, <1>3 DEF HandleDirectConnection

\* Data on, and the end of, a direct connection's socket.
LEMMA DirectSocket ==
  ASSUME IInv, NEW c \in Conns, NEW error \in BOOLEAN, DirectData(c) \/ DirectEnd(c, error)
  PROVE  IInv'
<1>1. CASE DirectData(c)
  BY <1>1, StreamEndings DEF DirectData, LiveConns
<1>2. CASE DirectEnd(c, error) /\ Live(c)
  BY <1>2, StreamEndings DEF DirectEnd, LiveConns
<1>3. CASE DirectEnd(c, error) /\ ~Live(c)
  <2>1. /\ st' = [st EXCEPT ![c].socket = "destroyed"]
        /\ UNCHANGED <<streams, nextStreamId, portCount, agentPortCount,
                       agentStreams, peerVars, toClient, toAgent>>
    BY <1>3 DEF DirectEnd
  <2> DEFINE s == [st[c] EXCEPT !.socket = "destroyed"]
  <2>2. s \in StreamStates /\ s.phase # "live" /\ st' = [st EXCEPT ![c] = s]
    <3>1. st[c] \in StreamStates /\ st[c].phase # "live"
      BY <1>3 DEF IInv, TypeOK, Live
    <3>2. s \in StreamStates /\ s.phase = st[c].phase
      BY <3>1, StateChanges
    <3>. QED
      BY <2>1, <3>1, <3>2
  <2>3. /\ toAgent' \in [Agents -> Seq(ToAgentFrames)]
        /\ toClient' \in [Clients -> Seq(ToClientFrames)]
    BY <2>1 DEF IInv, TypeOK
  <2>. QED
    BY <1>3, <2>1, <2>2, <2>3, NotLiveChange
<1>. QED
  BY <1>1, <1>2, <1>3

\* A frame leaves a queue.
LEMMA Received ==
  ASSUME IInv, \/ \E k \in Clients : ReceivedByClient(k)
               \/ \E a \in Agents : ReceivedByAgent(a)
  PROVE  IInv'
<1> USE DEF IInv
<1>1. ASSUME NEW k \in Clients, ReceivedByClient(k) PROVE IInv'
  <2>1. Tail(toClient[k]) \in Seq(ToClientFrames)
    BY <1>1 DEF ReceivedByClient, TypeOK
  <2>2. /\ toClient' \in [Clients -> Seq(ToClientFrames)]
        /\ toAgent' \in [Agents -> Seq(ToAgentFrames)]
    BY <1>1, <2>1 DEF ReceivedByClient, TypeOK
  <2>. QED
    BY <1>1, <2>2, FramesOnly DEF ReceivedByClient
<1>2. ASSUME NEW a \in Agents, ReceivedByAgent(a) PROVE IInv'
  <2>1. Tail(toAgent[a]) \in Seq(ToAgentFrames)
    BY <1>2 DEF ReceivedByAgent, TypeOK
  <2>2. /\ toClient' \in [Clients -> Seq(ToClientFrames)]
        /\ toAgent' \in [Agents -> Seq(ToAgentFrames)]
    BY <1>2, <2>1 DEF ReceivedByAgent, TypeOK
  <2>. QED
    BY <1>2, <2>2, FramesOnly DEF ReceivedByAgent
<1>. QED
  BY <1>1, <1>2

-----------------------------------------------------------------------------
(* The theorems.                                                           *)

\* Every step of the relay keeps the invariant.
LEMMA StepIInv == IInv /\ [RelayNext]_relayVars => IInv'
<1> SUFFICES ASSUME IInv, [RelayNext]_relayVars PROVE IInv'
  OBVIOUS
<1>1. ASSUME NEW k \in Clients, ClientEvent(k) PROVE IInv'
  BY <1>1, ClientRegistration, ClientCleanup, ClientFrame, Received DEF ClientEvent
<1>2. ASSUME NEW a \in Agents, AgentEvent(a) PROVE IInv'
  BY <1>2, AgentRegistration, AgentCleanup, TcpConnect, AgentFrame, Received DEF AgentEvent
<1>3. ASSUME NEW c \in Conns, ConnEvent(c) PROVE IInv'
  BY <1>3, DirectConnection, DirectSocket, StreamEndings DEF ConnEvent, StreamIdle, LiveConns
<1>4. CASE UNCHANGED relayVars
  <2>1. /\ UNCHANGED <<streamVars, peerVars>> /\ toAgent' = toAgent /\ toClient' = toClient
        /\ TypeOK
    BY <1>4 DEF relayVars, streamVars, peerVars, IInv
  <2>. QED
    BY <2>1, FramesOnly DEF TypeOK
<1>. QED
  BY <1>1, <1>2, <1>3, <1>4 DEF RelayNext

\* Every reachable state of the relay satisfies the invariant.
THEOREM InvariantHolds == RelaySpec => []IInv
BY InitIInv, StepIInv, PTL DEF RelaySpec

\* Tables, counters and queues keep their types whatever the peers send.
THEOREM TypeCorrect == RelaySpec => []TypeOK
<1>1. IInv => TypeOK
  BY DEF IInv
<1>. QED
  BY <1>1, InvariantHolds, PTL

\* An id maps to a connection exactly while that connection is live under that
\* id: allocateStreamId and the cleanup paths of StreamManager agree.
THEOREM TableStaysConsistent == RelaySpec => []TableConsistent
<1>1. IInv => TableConsistent
  BY DEF IInv
<1>. QED
  BY <1>1, InvariantHolds, PTL

\* No live stream is ever without its client, its socket or its agent:
\* removeClient and _cleanupAgent find every stream they must end.
THEOREM LiveStreamsKeepEnds == RelaySpec => []LiveStreamsHaveEnds
<1>1. IInv => LiveStreamsHaveEnds
  BY DEF IInv
<1>. QED
  BY <1>1, InvariantHolds, PTL

-----------------------------------------------------------------------------
(***************************************************************************)
(* Proofs about the counters and limits of TcpRelay: the per-port counters *)
(* are exact and no limit is ever exceeded.  Every step of the relay is of *)
(* one of three kinds (StepKinds): it ends a set of live streams, starts   *)
(* one stream, or leaves what is counted alone.                            *)
(***************************************************************************)


-----------------------------------------------------------------------------
(* The three kinds of step.                                                *)

SlotsShrink == \A a \in Agents : agentStreams'[a] \subseteq agentStreams[a]

\* onCleanup runs for every connection of S
Ends(S) == CleanupTcpStreams(S) /\ SlotsShrink

\* the checks of _handleConnection or _handleTcpConnect have passed
MayStart(p, a) ==
    /\ Cardinality(StreamsInUse) < MaxStreams
    /\ a = NoAgent /\ MaxPerPort > 0 => portCount[p] < MaxPerPort
    /\ a # NoAgent /\ MaxPerPort > 0 => agentPortCount[p] < MaxPerPort
    /\ a # NoAgent /\ MaxPerAgent > 0 => Cardinality(agentStreams[a]) < MaxPerAgent

Starts(c, p, a, i) ==
    /\ st[c].phase = "unused" /\ MayStart(p, a)
    /\ \A d \in Conns \ {c} : st'[d] = st[d]
    /\ st'[c].phase = "live" /\ st'[c].port = p /\ st'[c].agent = a /\ st'[c].counted
    /\ streams' = [streams EXCEPT ![i] = c]
    /\ agentStreams' = IF a = NoAgent THEN agentStreams
                       ELSE [agentStreams EXCEPT ![a] = @ \cup {i}]
    /\ portCount' = IF a = NoAgent THEN [portCount EXCEPT ![p] = @ + 1] ELSE portCount
    /\ agentPortCount' = IF a = NoAgent THEN agentPortCount
                         ELSE [agentPortCount EXCEPT ![p] = @ + 1]

SameHolding(c) ==
    /\ st'[c].port = st[c].port /\ st'[c].agent = st[c].agent
    /\ st'[c].counted = st[c].counted
    /\ st'[c].phase = "live" => st[c].phase = "live"
    /\ st'[c].phase = "unused" => st[c].phase = "unused"
    /\ st'[c].phase = "refused" => st[c].phase \in {"unused", "refused"}

Keeps ==
    /\ \A c \in Conns : SameHolding(c)
    /\ StreamsInUse' \subseteq StreamsInUse
    /\ SlotsShrink
    /\ portCount' = portCount /\ agentPortCount' = agentPortCount

StepKind ==
    \/ \E S \in SUBSET LiveConns : Ends(S)
    \/ \E c \in Conns, p \in Ports, a \in Agents \cup {NoAgent}, i \in StreamIds :
          Starts(c, p, a, i)
    \/ Keeps

-----------------------------------------------------------------------------
(* Every step is of one of them.                                           *)

\* Giving slots back only shrinks the sets.
LEMMA SlotsAfterShrink ==
  ASSUME TypeOK, NEW S \in SUBSET LiveConns,
         agentStreams' = SlotsAfter(S)
  PROVE  SlotsShrink
BY DEF SlotsShrink, SlotsAfter

\* A step that changes neither streams nor counters.
LEMMA NothingCounted ==
  ASSUME UNCHANGED <<streams, st, portCount, agentPortCount>>, SlotsShrink
  PROVE  Keeps
BY DEF Keeps, SameHolding, StreamsInUse

\* A step that leaves all of the stream's variables alone.
LEMMA NothingChanged ==
  ASSUME UNCHANGED streamVars
  PROVE  Keeps
BY NothingCounted DEF streamVars, SlotsShrink

\* The handlers that end one live stream.
LEMMA EndingKinds ==
  ASSUME IInv, NEW c \in LiveConns,
         \/ \E notify \in BOOLEAN : AbortTcpStream(c, notify)
         \/ CloseTcpStream(c) \/ RelaySocketError(c) \/ RelayInboundData(c)
         \/ TcpCloseFromClient(c) \/ TcpAbortFromClient(c)
  PROVE  StepKind
<1>1. CASE CleanupTcpStreams({c}) /\ agentStreams' = SlotsAfter({c})
  <2>1. {c} \in SUBSET LiveConns /\ TypeOK
    BY DEF IInv
  <2>2. Ends({c})
    BY <1>1, <2>1, SlotsAfterShrink DEF Ends
  <2>. QED
    BY <2>1, <2>2 DEF StepKind
<1>2. CASE UNCHANGED streamVars
  BY <1>2, NothingChanged DEF StepKind
<1>. QED
  BY <1>1, <1>2 DEF AbortTcpStream, CloseTcpStream, RelaySocketError, RelayInboundData,
                    TcpCloseFromClient, TcpAbortFromClient

\* RES_ABORT marks the stream cleaned and drops it from the table, but gives
\* neither its count nor its slot back: nothing that is counted changes.
LEMMA ResAbortKeeps ==
  ASSUME IInv, NEW c \in LiveConns, ResAbortFromClient(c)
  PROVE  Keeps
<1>1. c \in Conns /\ st[c] \in StreamStates /\ st[c].phase = "live"
      /\ streams \in [StreamIds -> Conns \cup {NoConn}]
  BY DEF IInv, TypeOK, LiveConns, Live
<1>2. \A d \in Conns : SameHolding(d)
  <2> DEFINE s == [st[c] EXCEPT !.phase = "cleaned"]
  <2>1. /\ s.port = st[c].port /\ s.agent = st[c].agent /\ s.counted = st[c].counted
        /\ s.phase = "cleaned"
    BY <1>1 DEF StreamStates
  <2>2. \A d \in Conns : st'[d] = IF d = c THEN s ELSE st[d]
    BY <1>1 DEF ResAbortFromClient, IInv, TypeOK
  <2> HIDE DEF s
  <2>. QED
    BY <2>1, <2>2 DEF SameHolding
<1>3. StreamsInUse' \subseteq StreamsInUse
  BY <1>1 DEF StreamsInUse, ResAbortFromClient
<1>. QED
  BY <1>2, <1>3 DEF Keeps, ResAbortFromClient, SlotsShrink

\* TCP_OPEN_ACK only ends the wait for the answer.
LEMMA OpenAckKeeps ==
  ASSUME IInv, NEW c \in LiveConns, TcpOpenAck(c)
  PROVE  Keeps
<1>1. c \in Conns /\ st[c] \in StreamStates
  BY DEF IInv, TypeOK, LiveConns
<1> DEFINE s == [st[c] EXCEPT !.awaiting = FALSE]
<1>2. s.port = st[c].port /\ s.agent = st[c].agent /\ s.counted = st[c].counted
      /\ s.phase = st[c].phase
  BY <1>1 DEF StreamStates
<1>3. st' = st \/ \A d \in Conns : st'[d] = IF d = c THEN s ELSE st[d]
  BY <1>1 DEF TcpOpenAck, IInv, TypeOK
<1> HIDE DEF s
<1>4. \A d \in Conns : SameHolding(d)
  BY <1>2, <1>3 DEF SameHolding
<1>. QED
  BY <1>4 DEF Keeps, TcpOpenAck, SlotsShrink, StreamsInUse

\* Frames from a client, and the loss of one.
LEMMA ClientKinds ==
  ASSUME IInv, NEW k \in Clients, ClientEvent(k)
  PROVE  StepKind
<1>1. ASSUME NEW f \in FromClientFrames, HandleClientFrame(k, f) PROVE StepKind
  <2>1. CASE UNCHANGED relayVars
    BY <2>1, NothingChanged DEF relayVars, streamVars, StepKind
  <2>2. CASE Owns(k, f.id)
    <3>1. streams[f.id] \in LiveConns
      BY <2>2, TableEntryLive DEF FromClientFrames, Owns
    <3>2. ASSUME NEW c \in LiveConns, TcpDataFromClient(c) PROVE StepKind
      BY <3>2, NothingChanged DEF TcpDataFromClient, StepKind
    <3>. QED
      BY <1>1, <2>1, <3>1, <3>2, OpenAckKeeps, ResAbortKeeps, EndingKinds
      DEF HandleClientFrame, StepKind
  <2>. QED
    BY <1>1, <2>1, <2>2 DEF HandleClientFrame
<1>2. CASE CleanupClient(k)
  <2> DEFINE S == IF k \in clients THEN {c \in LiveConns : st[c].client = k} ELSE {}
  <2>1. S \in SUBSET LiveConns /\ TypeOK
    BY DEF IInv
  <2>2. CleanupTcpStreams(S) /\ agentStreams' = SlotsAfter(S)
    BY <1>2 DEF CleanupClient
  <2> HIDE DEF S
  <2>3. Ends(S)
    BY <2>1, <2>2, SlotsAfterShrink DEF Ends
  <2>. QED
    BY <2>1, <2>3 DEF StepKind
<1>3. CASE UNCHANGED streamVars
  BY <1>3, NothingChanged DEF StepKind
<1>. QED
  BY <1>1, <1>2, <1>3 DEF ClientEvent, AddClient, RefuseClient, ClientClosing, ReceivedByClient

\* The table is finite.
LEMMA IdsFinite == IsFiniteSet(StreamIds) /\ StreamsInUse \subseteq StreamIds
<1>1. MaxStreamId \in Int /\ 1 \in Int
  BY RelayAssumption
<1>2. IsFiniteSet(1..MaxStreamId)
  BY <1>1, FS_Interval
<1>. QED
  BY <1>2 DEF StreamIds, StreamsInUse

\* A connection that is turned away.
LEMMA RefusedKeeps ==
  ASSUME IInv, NEW c \in Conns, st[c].phase = "unused",
         NEW s \in StreamStates, s.phase = "refused",
         s.port = st[c].port, s.agent = st[c].agent, s.counted = st[c].counted,
         st' = [st EXCEPT ![c] = s],
         UNCHANGED <<streams, portCount, agentPortCount, agentStreams>>
  PROVE  Keeps
<1>1. \A d \in Conns : SameHolding(d)
  BY DEF IInv, TypeOK, SameHolding
<1>. QED
  BY <1>1 DEF Keeps, SlotsShrink, StreamsInUse

\* A stream that is started after the checks.
LEMMA StartKind ==
  ASSUME IInv, NEW c \in Conns, NEW p \in Ports, NEW k, NEW a \in Agents \cup {NoAgent},
         st[c].phase = "unused", MayStart(p, a), StartStream(c, p, k, a),
         portCount' = IF a = NoAgent THEN [portCount EXCEPT ![p] = @ + 1] ELSE portCount,
         agentPortCount' = IF a = NoAgent THEN agentPortCount
                           ELSE [agentPortCount EXCEPT ![p] = @ + 1]
  PROVE  StepKind
<1>1. PICK i \in StreamIds :
          /\ streams' = [streams EXCEPT ![i] = c]
          /\ st' = [st EXCEPT ![c] =
                [phase |-> "live", id |-> i, port |-> p, client |-> k, agent |-> a,
                 awaiting |-> a # NoAgent, socket |-> "open", counted |-> TRUE]]
          /\ agentStreams' = IF a = NoAgent THEN agentStreams
                             ELSE [agentStreams EXCEPT ![a] = @ \cup {i}]
  BY DEF StartStream
<1>2. Starts(c, p, a, i)
  BY <1>1 DEF Starts, IInv, TypeOK
<1>. QED
  BY <1>2 DEF StepKind

\* TCP_CONNECT, refused or accepted.
LEMMA ConnectKind ==
  ASSUME IInv, NEW a \in Agents, NEW c \in Conns, NEW p \in Ports,
         NEW t \in TunnelIds \cup {NoTunnelId}, HandleTcpConnect(a, c, p, t)
  PROVE  StepKind
<1>1. st[c].phase = "unused" /\ st[c] \in StreamStates /\ portCount' = portCount
      /\ a # NoAgent
  BY RelayAssumption DEF HandleTcpConnect, IInv, TypeOK
<1>2. CASE /\ st' = [st EXCEPT ![c].phase = "refused"]
           /\ UNCHANGED <<streams, nextStreamId, agentPortCount, agentStreams, toClient>>
  <2> DEFINE s == [st[c] EXCEPT !.phase = "refused"]
  <2>1. /\ s \in StreamStates /\ s.phase = "refused" /\ s.port = st[c].port
        /\ s.agent = st[c].agent /\ s.counted = st[c].counted
    BY <1>1 DEF StreamStates, Phases
  <2>2. st' = [st EXCEPT ![c] = s]
    BY <1>1, <1>2 DEF IInv, TypeOK
  <2> HIDE DEF s
  <2>. QED
    BY <1>1, <1>2, <2>1, <2>2, RefusedKeeps DEF StepKind
<1>3. CASE /\ ~ConnectRefused(a, p, t)
           /\ \E k \in TargetClients(t) : StartStream(c, p, k, a)
           /\ agentPortCount' = [agentPortCount EXCEPT ![p] = @ + 1]
  <2>1. Cardinality(StreamsInUse) \in Nat /\ Cardinality(agentStreams[a]) \in Nat
    <3>1. agentStreams[a] \subseteq StreamIds
      BY DEF IInv, TypeOK
    <3>. QED
      BY <3>1, IdsFinite, FS_Subset, FS_CardinalityType
  <2>2. MayStart(p, a)
    BY <1>1, <1>3, <2>1, RelayAssumption DEF MayStart, ConnectRefused, IInv, TypeOK
  <2>. QED
    BY <1>1, <1>3, <2>2, StartKind
<1>. QED
  BY <1>2, <1>3 DEF HandleTcpConnect

\* Frames from an agent, and the loss of one.
LEMMA AgentKinds ==
  ASSUME IInv, NEW a \in Agents, AgentEvent(a)
  PROVE  StepKind
<1>1. ASSUME NEW f \in FromAgentFrames, HandleAgentFrame(a, f) PROVE StepKind
  <2>1. CASE UNCHANGED streamVars
    BY <2>1, NothingChanged DEF StepKind
  <2>2. CASE AgentStreamFrame(a, f.type, f.id)
    <3>1. streams[f.id] \in LiveConns
      BY <2>2, TableEntryLive DEF AgentStreamFrame, IsAgentStream, FromAgentFrames
    <3>. QED
      BY <2>2, <3>1, EndingKinds DEF AgentStreamFrame
  <2>. QED
    BY <1>1, <2>1, <2>2
    DEF HandleAgentFrame, AgentStreamMissing, AgentFrameIgnored, relayVars, streamVars
<1>2. CASE CleanupAgent(a)
  <2> DEFINE S == {c \in LiveConns : st[c].id \in agentStreams[a]}
  <2>1. S \in SUBSET LiveConns
    OBVIOUS
  <2>2. CleanupTcpStreams(S) /\ agentStreams' = [SlotsAfter(S) EXCEPT ![a] = {}]
    BY <1>2 DEF CleanupAgent
  <2>3. SlotsShrink
    BY <2>2 DEF SlotsShrink, SlotsAfter
  <2> HIDE DEF S
  <2>. QED
    BY <2>1, <2>2, <2>3 DEF StepKind, Ends
<1>3. CASE HandleConnection(a)
  BY <1>3, NothingCounted DEF HandleConnection, StepKind, SlotsShrink, IInv, TypeOK
<1>4. CASE UNCHANGED streamVars
  BY <1>4, NothingChanged DEF StepKind
<1>. QED
  BY <1>1, <1>2, <1>3, <1>4, ConnectKind DEF AgentEvent, AgentClosing, ReceivedByAgent

\* A direct connection and the events of its socket.
LEMMA ConnKinds ==
  ASSUME IInv, NEW c \in Conns, ConnEvent(c)
  PROVE  StepKind
<1>1. st[c] \in StreamStates /\ TypeOK
  BY DEF IInv, TypeOK
<1>2. ASSUME NEW p \in Ports, NEW allowedIp \in BOOLEAN, HandleDirectConnection(c, p, allowedIp)
      PROVE  StepKind
  <2>1. CASE /\ st[c].phase = "unused"
             /\ st' = [st EXCEPT ![c].phase = "refused", ![c].socket = "destroyed"]
             /\ UNCHANGED <<streams, nextStreamId, portCount, agentStreams, toClient>>
             /\ agentPortCount' = agentPortCount
    <3> DEFINE s == [st[c] EXCEPT !.phase = "refused", !.socket = "destroyed"]
    <3>1. /\ s \in StreamStates /\ s.phase = "refused" /\ s.port = st[c].port
          /\ s.agent = st[c].agent /\ s.counted = st[c].counted
      BY <1>1 DEF StreamStates, Phases
    <3>2. st' = [st EXCEPT ![c] = s]
      BY <1>1, <2>1 DEF TypeOK
    <3> HIDE DEF s
    <3>. QED
      BY <2>1, <3>1, <3>2, RefusedKeeps DEF StepKind
  <2>2. CASE /\ st[c].phase = "unused" /\ ~ConnectionRefused(p, allowedIp)
             /\ \E k \in OpenClients : StartStream(c, p, k, NoAgent)
             /\ portCount' = [portCount EXCEPT ![p] = @ + 1]
             /\ agentPortCount' = agentPortCount
    <3>1. Cardinality(StreamsInUse) \in Nat
      BY IdsFinite, FS_Subset, FS_CardinalityType
    <3>2. MayStart(p, NoAgent)
      BY <1>1, <2>2, <3>1, RelayAssumption DEF MayStart, ConnectionRefused, TypeOK
    <3>. QED
      BY <2>2, <3>2, StartKind
  <2>. QED
    BY <1>2, <2>1, <2>2 DEF HandleDirectConnection
<1>3. ASSUME NEW error \in BOOLEAN, DirectEnd(c, error), ~Live(c) PROVE StepKind
  <2> DEFINE s == [st[c] EXCEPT !.socket = "destroyed"]
  <2>1. /\ s.phase = st[c].phase /\ s.port = st[c].port /\ s.agent = st[c].agent
        /\ s.counted = st[c].counted
    BY <1>1 DEF StreamStates
  <2>2. \A d \in Conns : st'[d] = IF d = c THEN s ELSE st[d]
    BY <1>1, <1>3 DEF DirectEnd, TypeOK
  <2> HIDE DEF s
  <2>3. \A d \in Conns : SameHolding(d)
    BY <2>1, <2>2 DEF SameHolding
  <2>. QED
    BY <1>3, <2>3 DEF DirectEnd, Keeps, SlotsShrink, StreamsInUse, StepKind
<1>. QED
  BY <1>2, <1>3, EndingKinds DEF ConnEvent, DirectData, DirectEnd, StreamIdle, LiveConns

\* Every step ends live streams, starts one, or leaves the counted alone.
LEMMA StepKinds ==
  ASSUME IInv, [RelayNext]_relayVars
  PROVE  StepKind
<1>1. CASE UNCHANGED relayVars
  BY <1>1, NothingChanged DEF relayVars, streamVars, StepKind
<1>. QED
  BY <1>1, ClientKinds, AgentKinds, ConnKinds DEF RelayNext

-----------------------------------------------------------------------------
(* The counters.                                                           *)

\* a connection that never got a stream holds no count
UnstartedUncounted ==
    \A c \in Conns : st[c].phase \in {"unused", "refused"} => ~st[c].counted

CInv == IInv /\ UnstartedUncounted /\ CountsExact

\* Cleaned connections give their counts back, and only those.
LEMMA EndsKeepsCounts ==
  ASSUME CInv, NEW S \in SUBSET LiveConns, Ends(S)
  PROVE  UnstartedUncounted' /\ CountsExact'
<1> USE DEF CInv, IInv
<1>1. S \subseteq Conns /\ IsFiniteSet(Conns) /\ \A c \in S : st[c].counted
  BY RelayAssumption DEF LiveConns, CountsExact
<1>2. \A c \in Conns : IF c \in S THEN st'[c].phase = "cleaned" /\ ~st'[c].counted
                                ELSE st'[c] = st[c]
  BY <1>1 DEF Ends, CleanupTcpStreams, CleanedState, TypeOK, StreamStates
<1>3. \A p \in Ports, d \in BOOLEAN : CountedOn(p, d)' = CountedOn(p, d) \ S
  BY <1>1, <1>2 DEF CountedOn
<1>4. \A n, m \in Nat : m <= n => Lowered(n, m) = n - m
  BY DEF Lowered
<1>5. ASSUME NEW p \in Ports, NEW d \in BOOLEAN
      PROVE  Lowered(Cardinality(CountedOn(p, d)), Cardinality(S \cap CountedOn(p, d)))
             = Cardinality(CountedOn(p, d)')
  <2> DEFINE T == CountedOn(p, d)
  <2>1. IsFiniteSet(T)
    BY <1>1, FS_Subset DEF CountedOn
  <2>2. /\ Cardinality(T \ S) = Cardinality(T) - Cardinality(T \cap S)
        /\ Cardinality(T \cap S) \in Nat /\ Cardinality(T) \in Nat
        /\ Cardinality(T \cap S) <= Cardinality(T)
    <3>1. IsFiniteSet(T \cap S) /\ Cardinality(T \cap S) <= Cardinality(T)
      BY <2>1, FS_Subset
    <3>2. Cardinality(T \ S) = Cardinality(T) - Cardinality(T \cap S)
      BY <2>1, FS_Difference
    <3>. QED
      BY <2>1, <3>1, <3>2, FS_CardinalityType
  <2>3. T \cap S = S \cap T
    OBVIOUS
  <2> HIDE DEF T
  <2>4. Lowered(Cardinality(T), Cardinality(S \cap T)) = Cardinality(T \ S)
    BY <1>4, <2>2, <2>3
  <2>. QED
    BY <1>3, <2>4 DEF T
<1>6. \A p \in Ports : /\ portCount'[p] = Cardinality(CountedOn(p, TRUE)')
                       /\ agentPortCount'[p] = Cardinality(CountedOn(p, FALSE)')
  <2>1. \A p \in Ports : /\ portCount[p] = Cardinality(CountedOn(p, TRUE))
                         /\ agentPortCount[p] = Cardinality(CountedOn(p, FALSE))
    BY DEF CountsExact
  <2>2. \A p \in Ports :
          /\ portCount'[p] = Lowered(portCount[p], Cardinality(S \cap CountedOn(p, TRUE)))
          /\ agentPortCount'[p] =
                Lowered(agentPortCount[p], Cardinality(S \cap CountedOn(p, FALSE)))
    BY DEF Ends, CleanupTcpStreams
  <2>. QED
    BY <1>5, <2>1, <2>2
<1>7. \A c \in LiveConns' : st'[c].counted
  BY <1>2 DEF LiveConns, Live, CountsExact
<1>8. UnstartedUncounted'
  BY <1>2 DEF UnstartedUncounted
<1>. QED
  BY <1>6, <1>7, <1>8 DEF CountsExact

\* A new stream takes one count.
LEMMA StartKeepsCounts ==
  ASSUME CInv, NEW c \in Conns, NEW p \in Ports, NEW a \in Agents \cup {NoAgent},
         NEW i \in StreamIds, Starts(c, p, a, i)
  PROVE  UnstartedUncounted' /\ CountsExact'
<1> USE DEF CInv, IInv
<1>1. /\ \A d \in Conns \ {c} : st'[d] = st[d]
      /\ st'[c].phase = "live" /\ st'[c].port = p /\ st'[c].agent = a /\ st'[c].counted
      /\ ~st[c].counted
  BY DEF Starts, UnstartedUncounted
<1>2. \A q \in Ports, d \in BOOLEAN :
         CountedOn(q, d)' = IF q = p /\ d = (a = NoAgent) THEN CountedOn(q, d) \cup {c}
                                                          ELSE CountedOn(q, d)
  BY <1>1 DEF CountedOn
<1>3. ASSUME NEW q \in Ports, NEW d \in BOOLEAN
      PROVE  /\ Cardinality(CountedOn(q, d) \cup {c}) = Cardinality(CountedOn(q, d)) + 1
             /\ Cardinality(CountedOn(q, d)) \in Nat
  <2>1. IsFiniteSet(CountedOn(q, d)) /\ c \notin CountedOn(q, d)
    BY <1>1, RelayAssumption, FS_Subset DEF CountedOn
  <2>. QED
    BY <2>1, FS_AddElement, FS_CardinalityType
<1>4. portCount \in [Ports -> Nat] /\ agentPortCount \in [Ports -> Nat]
  BY DEF TypeOK
<1>5. ASSUME NEW q \in Ports
      PROVE  /\ portCount'[q] = Cardinality(CountedOn(q, TRUE)')
             /\ agentPortCount'[q] = Cardinality(CountedOn(q, FALSE)')
  <2>1. /\ portCount[q] = Cardinality(CountedOn(q, TRUE))
        /\ agentPortCount[q] = Cardinality(CountedOn(q, FALSE))
    BY DEF CountsExact
  <2>2. CASE a = NoAgent
    <3>1. portCount'[q] = IF q = p THEN portCount[q] + 1 ELSE portCount[q]
      BY <1>4, <2>2 DEF Starts
    <3>2. agentPortCount'[q] = agentPortCount[q]
      BY <2>2 DEF Starts
    <3>3. /\ CountedOn(q, TRUE)' = IF q = p THEN CountedOn(q, TRUE) \cup {c}
                                           ELSE CountedOn(q, TRUE)
          /\ CountedOn(q, FALSE)' = CountedOn(q, FALSE)
      BY <1>2, <2>2
    <3>. QED
      BY <1>3, <2>1, <3>1, <3>2, <3>3
  <2>3. CASE a # NoAgent
    <3>1. agentPortCount'[q] = IF q = p THEN agentPortCount[q] + 1 ELSE agentPortCount[q]
      BY <1>4, <2>3 DEF Starts
    <3>2. portCount'[q] = portCount[q]
      BY <2>3 DEF Starts
    <3>3. /\ CountedOn(q, FALSE)' = IF q = p THEN CountedOn(q, FALSE) \cup {c}
                                            ELSE CountedOn(q, FALSE)
          /\ CountedOn(q, TRUE)' = CountedOn(q, TRUE)
      BY <1>2, <2>3
    <3>. QED
      BY <1>3, <2>1, <3>1, <3>2, <3>3
  <2>. QED
    BY <2>2, <2>3
<1>6. \A q \in Ports : /\ portCount'[q] = Cardinality(CountedOn(q, TRUE)')
                       /\ agentPortCount'[q] = Cardinality(CountedOn(q, FALSE)')
  BY <1>5
<1>7. (\A d \in LiveConns' : st'[d].counted) /\ UnstartedUncounted'
  BY <1>1 DEF LiveConns, Live, CountsExact, UnstartedUncounted
<1>. QED
  BY <1>6, <1>7 DEF CountsExact

\* The rest counts nothing.
LEMMA KeepsKeepsCounts ==
  ASSUME CInv, Keeps
  PROVE  UnstartedUncounted' /\ CountsExact'
<1> USE DEF CInv, IInv
<1>1. \A p \in Ports, d \in BOOLEAN : CountedOn(p, d)' = CountedOn(p, d)
  BY DEF CountedOn, Keeps, SameHolding
<1>2. (\A c \in LiveConns' : st'[c].counted) /\ UnstartedUncounted'
  BY DEF LiveConns, Live, CountsExact, UnstartedUncounted, Keeps, SameHolding
<1>. QED
  BY <1>1, <1>2 DEF CountsExact, Keeps

\* The relay starts with nothing counted.
LEMMA InitCInv == RelayInit => CInv
<1> SUFFICES ASSUME RelayInit PROVE CInv
  OBVIOUS
<1>1. \A c \in Conns : st[c].phase = "unused" /\ ~st[c].counted
  BY DEF RelayInit, Unused
<1>2. \A p \in Ports, d \in BOOLEAN : CountedOn(p, d) = {}
  BY <1>1 DEF CountedOn
<1>3. CountsExact
  BY <1>1, <1>2, FS_EmptySet DEF CountsExact, RelayInit, LiveConns, Live
<1>. QED
  BY <1>1, <1>3, InitIInv DEF CInv, UnstartedUncounted

\* Every step keeps the counters exact.
LEMMA StepCInv == CInv /\ [RelayNext]_relayVars => CInv'
<1> SUFFICES ASSUME CInv, [RelayNext]_relayVars PROVE CInv'
  OBVIOUS
<1>1. IInv' /\ StepKind
  BY StepIInv, StepKinds DEF CInv
<1>2. UnstartedUncounted' /\ CountsExact'
  BY <1>1, EndsKeepsCounts, StartKeepsCounts, KeepsKeepsCounts DEF StepKind
<1>. QED
  BY <1>1, <1>2 DEF CInv

\* The counters equal the connections that hold a count in every reachable
\* state: decrementCount and onCleanup run exactly once per stream.
THEOREM CountsStayExact == RelaySpec => []CountsExact
<1>1. CInv => CountsExact
  BY DEF CInv
<1>. QED
  BY <1>1, InitCInv, StepCInv, PTL DEF RelaySpec

-----------------------------------------------------------------------------
(* The limits.                                                             *)

\* what the checks of a new stream compare with the limits stays below them
WithinLimits ==
    /\ Cardinality(StreamsInUse) <= MaxStreams
    /\ MaxPerPort > 0 => \A p \in Ports : portCount[p] <= MaxPerPort /\ agentPortCount[p] <= MaxPerPort
    /\ MaxPerAgent > 0 => \A a \in Agents : Cardinality(agentStreams[a]) <= MaxPerAgent

LInv == CInv /\ WithinLimits

\* Sets of stream ids are finite, and a part is no larger than the whole.
LEMMA IdSets ==
  ASSUME NEW S \in SUBSET StreamIds
  PROVE  /\ IsFiniteSet(S) /\ Cardinality(S) \in Nat
         /\ \A T \in SUBSET S : Cardinality(T) \in Nat /\ Cardinality(T) <= Cardinality(S)
         /\ \A i \in StreamIds : Cardinality(S \cup {i}) <= Cardinality(S) + 1
<1>1. IsFiniteSet(S)
  BY IdsFinite, FS_Subset
<1>2. \A T \in SUBSET S : IsFiniteSet(T) /\ Cardinality(T) <= Cardinality(S)
  BY <1>1, FS_Subset
<1>3. ASSUME NEW i \in StreamIds PROVE Cardinality(S \cup {i}) <= Cardinality(S) + 1
  <2>1. Cardinality(S) \in Nat
    BY <1>1, FS_CardinalityType
  <2>2. Cardinality(S \cup {i}) = IF i \in S THEN Cardinality(S) ELSE Cardinality(S) + 1
    BY <1>1, FS_AddElement
  <2>. QED
    BY <2>1, <2>2
<1>. QED
  BY <1>1, <1>2, <1>3, FS_CardinalityType

\* Fewer streams and slots, and counters no larger, stay within the limits.
LEMMA ShrinkWithinLimits ==
  ASSUME IInv, IInv', WithinLimits, StreamsInUse' \subseteq StreamsInUse, SlotsShrink,
         \A p \in Ports : portCount'[p] <= portCount[p] /\ agentPortCount'[p] <= agentPortCount[p]
  PROVE  WithinLimits'
<1> USE RelayAssumption
<1>1. Cardinality(StreamsInUse') <= Cardinality(StreamsInUse)
      /\ Cardinality(StreamsInUse) \in Nat /\ Cardinality(StreamsInUse') \in Nat
  BY IdsFinite, IdSets
<1>2. ASSUME NEW a \in Agents
      PROVE  /\ Cardinality(agentStreams'[a]) <= Cardinality(agentStreams[a])
             /\ Cardinality(agentStreams[a]) \in Nat /\ Cardinality(agentStreams'[a]) \in Nat
  <2>1. agentStreams[a] \in SUBSET StreamIds /\ agentStreams'[a] \in SUBSET agentStreams[a]
    BY DEF IInv, TypeOK, SlotsShrink
  <2>. QED
    BY <2>1, IdSets
<1>3. \A p \in Ports : /\ portCount[p] \in Nat /\ portCount'[p] \in Nat
                       /\ agentPortCount[p] \in Nat /\ agentPortCount'[p] \in Nat
  BY DEF IInv, TypeOK
<1>4. Cardinality(StreamsInUse') <= MaxStreams
  BY <1>1 DEF WithinLimits
<1>5. MaxPerPort > 0 => \A p \in Ports : portCount'[p] <= MaxPerPort /\ agentPortCount'[p] <= MaxPerPort
  BY <1>3 DEF WithinLimits
<1>6. MaxPerAgent > 0 => \A a \in Agents : Cardinality(agentStreams'[a]) <= MaxPerAgent
  BY <1>2 DEF WithinLimits
<1>. QED
  BY <1>4, <1>5, <1>6 DEF WithinLimits

\* A new stream was checked against them.
LEMMA StartWithinLimits ==
  ASSUME IInv, WithinLimits, NEW c \in Conns, NEW p \in Ports, NEW a \in Agents \cup {NoAgent},
         NEW i \in StreamIds, Starts(c, p, a, i)
  PROVE  WithinLimits'
<1> USE RelayAssumption DEF IInv
<1>1. Cardinality(StreamsInUse') <= MaxStreams
  <2>1. StreamsInUse' = StreamsInUse \cup {i}
    BY DEF Starts, StreamsInUse, TypeOK
  <2>2. Cardinality(StreamsInUse \cup {i}) <= Cardinality(StreamsInUse) + 1
        /\ Cardinality(StreamsInUse) \in Nat
    BY IdsFinite, IdSets
  <2>3. StreamsInUse \cup {i} \in SUBSET StreamIds
    BY IdsFinite
  <2>4. Cardinality(StreamsInUse \cup {i}) \in Nat
    BY <2>3, IdSets
  <2>. QED
    BY <2>1, <2>2, <2>4 DEF Starts, MayStart
<1>2. MaxPerPort > 0 => \A q \in Ports : portCount'[q] <= MaxPerPort /\ agentPortCount'[q] <= MaxPerPort
  BY DEF Starts, MayStart, WithinLimits, TypeOK
<1>3. ASSUME MaxPerAgent > 0, NEW b \in Agents
      PROVE  Cardinality(agentStreams'[b]) <= MaxPerAgent
  <2>1. Cardinality(agentStreams[b]) <= MaxPerAgent
    BY <1>3 DEF WithinLimits
  <2>2. CASE b = a
    <3>1. agentStreams'[b] = agentStreams[b] \cup {i}
      BY <2>2 DEF Starts, TypeOK
    <3>2. agentStreams[b] \in SUBSET StreamIds /\ agentStreams[b] \cup {i} \in SUBSET StreamIds
      BY DEF TypeOK
    <3>3. /\ Cardinality(agentStreams[b] \cup {i}) <= Cardinality(agentStreams[b]) + 1
          /\ Cardinality(agentStreams[b]) \in Nat /\ Cardinality(agentStreams[b] \cup {i}) \in Nat
      BY <3>2, IdSets
    <3>4. Cardinality(agentStreams[b]) < MaxPerAgent
      BY <1>3, <2>2 DEF Starts, MayStart
    <3>. QED
      BY <3>1, <3>3, <3>4
  <2>3. CASE b # a
    <3>1. agentStreams'[b] = agentStreams[b]
      BY <2>3 DEF Starts, TypeOK
    <3>. QED
      BY <2>1, <3>1
  <2>. QED
    BY <2>2, <2>3
<1>. QED
  BY <1>1, <1>2, <1>3 DEF WithinLimits

\* Every step stays within the limits.
LEMMA StepLInv == LInv /\ [RelayNext]_relayVars => LInv'
<1> SUFFICES ASSUME LInv, [RelayNext]_relayVars PROVE LInv'
  OBVIOUS
<1>1. CInv' /\ IInv /\ IInv' /\ StepKind /\ WithinLimits
  BY StepCInv, StepKinds DEF LInv, CInv
<1>2. ASSUME NEW S \in SUBSET LiveConns, Ends(S) PROVE WithinLimits'
  <2>1. StreamsInUse' \subseteq StreamsInUse /\ SlotsShrink
    BY <1>1, <1>2 DEF Ends, CleanupTcpStreams, StreamsInUse, IInv, TypeOK
  <2>2. \A n, m \in Nat : Lowered(n, m) <= n
    BY DEF Lowered
  <2>3. \A p \in Ports, d \in BOOLEAN : Cardinality(S \cap CountedOn(p, d)) \in Nat
    BY RelayAssumption, FS_Subset, FS_CardinalityType DEF LiveConns
  <2>4. \A p \in Ports : portCount'[p] <= portCount[p] /\ agentPortCount'[p] <= agentPortCount[p]
    <3>1. \A p \in Ports : portCount[p] \in Nat /\ agentPortCount[p] \in Nat
      BY <1>1 DEF IInv, TypeOK
    <3>. QED
      BY <1>2, <2>2, <2>3, <3>1 DEF Ends, CleanupTcpStreams
  <2>. QED
    BY <1>1, <2>1, <2>4, ShrinkWithinLimits
<1>3. ASSUME Keeps PROVE WithinLimits'
  <2>1. \A p \in Ports : portCount'[p] <= portCount[p] /\ agentPortCount'[p] <= agentPortCount[p]
    BY <1>1, <1>3 DEF Keeps, IInv, TypeOK
  <2>. QED
    BY <1>1, <1>3, <2>1, ShrinkWithinLimits DEF Keeps
<1>4. ASSUME NEW c \in Conns, NEW p \in Ports, NEW a \in Agents \cup {NoAgent},
             NEW i \in StreamIds, Starts(c, p, a, i)
      PROVE  WithinLimits'
  BY <1>1, <1>4, StartWithinLimits
<1>5. WithinLimits'
  BY <1>1, <1>2, <1>3, <1>4 DEF StepKind
<1>. QED
  BY <1>1, <1>5 DEF LInv

\* The relay starts below every limit.
LEMMA InitLInv == RelayInit => LInv
<1> SUFFICES ASSUME RelayInit PROVE LInv
  OBVIOUS
<1>1. StreamsInUse = {}
  BY DEF StreamsInUse, RelayInit
<1>2. WithinLimits
  BY <1>1, RelayAssumption, FS_EmptySet DEF WithinLimits, RelayInit
<1>. QED
  BY <1>2, InitCInv DEF LInv

\* The live streams of a port hold counts, and those of an agent hold slots of
\* their own: what the checks bound bounds them too.
LEMMA LimitsFollow == LInv => LimitsRespected
<1> SUFFICES ASSUME LInv PROVE LimitsRespected
  OBVIOUS
<1> USE RelayAssumption DEF LInv, CInv, IInv
<1>1. ASSUME MaxPerPort > 0, NEW p \in Ports, NEW d \in BOOLEAN
      PROVE  Cardinality(LiveOn(p, d)) <= MaxPerPort
  <2>1. LiveOn(p, d) \subseteq CountedOn(p, d) /\ CountedOn(p, d) \subseteq Conns
    BY DEF LiveOn, CountedOn, LiveConns, CountsExact
  <2>2. /\ IsFiniteSet(CountedOn(p, d)) /\ IsFiniteSet(LiveOn(p, d))
        /\ Cardinality(LiveOn(p, d)) <= Cardinality(CountedOn(p, d))
    BY <2>1, FS_Subset
  <2>3. Cardinality(CountedOn(p, d)) <= MaxPerPort
    BY <1>1 DEF CountsExact, WithinLimits
  <2>. QED
    BY <2>2, <2>3, FS_CardinalityType
<1>2. ASSUME MaxPerAgent > 0, NEW a \in Agents
      PROVE  Cardinality(LiveOf(a)) <= MaxPerAgent
  <2> DEFINE f == [c \in LiveOf(a) |-> st[c].id]
  <2>1. \A c \in LiveOf(a) : st[c].id \in agentStreams[a]
    BY DEF LiveOf, LiveStreamsHaveEnds, IsAgent
  <2>2. \A c, d \in LiveOf(a) : st[c].id = st[d].id => c = d
    BY DEF LiveOf, LiveConns, TableConsistent, LiveNamed
  <2>3. f \in Injection(LiveOf(a), agentStreams[a])
    BY <2>1, <2>2 DEF Injection, IsInjective
  <2>4. agentStreams[a] \in SUBSET StreamIds
    BY DEF TypeOK
  <2>5. IsFiniteSet(agentStreams[a]) /\ Cardinality(agentStreams[a]) \in Nat
    BY <2>4, IdSets
  <2>6. Cardinality(LiveOf(a)) <= Cardinality(agentStreams[a]) /\ IsFiniteSet(LiveOf(a))
    BY <2>3, <2>5, FS_Injection DEF ExistsInjection
  <2>7. Cardinality(agentStreams[a]) <= MaxPerAgent
    BY <1>2 DEF WithinLimits
  <2>. QED
    BY <2>5, <2>6, <2>7, FS_CardinalityType
<1>3. Cardinality(StreamsInUse) <= MaxStreams
  BY DEF WithinLimits
<1>. QED
  BY <1>1, <1>2, <1>3 DEF LimitsRespected

\* No limit of the relay is ever exceeded: connections per port of TcpRouter and
\* of TcpAgentServer, streams per agent, entries of the stream table.
THEOREM LimitsNeverExceeded == RelaySpec => []LimitsRespected
BY InitLInv, StepLInv, LimitsFollow, PTL DEF RelaySpec

-----------------------------------------------------------------------------
(***************************************************************************)
(* Proof that the client registry of TcpRelay (ClientManager) survives     *)
(* registrations, reconnects and closings in any order.  Only four actions *)
(* touch it; the registry of every other step is the one before it.        *)
(***************************************************************************)


registryVars == <<clients, byTunnelId, tunnelId, wsClient>>

RInv == TypeOK /\ RegistryConsistent

\* The registry is a finite set and stays one.
LEMMA RegistryFinite ==
  ASSUME TypeOK
  PROVE  IsFiniteSet(clients) /\ Cardinality(clients) \in Nat
<1>1. IsFiniteSet(clients)
  BY RelayAssumption, FS_Subset DEF TypeOK
<1>. QED
  BY <1>1, FS_CardinalityType

\* addClient: the new WebSocket takes the tunnel id from one no longer open.
LEMMA RegistryAdd ==
  ASSUME RInv, NEW k \in Clients, NEW t \in TunnelIds \cup {NoTunnelId}, AddClient(k, t)
  PROVE  RegistryConsistent'
<1> USE RelayAssumption DEF RInv
<1>1. k \notin clients
  BY DEF RegistryConsistent, AddClient
<1>2. \A u \in TunnelIds : byTunnelId'[u] # NoClient =>
        byTunnelId'[u] \in clients' /\ tunnelId'[byTunnelId'[u]] = u
  <2> SUFFICES ASSUME NEW u \in TunnelIds, byTunnelId'[u] # NoClient
               PROVE  byTunnelId'[u] \in clients' /\ tunnelId'[byTunnelId'[u]] = u
    OBVIOUS
  <2>1. CASE u = t
    BY <2>1 DEF AddClient, TypeOK
  <2>2. CASE u # t
    <3>1. byTunnelId'[u] = byTunnelId[u]
      BY <2>2 DEF AddClient, TypeOK
    <3>2. byTunnelId[u] \in clients /\ tunnelId[byTunnelId[u]] = u
      BY <3>1 DEF RegistryConsistent
    <3>. QED
      BY <1>1, <3>1, <3>2 DEF AddClient, TypeOK
  <2>. QED
    BY <2>1, <2>2
<1>3. ASSUME NEW j \in OpenClients', tunnelId'[j] # NoTunnelId
      PROVE  byTunnelId'[tunnelId'[j]] = j
  <2>1. CASE j = k
    BY <2>1, <1>3 DEF AddClient, TypeOK
  <2>2. CASE j # k
    <3>1. j \in OpenClients /\ tunnelId'[j] = tunnelId[j]
      BY <2>2 DEF AddClient, OpenClients, TypeOK
    <3>2. byTunnelId[tunnelId[j]] = j /\ j \in Clients /\ tunnelId[j] \in TunnelIds
      BY <1>3, <3>1 DEF RegistryConsistent, OpenClients, TypeOK
    <3>3. tunnelId[j] # t
      BY <3>1, <3>2 DEF AddClient, OpenClients
    <3>. QED
      BY <3>1, <3>2, <3>3 DEF AddClient, TypeOK
  <2>. QED
    BY <2>1, <2>2
<1>4. Cardinality(clients') <= MaxClients
  <2>1. Cardinality(clients \cup {k}) = Cardinality(clients) + 1
    BY <1>1, RegistryFinite, FS_AddElement
  <2>. QED
    BY <2>1, RegistryFinite DEF AddClient
<1>5. \A j \in clients' : wsClient'[j] \in {"open", "closing"}
  BY DEF AddClient, RegistryConsistent, TypeOK
<1>. QED
  BY <1>2, <1>3, <1>4, <1>5 DEF RegistryConsistent

\* A refused WebSocket is not registered; one that starts closing stays so until
\* its 'close' event.
LEMMA RegistryClosing ==
  ASSUME RInv, NEW k \in Clients,
         wsClient' = [wsClient EXCEPT ![k] = "closing"],
         UNCHANGED <<clients, byTunnelId, tunnelId>>
  PROVE  RegistryConsistent'
<1>1. OpenClients' \subseteq OpenClients
  BY DEF OpenClients, RInv, TypeOK
<1>2. \A j \in clients' : wsClient'[j] \in {"open", "closing"}
  BY DEF RInv, RegistryConsistent, TypeOK
<1>. QED
  BY <1>1, <1>2 DEF RInv, RegistryConsistent

\* removeClient: the mapping goes only when it is still this WebSocket's, so a
\* successor with the same tunnel id keeps it.
LEMMA RegistryRemove ==
  ASSUME RInv, NEW k \in Clients,
         wsClient' = [wsClient EXCEPT ![k] = "closed"],
         clients' = clients \ {k}, tunnelId' = tunnelId,
         byTunnelId' = [t \in TunnelIds |->
             IF byTunnelId[t] = k /\ tunnelId[k] = t THEN NoClient ELSE byTunnelId[t]]
  PROVE  RegistryConsistent'
<1> USE DEF RInv
<1>1. \A t \in TunnelIds : byTunnelId'[t] # NoClient =>
        byTunnelId'[t] \in clients' /\ tunnelId'[byTunnelId'[t]] = t
  BY DEF RegistryConsistent
<1>2. ASSUME NEW j \in OpenClients', tunnelId'[j] # NoTunnelId
      PROVE  byTunnelId'[tunnelId'[j]] = j
  <2>1. j \in OpenClients /\ j # k /\ tunnelId[j] \in TunnelIds
    BY <1>2 DEF OpenClients, TypeOK
  <2>. QED
    BY <1>2, <2>1 DEF RegistryConsistent
<1>3. Cardinality(clients') <= MaxClients
  <2>1. Cardinality(clients \ {k}) <= Cardinality(clients)
    BY RegistryFinite, FS_Subset
  <2>2. IsFiniteSet(clients \ {k})
    BY RegistryFinite, FS_Subset
  <2>3. Cardinality(clients \ {k}) \in Nat
    BY <2>2, FS_CardinalityType
  <2>. QED
    BY <2>1, <2>3, RegistryFinite, RelayAssumption DEF RegistryConsistent
<1>4. \A j \in clients' : wsClient'[j] \in {"open", "closing"}
  BY DEF RegistryConsistent, TypeOK
<1>. QED
  BY <1>1, <1>2, <1>3, <1>4 DEF RegistryConsistent

\* A step that leaves the registry alone.
LEMMA RegistryUnchanged ==
  ASSUME RInv, UNCHANGED registryVars
  PROVE  RegistryConsistent'
BY DEF RInv, RegistryConsistent, OpenClients, registryVars

\* The steps of streams and frames do.
LEMMA EndingsKeepRegistry ==
  ASSUME NEW c \in Conns,
         \/ \E notify \in BOOLEAN : AbortTcpStream(c, notify)
         \/ CloseTcpStream(c) \/ RelaySocketError(c) \/ RelayInboundData(c)
         \/ TcpOpenAck(c) \/ TcpDataFromClient(c) \/ TcpCloseFromClient(c)
         \/ TcpAbortFromClient(c) \/ ResAbortFromClient(c)
  PROVE  UNCHANGED registryVars
BY DEF AbortTcpStream, CloseTcpStream, RelaySocketError, RelayInboundData, TcpOpenAck,
       TcpDataFromClient, TcpCloseFromClient, TcpAbortFromClient, ResAbortFromClient,
       peerVars, registryVars

\* So do the agents' WebSockets and the frames of either peer.
LEMMA PeersKeepRegistry ==
  ASSUME TypeOK,
         \/ \E k \in Clients : ReceivedByClient(k)
         \/ \E k \in Clients, f \in FromClientFrames : HandleClientFrame(k, f)
         \/ \E a \in Agents : AgentEvent(a)
         \/ \E c \in Conns : ConnEvent(c)
  PROVE  UNCHANGED registryVars
<1>1. \A i \in StreamIds : streams[i] # NoConn => streams[i] \in Conns
  BY DEF TypeOK
<1>2. ASSUME NEW k \in Clients, ReceivedByClient(k) PROVE UNCHANGED registryVars
  BY <1>2 DEF ReceivedByClient, peerVars, registryVars
<1>3. ASSUME NEW k \in Clients, NEW f \in FromClientFrames, HandleClientFrame(k, f)
      PROVE  UNCHANGED registryVars
  <2>1. f.id \in StreamIds
    BY DEF FromClientFrames
  <2>2. CASE UNCHANGED relayVars
    BY <2>2 DEF relayVars, registryVars
  <2>. QED
    BY <1>1, <1>3, <2>1, <2>2, EndingsKeepRegistry DEF HandleClientFrame, Owns
<1>4. ASSUME NEW a \in Agents, AgentEvent(a) PROVE UNCHANGED registryVars
  <2>1. CASE HandleConnection(a) \/ AgentClosing(a) \/ CleanupAgent(a) \/ ReceivedByAgent(a)
    BY <2>1 DEF HandleConnection, AgentClosing, CleanupAgent, ReceivedByAgent,
                peerVars, registryVars
  <2>2. CASE \E c \in Conns, p \in Ports, t \in TunnelIds \cup {NoTunnelId} :
               HandleTcpConnect(a, c, p, t)
    BY <2>2 DEF HandleTcpConnect, peerVars, registryVars
  <2>3. ASSUME NEW f \in FromAgentFrames, HandleAgentFrame(a, f)
        PROVE  UNCHANGED registryVars
    <3>1. f.id \in StreamIds
      BY DEF FromAgentFrames
    <3>2. CASE AgentStreamMissing(a, f.type, f.id) \/ AgentFrameIgnored(a, f.id)
      BY <3>2 DEF AgentStreamMissing, AgentFrameIgnored, peerVars, relayVars, registryVars
    <3>3. CASE AgentStreamFrame(a, f.type, f.id)
      BY <1>1, <3>1, <3>3, EndingsKeepRegistry DEF AgentStreamFrame, IsAgentStream
    <3>. QED
      BY <2>3, <3>2, <3>3 DEF HandleAgentFrame
  <2>. QED
    BY <1>4, <2>1, <2>2, <2>3 DEF AgentEvent
<1>5. ASSUME NEW c \in Conns, ConnEvent(c) PROVE UNCHANGED registryVars
  <2>1. CASE \E p \in Ports, allowedIp \in BOOLEAN : HandleDirectConnection(c, p, allowedIp)
    BY <2>1 DEF HandleDirectConnection, peerVars, registryVars
  <2>2. CASE \E error \in BOOLEAN : DirectEnd(c, error)
    BY <2>2, EndingsKeepRegistry DEF DirectEnd, peerVars, registryVars
  <2>. QED
    BY <1>5, <2>1, <2>2, EndingsKeepRegistry DEF ConnEvent, DirectData, StreamIdle
<1>. QED
  BY <1>2, <1>3, <1>4, <1>5

\* Every step keeps the registry consistent.
LEMMA StepRegistry ==
  RInv /\ [RelayNext]_relayVars => RegistryConsistent'
<1> SUFFICES ASSUME RInv, [RelayNext]_relayVars PROVE RegistryConsistent'
  OBVIOUS
<1>1. TypeOK
  BY DEF RInv
<1>2. ASSUME NEW k \in Clients, ClientEvent(k) PROVE RegistryConsistent'
  <2>1. ASSUME NEW t \in TunnelIds \cup {NoTunnelId}, AddClient(k, t)
        PROVE  RegistryConsistent'
    BY <2>1, RegistryAdd
  <2>2. ASSUME NEW t \in TunnelIds \cup {NoTunnelId}, RefuseClient(k, t) \/ ClientClosing(k)
        PROVE  RegistryConsistent'
    <3>1. /\ wsClient' = [wsClient EXCEPT ![k] = "closing"]
          /\ UNCHANGED <<clients, byTunnelId, tunnelId>>
      BY <2>2 DEF RefuseClient, ClientClosing
    <3>. QED
      BY <3>1, RegistryClosing
  <2>3. CASE CleanupClient(k)
    <3>1. /\ wsClient' = [wsClient EXCEPT ![k] = "closed"]
          /\ clients' = clients \ {k} /\ tunnelId' = tunnelId
          /\ byTunnelId' = [t \in TunnelIds |->
                 IF byTunnelId[t] = k /\ tunnelId[k] = t THEN NoClient ELSE byTunnelId[t]]
      BY <2>3 DEF CleanupClient
    <3>. QED
      BY <3>1, RegistryRemove
  <2>4. CASE ReceivedByClient(k) \/ \E f \in FromClientFrames : HandleClientFrame(k, f)
    BY <1>1, <2>4, PeersKeepRegistry, RegistryUnchanged
  <2>. QED
    BY <1>2, <2>1, <2>2, <2>3, <2>4 DEF ClientEvent
<1>3. CASE (\E a \in Agents : AgentEvent(a)) \/ (\E c \in Conns : ConnEvent(c))
  BY <1>1, <1>3, PeersKeepRegistry, RegistryUnchanged
<1>4. CASE UNCHANGED relayVars
  BY <1>4, RegistryUnchanged DEF relayVars, registryVars
<1>. QED
  BY <1>2, <1>3, <1>4 DEF RelayNext

\* The relay starts with an empty registry.
LEMMA InitRegistry == RelayInit => RegistryConsistent
<1> SUFFICES ASSUME RelayInit PROVE RegistryConsistent
  OBVIOUS
<1>. QED
  BY RelayAssumption, FS_EmptySet DEF RelayInit, RegistryConsistent, OpenClients

\* A tunnel id maps only to a registered WebSocket that carries it, and every
\* open one is found by its id, whatever the order of reconnects and of late
\* 'close' events; MAX_CLIENTS is never exceeded.
THEOREM RegistryStaysConsistent == RelaySpec => []RegistryConsistent
BY InitRegistry, StepRegistry, TypeCorrect, PTL DEF RInv, RelaySpec

-----------------------------------------------------------------------------
(***************************************************************************)
(* Proof that the relay of TcpRelay acknowledges an agent's stream only    *)
(* after its tunnel client has confirmed it.  A step either keeps the      *)
(* acknowledgements under way within those of before (Quiet) or is the     *)
(* TCP_OPEN_ACK of the stream it acknowledges; and whatever happens to a   *)
(* stream afterwards, it keeps its id and stays confirmed (Confirmed).     *)
(***************************************************************************)


Quiet == AckedStreams' \subseteq AckedStreams

Confirmed ==
    \A c \in Conns : st[c].phase \in {"live", "cleaned"} =>
        /\ st'[c].phase \in {"live", "cleaned"}
        /\ st'[c].id = st[c].id
        /\ ~st[c].awaiting => ~st'[c].awaiting

\* what an agent is sent besides acknowledgements
OtherFrames == DownFrames \cup [type : {"TCP_ABORT"}, id : {0}, req : Conns]

-----------------------------------------------------------------------------
(* Frames on their way to the agents.                                      *)

\* The frames of a concatenation are those of its parts.
LEMMA RangeOfConcat ==
  ASSUME NEW T, NEW s \in Seq(T), NEW u \in Seq(T)
  PROVE  Range(s \o u) \subseteq Range(s) \cup Range(u)
<1> SUFFICES ASSUME NEW i \in DOMAIN (s \o u)
             PROVE  (s \o u)[i] \in Range(s) \cup Range(u)
  BY DEF Range
<1>1. /\ i \in 1..(Len(s) + Len(u))
      /\ (s \o u)[i] = IF i <= Len(s) THEN s[i] ELSE u[i - Len(s)]
  OBVIOUS
<1>2. CASE i <= Len(s)
  <2>1. i \in DOMAIN s
    BY <1>1, <1>2
  <2>. QED
    BY <1>1, <1>2, <2>1 DEF Range
<1>3. CASE i > Len(s)
  <2>1. i - Len(s) \in DOMAIN u
    BY <1>1, <1>3
  <2>. QED
    BY <1>1, <1>3, <2>1 DEF Range
<1>. QED
  BY <1>1, <1>2, <1>3

\* The other frames are frames for an agent, and none is an acknowledgement.
LEMMA OthersAreNoAcks ==
  /\ Seq(OtherFrames) \subseteq Seq(ToAgentFrames)
  /\ \A s \in Seq(OtherFrames) : \A f \in Range(s) : f.type # "TCP_CONNECT_ACK"
<1>1. OtherFrames \subseteq ToAgentFrames
  BY DEF OtherFrames, ToAgentFrames
<1>2. \A f \in OtherFrames : f.type # "TCP_CONNECT_ACK"
  BY DEF OtherFrames, DownFrames, EndTypes
<1>3. \A s \in Seq(OtherFrames) : Range(s) \subseteq OtherFrames
  BY DEF Range
<1>. QED
  BY <1>1, <1>2, <1>3

\* An acknowledgement names a connection.
LEMMA AckNamesConn ==
  ASSUME TypeOK, NEW f \in AckedStreams
  PROVE  f.req \in Conns /\ f.type = "TCP_CONNECT_ACK"
<1>1. PICK a \in Agents : f \in Range(toAgent[a]) /\ f.type = "TCP_CONNECT_ACK"
  BY DEF AckedStreams
<1>2. toAgent[a] \in Seq(ToAgentFrames)
  BY DEF TypeOK
<1>3. f \in ToAgentFrames
  BY <1>1, <1>2 DEF Range
<1>. QED
  BY <1>1, <1>3 DEF ToAgentFrames, DownFrames, EndTypes

\* Queues that stay or get other frames hold no new acknowledgement.
LEMMA OthersAreQuiet ==
  ASSUME TypeOK,
         \A a \in Agents : \/ toAgent'[a] = toAgent[a]
                           \/ \E s \in Seq(OtherFrames) : toAgent'[a] = toAgent[a] \o s
  PROVE  Quiet
<1> SUFFICES ASSUME NEW f \in AckedStreams' PROVE f \in AckedStreams
  BY DEF Quiet
<1>1. PICK a \in Agents : f \in Range(toAgent'[a]) /\ f.type = "TCP_CONNECT_ACK"
  BY DEF AckedStreams
<1>2. f \in Range(toAgent[a])
  <2>1. ASSUME NEW s \in Seq(OtherFrames), toAgent'[a] = toAgent[a] \o s
        PROVE  f \in Range(toAgent[a])
    <3>1. toAgent[a] \in Seq(ToAgentFrames) /\ s \in Seq(ToAgentFrames)
      BY OthersAreNoAcks DEF TypeOK
    <3>2. f \in Range(toAgent[a]) \cup Range(s)
      BY <1>1, <2>1, <3>1, RangeOfConcat
    <3>. QED
      BY <1>1, <3>2, OthersAreNoAcks
  <2>. QED
    BY <1>1, <2>1
<1>. QED
  BY <1>1, <1>2 DEF AckedStreams

\* So it is with frames for one agent.
LEMMA ToAgentQuiet ==
  ASSUME TypeOK, NEW a, NEW s \in Seq(OtherFrames), toAgent' = ToAgent(a, s)
  PROVE  Quiet
<1>1. \A b \in Agents : toAgent'[b] = toAgent[b] \/ toAgent'[b] = toAgent[b] \o s
  BY DEF ToAgent, TypeOK
<1>. QED
  BY <1>1, OthersAreQuiet

\* The aborts of live streams are other frames.
LEMMA AbortsAreOthers ==
  ASSUME IInv, NEW S \in SUBSET LiveConns
  PROVE  AbortFrames(S) \in Seq(OtherFrames)
<1>1. AbortFrames(S) \in Seq(DownFrames)
  BY AbortFramesAreFrames DEF IInv, LiveNamed, LiveConns
<1>. QED
  BY <1>1 DEF OtherFrames

\* And so it is when every agent is told of its aborted streams.
LEMMA AbortsAreQuiet ==
  ASSUME IInv, NEW S \in SUBSET LiveConns,
         \A a \in Agents : toAgent'[a] \in {toAgent[a], AgentsToldAbort(S)[a]}
  PROVE  Quiet
<1>1. \A a \in Agents : AbortFrames({c \in S : st[c].agent = a}) \in Seq(OtherFrames)
  BY AbortsAreOthers
<1>2. ASSUME NEW a \in Agents
      PROVE  \/ toAgent'[a] = toAgent[a]
             \/ \E s \in Seq(OtherFrames) : toAgent'[a] = toAgent[a] \o s
  BY <1>1 DEF AgentsToldAbort
<1>. QED
  BY <1>2, OthersAreQuiet DEF IInv

\* A frame that is taken leaves the others.
LEMMA TakenIsQuiet ==
  ASSUME TypeOK, NEW a \in Agents, ReceivedByAgent(a)
  PROVE  Quiet
<1> SUFFICES ASSUME NEW f \in AckedStreams' PROVE f \in AckedStreams
  BY DEF Quiet
<1>1. PICK b \in Agents : f \in Range(toAgent'[b]) /\ f.type = "TCP_CONNECT_ACK"
  BY DEF AckedStreams
<1>2. f \in Range(toAgent[b])
  <2>1. CASE b # a
    BY <1>1, <2>1 DEF ReceivedByAgent, TypeOK
  <2>2. CASE b = a
    <3>1. toAgent[a] \in Seq(ToAgentFrames) /\ toAgent[a] # <<>> /\ toAgent'[a] = Tail(toAgent[a])
      BY DEF ReceivedByAgent, TypeOK
    <3>2. PICK i \in DOMAIN Tail(toAgent[a]) : f = Tail(toAgent[a])[i]
      BY <1>1, <2>2, <3>1 DEF Range
    <3>3. i + 1 \in DOMAIN toAgent[a] /\ f = toAgent[a][i + 1]
      BY <3>1, <3>2
    <3>. QED
      BY <2>2, <3>3 DEF Range
  <2>. QED
    BY <2>1, <2>2
<1>. QED
  BY <1>1, <1>2 DEF AckedStreams

-----------------------------------------------------------------------------
(* Streams after their confirmation.                                       *)

\* A cleaned stream keeps its id and its confirmation.
LEMMA CleanupConfirmed ==
  ASSUME TypeOK, NEW S \in SUBSET LiveConns, CleanupTcpStreams(S)
  PROVE  Confirmed
<1>1. \A s \in StreamStates : /\ CleanedState(s).phase = "cleaned"
                              /\ CleanedState(s).id = s.id
                              /\ CleanedState(s).awaiting = s.awaiting
  BY DEF CleanedState, StreamStates
<1>2. \A c \in Conns : st[c] \in StreamStates
  BY DEF TypeOK
<1>. QED
  BY <1>1, <1>2 DEF Confirmed, CleanupTcpStreams

\* A step that leaves the state objects alone keeps all of it.
LEMMA SameConfirmed == ASSUME st' = st PROVE Confirmed
BY DEF Confirmed

\* A step that changes only a connection without a stream does too.
LEMMA OneConfirmed ==
  ASSUME TypeOK, NEW c \in Conns, st[c].phase \in {"unused", "refused"},
         \A d \in Conns \ {c} : st'[d] = st[d]
  PROVE  Confirmed
BY DEF Confirmed

\* Quiet steps that keep confirmed streams keep the property.
LEMMA QuietSteps ==
  ASSUME TypeOK, AckOnlyConfirmed, Quiet, Confirmed
  PROVE  AckOnlyConfirmed'
<1> SUFFICES ASSUME NEW f \in AckedStreams'
             PROVE  /\ st'[f.req].phase \in {"live", "cleaned"}
                    /\ st'[f.req].id = f.id /\ ~st'[f.req].awaiting
  BY DEF AckOnlyConfirmed
<1>1. f \in AckedStreams
  BY DEF Quiet
<1>2. f.req \in Conns
  BY <1>1, AckNamesConn
<1>. QED
  BY <1>1, <1>2 DEF AckOnlyConfirmed, Confirmed

-----------------------------------------------------------------------------
(* The handlers.                                                           *)

\* Handlers that end, or pass data of, one live stream.
LEMMA EndingsAreQuiet ==
  ASSUME IInv, NEW c \in LiveConns,
         \/ \E notify \in BOOLEAN : AbortTcpStream(c, notify)
         \/ CloseTcpStream(c) \/ RelaySocketError(c) \/ RelayInboundData(c)
         \/ TcpDataFromClient(c) \/ TcpCloseFromClient(c) \/ TcpAbortFromClient(c)
  PROVE  Quiet /\ Confirmed
<1>1. TypeOK /\ {c} \in SUBSET LiveConns /\ c \in Conns /\ st[c].id \in StreamIds
  BY DEF IInv, LiveConns, LiveNamed
<1>2. Confirmed
  BY <1>1, CleanupConfirmed, SameConfirmed
     DEF AbortTcpStream, CloseTcpStream, RelaySocketError, RelayInboundData, TcpDataFromClient,
         TcpCloseFromClient, TcpAbortFromClient, streamVars
<1>3. AbortFrames({c}) \in Seq(OtherFrames)
  BY <1>1, AbortsAreOthers
<1>4. \A t \in {"TCP_DATA", "TCP_CLOSE"} : <<StreamFrame(t, st[c].id)>> \in Seq(OtherFrames)
  BY <1>1 DEF StreamFrame, OtherFrames, DownFrames, EndTypes
<1>5. (IF st[c].awaiting THEN <<RejectFrame(c)>> ELSE <<>>) \o AbortFrames({c})
        \in Seq(OtherFrames)
  <2>1. RejectFrame(c) \in OtherFrames
    BY <1>1 DEF RejectFrame, OtherFrames
  <2>2. (IF st[c].awaiting THEN <<RejectFrame(c)>> ELSE <<>>) \in Seq(OtherFrames)
    BY <2>1
  <2>3. \A s, u \in Seq(OtherFrames) : s \o u \in Seq(OtherFrames)
    OBVIOUS
  <2>. QED
    BY <1>3, <2>2, <2>3
<1>6. CASE toAgent' = toAgent
  BY <1>1, <1>2, <1>6, OthersAreQuiet
<1>7. CASE \E s \in Seq(OtherFrames) : toAgent' = ToAgent(st[c].agent, s)
  BY <1>1, <1>2, <1>7, ToAgentQuiet
<1>8. toAgent' = toAgent \/ \E s \in Seq(OtherFrames) : toAgent' = ToAgent(st[c].agent, s)
  BY <1>3, <1>4, <1>5
     DEF AbortTcpStream, CloseTcpStream, RelaySocketError, RelayInboundData, TcpDataFromClient,
         TcpCloseFromClient, TcpAbortFromClient
<1>. QED
  BY <1>2, <1>6, <1>7, <1>8

\* TCP_OPEN_ACK acknowledges the stream it confirms, under the id it has.
LEMMA OpenAckConfirms ==
  ASSUME IInv, AckOnlyConfirmed, NEW c \in LiveConns, TcpOpenAck(c)
  PROVE  AckOnlyConfirmed'
<1> USE DEF IInv
<1>1. c \in Conns /\ st[c] \in StreamStates /\ st[c].phase = "live" /\ st[c].id \in StreamIds
  BY DEF TypeOK, LiveConns, Live, LiveNamed
<1> DEFINE s == [st[c] EXCEPT !.awaiting = FALSE]
<1>2. s.phase = "live" /\ s.id = st[c].id /\ ~s.awaiting
  BY <1>1 DEF StreamStates
<1>3. CASE ~st[c].awaiting
  <2>1. st' = st /\ toAgent' = toAgent
    BY <1>3 DEF TcpOpenAck
  <2>. QED
    BY <2>1, SameConfirmed, OthersAreQuiet, QuietSteps
<1>4. CASE st[c].awaiting
  <2>1. /\ \A d \in Conns : st'[d] = IF d = c THEN s ELSE st[d]
        /\ toAgent' = ToAgent(st[c].agent, <<AckFrame(st[c].id, c)>>)
    BY <1>1, <1>4 DEF TcpOpenAck, TypeOK
  <2> HIDE DEF s
  <2>2. ASSUME NEW f \in AckedStreams', f \notin AckedStreams
        PROVE  f = AckFrame(st[c].id, c)
    <3>1. PICK a \in Agents : f \in Range(toAgent'[a]) /\ f.type = "TCP_CONNECT_ACK"
      BY DEF AckedStreams
    <3>2. f \notin Range(toAgent[a])
      BY <2>2, <3>1 DEF AckedStreams
    <3>3. toAgent'[a] = toAgent[a] \o <<AckFrame(st[c].id, c)>>
      BY <2>1, <3>1, <3>2 DEF ToAgent, TypeOK
    <3>4. toAgent[a] \in Seq(ToAgentFrames) /\ <<AckFrame(st[c].id, c)>> \in Seq(ToAgentFrames)
      BY <1>1 DEF AckFrame, ToAgentFrames, TypeOK
    <3>5. f \in Range(<<AckFrame(st[c].id, c)>>)
      BY <3>1, <3>2, <3>3, <3>4, RangeOfConcat
    <3>. QED
      BY <3>5 DEF Range
  <2>3. ASSUME NEW f \in AckedStreams'
        PROVE  /\ st'[f.req].phase \in {"live", "cleaned"}
               /\ st'[f.req].id = f.id /\ ~st'[f.req].awaiting
    <3>1. CASE f \in AckedStreams
      <4>1. f.req \in Conns
        BY <3>1, AckNamesConn
      <4>. QED
        BY <1>2, <2>1, <3>1, <4>1 DEF AckOnlyConfirmed
    <3>2. CASE f \notin AckedStreams
      <4>1. f.req = c /\ f.id = st[c].id
        BY <2>2, <3>2 DEF AckFrame
      <4>. QED
        BY <1>1, <1>2, <2>1, <4>1
    <3>. QED
      BY <3>1, <3>2
  <2>. QED
    BY <2>3 DEF AckOnlyConfirmed
<1>. QED
  BY <1>3, <1>4

\* RES_ABORT only takes the stream out of the table.
LEMMA ResAbortIsQuiet ==
  ASSUME TypeOK, NEW c \in LiveConns, ResAbortFromClient(c)
  PROVE  Quiet /\ Confirmed
<1>1. c \in Conns /\ st[c] \in StreamStates
  BY DEF TypeOK, LiveConns
<1> DEFINE s == [st[c] EXCEPT !.phase = "cleaned"]
<1>2. s.phase = "cleaned" /\ s.id = st[c].id /\ s.awaiting = st[c].awaiting
  BY <1>1 DEF StreamStates
<1>3. \A d \in Conns : st'[d] = IF d = c THEN s ELSE st[d]
  BY <1>1 DEF ResAbortFromClient, TypeOK
<1> HIDE DEF s
<1>4. Confirmed
  BY <1>2, <1>3 DEF Confirmed
<1>5. toAgent' = toAgent
  BY DEF ResAbortFromClient
<1>. QED
  BY <1>4, <1>5, OthersAreQuiet

\* Tunnel clients: their WebSockets and their frames.
LEMMA ClientsConfirm ==
  ASSUME IInv, AckOnlyConfirmed, NEW k \in Clients, ClientEvent(k)
  PROVE  AckOnlyConfirmed'
<1>1. TypeOK
  BY DEF IInv
<1>2. CASE toAgent' = toAgent /\ st' = st
  BY <1>1, <1>2, SameConfirmed, OthersAreQuiet, QuietSteps
<1>3. CASE CleanupClient(k)
  <2> DEFINE S == IF k \in clients THEN {c \in LiveConns : st[c].client = k} ELSE {}
  <2>1. S \in SUBSET LiveConns /\ CleanupTcpStreams(S) /\ toAgent' = AgentsToldAbort(S)
    BY <1>3 DEF CleanupClient
  <2> HIDE DEF S
  <2>. QED
    BY <1>1, <2>1, CleanupConfirmed, AbortsAreQuiet, QuietSteps
<1>4. ASSUME NEW f \in FromClientFrames, HandleClientFrame(k, f) PROVE AckOnlyConfirmed'
  <2>1. CASE UNCHANGED relayVars
    BY <1>2, <2>1 DEF relayVars
  <2>2. CASE Owns(k, f.id)
    <3>1. streams[f.id] \in LiveConns
      BY <2>2, TableEntryLive DEF Owns, FromClientFrames
    <3>. QED
      BY <1>1, <1>4, <2>2, <3>1, EndingsAreQuiet, OpenAckConfirms, ResAbortIsQuiet, QuietSteps
         DEF HandleClientFrame
  <2>. QED
    BY <1>4, <2>1, <2>2 DEF HandleClientFrame
<1>. QED
  BY <1>2, <1>3, <1>4
     DEF ClientEvent, AddClient, RefuseClient, ClientClosing, ReceivedByClient, streamVars

\* Agents: their WebSockets, their connects and their frames.
LEMMA AgentsConfirm ==
  ASSUME IInv, AckOnlyConfirmed, NEW a \in Agents, AgentEvent(a)
  PROVE  AckOnlyConfirmed'
<1>1. TypeOK
  BY DEF IInv
<1>2. CASE toAgent' = toAgent /\ st' = st
  BY <1>1, <1>2, SameConfirmed, OthersAreQuiet, QuietSteps
<1>3. CASE CleanupAgent(a)
  <2> DEFINE S == {c \in LiveConns : st[c].id \in agentStreams[a]}
  <2>1. /\ S \in SUBSET LiveConns /\ CleanupTcpStreams(S)
        /\ toAgent' = [AgentsToldAbort(S) EXCEPT ![a] = toAgent[a]]
    BY <1>3 DEF CleanupAgent
  <2> HIDE DEF S
  <2>2. \A b \in Agents : toAgent'[b] \in {toAgent[b], AgentsToldAbort(S)[b]}
    BY <2>1 DEF AgentsToldAbort
  <2>. QED
    BY <1>1, <2>1, <2>2, CleanupConfirmed, AbortsAreQuiet, QuietSteps
<1>4. ASSUME NEW c \in Conns, NEW p \in Ports, NEW t \in TunnelIds \cup {NoTunnelId},
             HandleTcpConnect(a, c, p, t)
      PROVE  AckOnlyConfirmed'
  <2>1. st[c].phase = "unused" /\ \A d \in Conns \ {c} : st'[d] = st[d]
    BY <1>1, <1>4 DEF HandleTcpConnect, StartStream, TypeOK
  <2>2. Quiet
    <3>1. <<RejectFrame(c)>> \in Seq(OtherFrames)
      BY DEF RejectFrame, OtherFrames
    <3>2. toAgent' = toAgent \/ toAgent' = ToAgent(a, <<RejectFrame(c)>>)
      BY <1>4 DEF HandleTcpConnect
    <3>. QED
      BY <1>1, <3>1, <3>2, ToAgentQuiet, OthersAreQuiet
  <2>. QED
    BY <1>1, <2>1, <2>2, OneConfirmed, QuietSteps
<1>5. ASSUME NEW f \in FromAgentFrames, HandleAgentFrame(a, f) PROVE AckOnlyConfirmed'
  <2>1. f.id \in StreamIds
    BY DEF FromAgentFrames
  <2>2. CASE AgentStreamMissing(a, f.type, f.id)
    <3>1. <<StreamFrame("TCP_ABORT", f.id)>> \in Seq(OtherFrames)
      BY <2>1 DEF StreamFrame, OtherFrames, DownFrames, EndTypes
    <3>2. st' = st /\ (toAgent' = toAgent \/ toAgent' = ToAgent(a, <<StreamFrame("TCP_ABORT", f.id)>>))
      BY <2>2 DEF AgentStreamMissing, streamVars
    <3>. QED
      BY <1>1, <3>1, <3>2, ToAgentQuiet, OthersAreQuiet, SameConfirmed, QuietSteps
  <2>3. CASE AgentFrameIgnored(a, f.id)
    BY <1>2, <2>3 DEF AgentFrameIgnored, relayVars
  <2>4. CASE AgentStreamFrame(a, f.type, f.id)
    <3>1. streams[f.id] \in LiveConns
      BY <2>1, <2>4, TableEntryLive DEF AgentStreamFrame, IsAgentStream
    <3>. QED
      BY <1>1, <2>4, <3>1, EndingsAreQuiet, QuietSteps DEF AgentStreamFrame
  <2>. QED
    BY <1>5, <2>2, <2>3, <2>4 DEF HandleAgentFrame
<1>6. CASE ReceivedByAgent(a)
  <2>1. st' = st
    BY <1>6 DEF ReceivedByAgent, streamVars
  <2>. QED
    BY <1>1, <1>6, <2>1, TakenIsQuiet, SameConfirmed, QuietSteps
<1>. QED
  BY <1>2, <1>3, <1>4, <1>5, <1>6
     DEF AgentEvent, HandleConnection, AgentClosing, streamVars

\* Direct connections and timers: no agent is sent anything but aborts.
LEMMA ConnsConfirm ==
  ASSUME IInv, AckOnlyConfirmed, NEW c \in Conns, ConnEvent(c)
  PROVE  AckOnlyConfirmed'
<1>1. TypeOK
  BY DEF IInv
<1>2. ASSUME Live(c),
             \/ \E notify \in BOOLEAN : AbortTcpStream(c, notify)
             \/ CloseTcpStream(c) \/ RelaySocketError(c) \/ RelayInboundData(c)
      PROVE  AckOnlyConfirmed'
  <2>1. c \in LiveConns
    BY <1>2 DEF LiveConns
  <2>. QED
    BY <1>1, <1>2, <2>1, EndingsAreQuiet, QuietSteps
<1>3. ASSUME NEW p \in Ports, NEW allowedIp \in BOOLEAN, HandleDirectConnection(c, p, allowedIp)
      PROVE  AckOnlyConfirmed'
  <2>1. /\ st[c].phase = "unused" /\ toAgent' = toAgent
        /\ \A d \in Conns \ {c} : st'[d] = st[d]
    BY <1>1, <1>3 DEF HandleDirectConnection, StartStream, TypeOK
  <2>. QED
    BY <1>1, <2>1, OneConfirmed, OthersAreQuiet, QuietSteps
<1>4. ASSUME NEW error \in BOOLEAN, DirectEnd(c, error), ~Live(c) PROVE AckOnlyConfirmed'
  <2> DEFINE s == [st[c] EXCEPT !.socket = "destroyed"]
  <2>1. s.phase = st[c].phase /\ s.id = st[c].id /\ s.awaiting = st[c].awaiting
    BY <1>1 DEF TypeOK, StreamStates
  <2>2. toAgent' = toAgent /\ \A d \in Conns : st'[d] = IF d = c THEN s ELSE st[d]
    BY <1>1, <1>4 DEF DirectEnd, TypeOK
  <2> HIDE DEF s
  <2>3. Confirmed
    BY <2>1, <2>2 DEF Confirmed
  <2>. QED
    BY <1>1, <2>2, <2>3, OthersAreQuiet, QuietSteps
<1>. QED
  BY <1>2, <1>3, <1>4 DEF ConnEvent, DirectData, DirectEnd, StreamIdle

-----------------------------------------------------------------------------
(* The theorem.                                                            *)

\* Every step keeps the property.
LEMMA StepAcks == IInv /\ AckOnlyConfirmed /\ [RelayNext]_relayVars => AckOnlyConfirmed'
<1> SUFFICES ASSUME IInv, AckOnlyConfirmed, [RelayNext]_relayVars PROVE AckOnlyConfirmed'
  OBVIOUS
<1>1. CASE UNCHANGED relayVars
  <2>1. toAgent' = toAgent /\ st' = st
    BY <1>1 DEF relayVars
  <2>. QED
    BY <2>1, SameConfirmed, OthersAreQuiet, QuietSteps DEF IInv
<1>. QED
  BY <1>1, ClientsConfirm, AgentsConfirm, ConnsConfirm DEF RelayNext

\* The relay starts with no frame under way.
LEMMA InitAcks == RelayInit => AckOnlyConfirmed
BY DEF RelayInit, AckOnlyConfirmed, AckedStreams, Range

\* Deferred ACK: an agent is told that its stream is open only after the tunnel
\* client has confirmed the local connection, and the id in the ACK is that of
\* the stream its request id stands for.
THEOREM AcksStayConfirmed == RelaySpec => []AckOnlyConfirmed
BY InitAcks, StepAcks, InvariantHolds, PTL DEF RelaySpec
=============================================================================
