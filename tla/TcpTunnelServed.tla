-------------------------- MODULE TcpTunnelServed --------------------------
(***************************************************************************)
(* Proof that nobody is left talking to nobody (JoinedAppsServed and       *)
(* ClientStreamsServed), as long as no idle timer fires, that is with      *)
(* STREAM_IDLE_TIMEOUT_MS=0: the client's timer forgets a stream and sends *)
(* a RES_ABORT, which the relay does not pass on to the agent and which    *)
(* leaves the local socket open, so with idle timers neither holds.        *)
(*                                                                         *)
(* The invariant says what the frames on their way make up for.  The relay *)
(* and the client may hold different streams, and the relay and the agent, *)
(* but whoever has dropped one has sent the frame that ends it, no frame   *)
(* that ends a stream overtakes the one that opens or acknowledges it, and *)
(* an end is only ever sent of a stream that its sender has dropped.       *)
(***************************************************************************)
EXTENDS TcpTunnelProofs

-----------------------------------------------------------------------------
(* The invariant that carries the proof.                                   *)

\* a frame in q ends, or opens, stream i
Ending(q, i)  == \E f \in Range(q) : f.type \in EndTypes /\ f.id = i
Opening(q, i) == \E f \in Range(q) : f.type = "TCP_OPEN" /\ f.id = i

AgentUp(a)  == endAgent[a] = "open" /\ wsAgent[a] = "open"
ClientUp(k) == endClient[k] = "open" /\ wsClient[k] = "open"

\* the id has been handed out; its stream is not waiting for a confirmation
Given(i) == \E c \in Conns : st[c].id = i
Past(i)  == \E c \in Conns : st[c].id = i /\ (Live(c) => ~st[c].awaiting)

\* the relay has a stream i of client k
Held(k, i) == \E c \in Conns : Live(c) /\ st[c].id = i /\ st[c].client = k

\* an end of a WebSocket that is not open holds no streams, and a stream is
\* never of a WebSocket that has yet to open
PeersGone ==
    /\ \A k \in Clients : /\ endClient[k] # "open" => clientStreams[k] = {}
                          /\ wsClient[k] = "none" => endClient[k] = "none"
    /\ \A c \in Conns : st[c].id # 0 =>
          /\ st[c].client \in Clients /\ wsClient[st[c].client] # "none"
          /\ IsAgent(c) => st[c].agent \in Agents /\ wsAgent[st[c].agent] # "none"

\* the client's map and its sockets go together
SocketsHeld ==
    /\ \A k \in Clients : \A i \in clientStreams[k] :
          local[i].state \in {"dialing", "open"} /\ local[i].client = k
    /\ \A i \in StreamIds : local[i].state \in {"dialing", "open"} =>
          local[i].client \in Clients /\ i \in clientStreams[local[i].client]

\* frames to and from a client name streams that have been opened
ClientFramesGiven ==
    \A k \in Clients :
        /\ \A f \in Range(toClient[k]) : Given(f.id)
        /\ \A f \in Range(fromClient[k]) : Given(f.id) /\ f.type # "RES_ABORT"

\* no frame of a stream is ahead of its TCP_OPEN
OpensAhead ==
    \A k \in Clients : \A m, n \in DOMAIN toClient[k] :
        toClient[k][m].type = "TCP_OPEN" /\ toClient[k][n].id = toClient[k][m].id => m <= n

\* what the relay and a client hold differs by what is on its way
ClientLinks ==
    \A k \in Clients, i \in StreamIds :
        /\ ClientUp(k) /\ Held(k, i) =>
              i \in clientStreams[k] \/ Opening(toClient[k], i) \/ Ending(fromClient[k], i)
        /\ ClientUp(k) /\ ~Held(k, i) /\ (i \in clientStreams[k] \/ Opening(toClient[k], i)) =>
              Ending(toClient[k], i)
        /\ Ending(toClient[k], i) => ~Held(k, i)
        /\ Ending(fromClient[k], i) => i \notin clientStreams[k] /\ ~Opening(toClient[k], i)

ClientsInv == PeersGone /\ SocketsHeld /\ ClientFramesGiven /\ OpensAhead /\ ClientLinks

\* a joined application is in its agent's table
JoinedKept ==
    \A c \in Conns : app[c] = "joined" =>
        endAgent[st[c].agent] = "open" /\ entries[st[c].agent][st[c].id] = c

\* what an agent sends is of a stream it joined, and an end is of one that ended
AgentFramesJoined ==
    \A a \in Agents : \A f \in Range(fromAgent[a]) : f.type # "TCP_CONNECT" =>
        \E c \in Conns : Joinable(c, a, f.id) /\ (f.type \in EndTypes => app[c] = "closed")

\* no end of a stream is ahead of its acknowledgement
AcksAhead ==
    \A a \in Agents : \A m, n \in DOMAIN toAgent[a] :
        toAgent[a][m].type = "TCP_CONNECT_ACK" /\ toAgent[a][n].type \in EndTypes
            /\ toAgent[a][n].id = toAgent[a][m].id => m < n

EndsPast ==
    \A a \in Agents, i \in StreamIds : Ending(toAgent[a], i) => Past(i)

\* an application that is joined, or about to be, is told of the stream's end
AppsTold ==
    \A c \in Conns, a \in Agents :
        st[c].agent = a /\ AgentUp(a) /\ ~Live(c)
        /\ (app[c] = "joined" \/ (app[c] = "waiting" /\ AckFrame(st[c].id, c) \in Range(toAgent[a])))
            => Ending(toAgent[a], st[c].id)

AppsInv == JoinedKept /\ AgentFramesJoined /\ AcksAhead /\ EndsPast /\ AppsTold

-----------------------------------------------------------------------------
(* Frames of a queue.                                                      *)

\* SetToSeq leaves no element out.
LEMMA SetToSeqRange ==
  ASSUME NEW S, IsFiniteSet(S)
  PROVE  Range(SetToSeq(S)) = S
<1>1. PICK f : f \in Bijection(1..Cardinality(S), S)
  BY FS_CardinalityType DEF ExistsBijection
<1>2. Cardinality(S) \in Nat
  BY FS_CardinalityType
<1>3. f \in [1..Cardinality(S) -> S] /\ IsInjective(f)
  BY <1>1 DEF Bijection, Injection, IsInjective
<1> DEFINE g == SetToSeq(S)
<1>4. g \in [1..Cardinality(S) -> S] /\ IsInjective(g)
  BY <1>3 DEF SetToSeq
<1> HIDE DEF g
<1>5. g \in Injection(1..Cardinality(S), S)
  BY <1>4 DEF Injection, IsInjective
<1>6. Cardinality(1..Cardinality(S)) = Cardinality(S)
  BY <1>2, FS_Interval
<1>7. g \in Surjection(1..Cardinality(S), S)
  BY <1>5, <1>6, FS_Injection
<1>8. Range(g) = S
  BY <1>4, <1>7 DEF Surjection, Range
<1>. QED
  BY <1>8 DEF g

\* There is one abort for every stream of the batch, and no other.
LEMMA AbortsOfAll ==
  ASSUME NEW S \in SUBSET Conns
  PROVE  Range(AbortFrames(S)) = {StreamFrame("TCP_ABORT", st[c].id) : c \in S}
<1> DEFINE frames == {StreamFrame("TCP_ABORT", st[c].id) : c \in S}
           g == [c \in S |-> StreamFrame("TCP_ABORT", st[c].id)]
<1>1. IsFiniteSet(S)
  BY RelayAssumption, FS_Subset
<1>2. g \in Surjection(S, frames)
  BY DEF Surjection
<1>3. IsFiniteSet(frames)
  BY <1>1, <1>2, FS_Surjection
<1>. QED
  BY <1>3, SetToSeqRange DEF AbortFrames

LEMMA RangeOfBoth ==
  ASSUME NEW T, NEW q \in Seq(T), NEW s \in Seq(T)
  PROVE  Range(q \o s) = Range(q) \cup Range(s)
<1>1. Range(q \o s) \subseteq Range(q) \cup Range(s)
  BY RangeOfConcat
<1>2. \A i \in DOMAIN q : i \in DOMAIN (q \o s) /\ (q \o s)[i] = q[i]
  OBVIOUS
<1>3. \A i \in DOMAIN s : Len(q) + i \in DOMAIN (q \o s) /\ (q \o s)[Len(q) + i] = s[i]
  OBVIOUS
<1>4. Range(q) \subseteq Range(q \o s)
  BY <1>2 DEF Range
<1>5. Range(s) \subseteq Range(q \o s)
  BY <1>3 DEF Range
<1>. QED
  BY <1>1, <1>4, <1>5

LEMMA RangeOfHead ==
  ASSUME NEW T, NEW q \in Seq(T), q # <<>>
  PROVE  Range(q) = {Head(q)} \cup Range(Tail(q))
<1>1. Range(Tail(q)) \subseteq Range(q)
  BY RangeOfTail
<1>2. Head(q) \in Range(q)
  BY DEF Range
<1>3. ASSUME NEW i \in DOMAIN q PROVE q[i] \in {Head(q)} \cup Range(Tail(q))
  <2>1. CASE i = 1
    BY <2>1
  <2>2. CASE i # 1
    <3>1. i - 1 \in DOMAIN Tail(q) /\ Tail(q)[i - 1] = q[i]
      BY <2>2
    <3>. QED
      BY <3>1 DEF Range
  <2>. QED
    BY <2>1, <2>2
<1>4. Range(q) \subseteq {Head(q)} \cup Range(Tail(q))
  BY <1>3 DEF Range
<1>. QED
  BY <1>1, <1>2, <1>4

LEMMA RangeOfAppend ==
  ASSUME NEW T, NEW q \in Seq(T), NEW f \in T
  PROVE  Range(Append(q, f)) = Range(q) \cup {f}
<1>1. Append(q, f) = q \o <<f>> /\ <<f>> \in Seq(T)
  OBVIOUS
<1>2. Range(<<f>>) = {f}
  BY DEF Range
<1>3. Range(q \o <<f>>) = Range(q) \cup Range(<<f>>)
  BY <1>1, RangeOfBoth
<1>. QED
  BY <1>1, <1>2, <1>3

\* Frames added to a queue leave what was there.
LEMMA EndsOfMore ==
  ASSUME NEW q, NEW r, Range(q) \subseteq Range(r), NEW i
  PROVE  (Ending(q, i) => Ending(r, i)) /\ (Opening(q, i) => Opening(r, i))
BY DEF Ending, Opening

-----------------------------------------------------------------------------
(* Whom the relay tells of the streams it drops.                           *)

Drops(c) == Live(c) /\ ~Live(c)'

ToldClient(c) ==
    wsClient'[st[c].client] = "open" => Ending(toClient'[st[c].client], st[c].id)
ToldAgent(c) ==
    IsAgent(c) /\ wsAgent'[st[c].agent] = "open" => Ending(toAgent'[st[c].agent], st[c].id)

\* what is new to a client is of a stream, and an end of one that is gone; to
\* an agent, no end is of a stream that waits to be confirmed
NewsToClients ==
    \A k \in Clients : \A f \in Range(toClient'[k]) :
        f \in Range(toClient[k])
        \/ \E c \in Conns : st[c].id = f.id /\ (f.type \in EndTypes => ~Live(c)')
NewsToAgents ==
    \A a \in Agents : \A f \in Range(toAgent'[a]) : f.type \in EndTypes /\ f.id # 0 =>
        f \in Range(toAgent[a])
        \/ \E c \in Conns : st[c].id = f.id /\ (Live(c)' => ~st[c].awaiting)

RelayTells ==
    /\ RelayQuiet /\ NewsToClients /\ NewsToAgents
    /\ \A c \in Conns : Live(c)' => Live(c)

LEMMA LiveAfterCleanup ==
  ASSUME IInv, NEW S \in SUBSET LiveConns, CleanupTcpStreams(S)
  PROVE  \A d \in Conns : Live(d)' <=> Live(d) /\ d \notin S
<1>1. \A d \in Conns : st'[d] = IF d \in S THEN CleanedState(st[d]) ELSE st[d]
  BY DEF CleanupTcpStreams
<1>2. \A s \in StreamStates : CleanedState(s).phase = "cleaned"
  BY DEF CleanedState, StreamStates
<1>3. \A d \in Conns : st[d] \in StreamStates
  BY DEF IInv, TypeOK
<1>. QED
  BY <1>1, <1>2, <1>3 DEF Live

LEMMA LiveClient ==
  ASSUME IInv, NEW c \in LiveConns
  PROVE  c \in Conns /\ st[c].client \in Clients /\ st[c].id \in StreamIds
BY DEF IInv, LiveStreamsHaveEnds, LiveNamed, TypeOK, LiveConns

LEMMA ClientNews ==
  ASSUME TypeOK, NEW c \in Conns, NEW s \in Seq(DownFrames),
         toClient' = ToClient(st[c].client, s),
         \A f \in Range(s) : f.id = st[c].id /\ (f.type \in EndTypes => ~Live(c)')
  PROVE  NewsToClients
<1> SUFFICES ASSUME NEW k \in Clients, NEW f, f \in Range(toClient'[k]), f \notin Range(toClient[k])
             PROVE  f \in Range(s)
  BY DEF NewsToClients
<1>1. toClient[k] \in Seq(ToClientFrames) /\ s \in Seq(ToClientFrames)
  BY DEF TypeOK, ToClientFrames
<1>2. toClient'[k] = toClient[k] \/ toClient'[k] = toClient[k] \o s
  BY DEF ToClient, TypeOK
<1>3. toClient'[k] = toClient[k] \o s
  BY <1>2
<1>. QED
  BY <1>1, <1>3, RangeOfConcat

LEMMA AgentNews ==
  ASSUME TypeOK, NEW c \in Conns, NEW b, NEW s \in Seq(OtherFrames), toAgent' = ToAgent(b, s),
         \A f \in Range(s) : f.type \in EndTypes /\ f.id # 0 =>
            f.id = st[c].id /\ (Live(c)' => ~st[c].awaiting)
  PROVE  NewsToAgents
<1> SUFFICES ASSUME NEW a \in Agents, NEW f, f \in Range(toAgent'[a]), f \notin Range(toAgent[a])
             PROVE  f \in Range(s)
  BY DEF NewsToAgents
<1>1. toAgent[a] \in Seq(ToAgentFrames) /\ s \in Seq(ToAgentFrames)
  BY OthersAreNoAcks DEF TypeOK
<1>2. toAgent'[a] = toAgent[a] \/ toAgent'[a] = toAgent[a] \o s
  BY DEF ToAgent, TypeOK
<1>3. toAgent'[a] = toAgent[a] \o s
  BY <1>2
<1>. QED
  BY <1>1, <1>3, RangeOfConcat

LEMMA NoNews ==
  /\ toClient' = toClient => NewsToClients
  /\ toAgent' = toAgent => NewsToAgents
BY DEF NewsToClients, NewsToAgents

LEMMA ClientIsTold ==
  ASSUME TypeOK, NEW c \in Conns, st[c].client \in Clients, NEW s \in Seq(DownFrames),
         toClient' = ToClient(st[c].client, s), wsClient' = wsClient, Ending(s, st[c].id)
  PROVE  ToldClient(c)
<1> SUFFICES ASSUME wsClient[st[c].client] = "open"
             PROVE  Ending(toClient'[st[c].client], st[c].id)
  BY DEF ToldClient
<1> DEFINE k == st[c].client
<1>1. toClient[k] \in Seq(ToClientFrames) /\ s \in Seq(ToClientFrames)
  BY DEF TypeOK, ToClientFrames
<1>2. toClient'[k] = toClient[k] \o s
  BY DEF ToClient, TypeOK
<1>3. Range(s) \subseteq Range(toClient'[k])
  BY <1>1, <1>2, RangeOfBoth
<1>. QED
  BY <1>3, EndsOfMore

LEMMA AgentIsTold ==
  ASSUME TypeOK, NEW c \in Conns, NEW s \in Seq(OtherFrames),
         toAgent' = ToAgent(st[c].agent, s), wsAgent' = wsAgent, Ending(s, st[c].id)
  PROVE  ToldAgent(c)
<1> SUFFICES ASSUME wsAgent[st[c].agent] = "open", IsAgent(c)
             PROVE  Ending(toAgent'[st[c].agent], st[c].id)
  BY DEF ToldAgent
<1> DEFINE a == st[c].agent
<1>1. a \in Agents
  BY DEF IsAgent, TypeOK, StreamStates
<1>2. toAgent[a] \in Seq(ToAgentFrames) /\ s \in Seq(ToAgentFrames)
  BY <1>1, OthersAreNoAcks DEF TypeOK
<1>3. toAgent'[a] = toAgent[a] \o s
  BY <1>1 DEF ToAgent, TypeOK, IsAgent
<1>4. Range(s) \subseteq Range(toAgent'[a])
  BY <1>2, <1>3, RangeOfBoth
<1>. QED
  BY <1>4, EndsOfMore

\* The frames of one stream.
LEMMA OneEnd ==
  ASSUME NEW i \in StreamIds, NEW t \in EndTypes
  PROVE  /\ <<StreamFrame(t, i)>> \in Seq(DownFrames) /\ <<StreamFrame(t, i)>> \in Seq(OtherFrames)
         /\ \A f \in Range(<<StreamFrame(t, i)>>) : f.id = i
         /\ Ending(<<StreamFrame(t, i)>>, i)
<1>1. Range(<<StreamFrame(t, i)>>) = {StreamFrame(t, i)}
  BY DEF Range
<1>2. StreamFrame(t, i).type = t /\ StreamFrame(t, i).id = i
  BY DEF StreamFrame
<1>3. StreamFrame(t, i) \in DownFrames /\ StreamFrame(t, i) \in OtherFrames
  BY DEF StreamFrame, DownFrames, OtherFrames
<1>. QED
  BY <1>1, <1>2, <1>3 DEF Ending

LEMMA OneAbort ==
  ASSUME IInv, NEW c \in LiveConns
  PROVE  /\ AbortFrames({c}) \in Seq(DownFrames) /\ AbortFrames({c}) \in Seq(OtherFrames)
         /\ \A f \in Range(AbortFrames({c})) : f.id = st[c].id
         /\ Ending(AbortFrames({c}), st[c].id)
<1>1. {c} \in SUBSET LiveConns /\ {c} \in SUBSET Conns
  BY DEF LiveConns
<1>2. AbortFrames({c}) \in Seq(DownFrames) /\ AbortFrames({c}) \in Seq(OtherFrames)
  BY <1>1, AbortsAreOthers, AbortsGoDown
<1>3. Range(AbortFrames({c})) = {StreamFrame("TCP_ABORT", st[c].id)}
  BY <1>1, AbortsOfAll
<1>4. StreamFrame("TCP_ABORT", st[c].id).type \in EndTypes
      /\ StreamFrame("TCP_ABORT", st[c].id).id = st[c].id
  BY DEF StreamFrame, EndTypes
<1>. QED
  BY <1>2, <1>3, <1>4 DEF Ending

\* A stream is ended from one side or the other: the other side is told.
LEMMA EndingTells ==
  ASSUME IInv, NEW c \in LiveConns,
         \/ AbortTcpStream(c, TRUE) \/ CloseTcpStream(c) \/ RelaySocketError(c)
         \/ TcpCloseFromClient(c) \/ TcpAbortFromClient(c)
  PROVE  /\ RelayTells /\ \A d \in Conns : Drops(d) => d = c
         /\ AbortTcpStream(c, TRUE) \/ CloseTcpStream(c) \/ RelaySocketError(c) => ToldClient(c)
         /\ AbortTcpStream(c, TRUE) \/ TcpCloseFromClient(c) \/ TcpAbortFromClient(c) => ToldAgent(c)
<1>1. TypeOK /\ c \in Conns /\ st[c].client \in Clients /\ st[c].id \in StreamIds
  BY LiveClient DEF IInv
<1>2. {c} \in SUBSET LiveConns /\ CleanupTcpStreams({c})
  BY DEF AbortTcpStream, CloseTcpStream, RelaySocketError, TcpCloseFromClient, TcpAbortFromClient
<1>3. /\ ~Live(c)'
      /\ \A d \in Conns : Live(d)' => Live(d)
      /\ \A d \in Conns : Drops(d) => d = c
  BY <1>1, <1>2, LiveAfterCleanup DEF Drops
<1>4. wsClient' = wsClient /\ wsAgent' = wsAgent
  BY DEF AbortTcpStream, CloseTcpStream, RelaySocketError, TcpCloseFromClient, TcpAbortFromClient, peerVars
<1> DEFINE close == <<StreamFrame("TCP_CLOSE", st[c].id)>>
           abort == AbortFrames({c})
           reject == IF st[c].awaiting THEN <<RejectFrame(c)>> ELSE <<>>
<1>5. /\ close \in Seq(DownFrames) /\ close \in Seq(OtherFrames)
      /\ \A f \in Range(close) : f.id = st[c].id
      /\ Ending(close, st[c].id)
  BY <1>1, OneEnd DEF EndTypes
<1>6. /\ abort \in Seq(DownFrames) /\ abort \in Seq(OtherFrames)
      /\ \A f \in Range(abort) : f.id = st[c].id
      /\ Ending(abort, st[c].id)
  BY OneAbort
<1>7. /\ reject \o abort \in Seq(OtherFrames)
      /\ \A f \in Range(reject \o abort) : f.id # 0 => f.id = st[c].id
      /\ Ending(reject \o abort, st[c].id)
  <2>1. reject \in Seq(OtherFrames) /\ \A f \in Range(reject) : f.id = 0
    <3>1. RejectFrame(c) \in OtherFrames /\ RejectFrame(c).id = 0
      BY <1>1 DEF RejectFrame, OtherFrames
    <3>2. \A f \in Range(<<RejectFrame(c)>>) : f = RejectFrame(c)
      BY DEF Range
    <3>3. \A f \in Range(<<>>) : FALSE
      BY DEF Range
    <3>. QED
      BY <3>1, <3>2, <3>3
  <2> HIDE DEF reject, abort
  <2>2. Range(reject \o abort) = Range(reject) \cup Range(abort)
    BY <1>6, <2>1, RangeOfBoth
  <2>3. reject \o abort \in Seq(OtherFrames)
    BY <1>6, <2>1
  <2>4. \A f \in Range(reject \o abort) : f.id # 0 => f.id = st[c].id
    BY <1>6, <2>1, <2>2
  <2>5. Ending(reject \o abort, st[c].id)
    BY <1>6, <2>2, EndsOfMore
  <2>. QED
    BY <2>3, <2>4, <2>5
<1>8. /\ AbortTcpStream(c, TRUE) => /\ toClient' = ToClient(st[c].client, abort)
                                    /\ toAgent' = ToAgent(st[c].agent, abort)
      /\ CloseTcpStream(c) => /\ toClient' = ToClient(st[c].client, close)
                              /\ toAgent' = toAgent
      /\ RelaySocketError(c) => /\ toClient' = ToClient(st[c].client, abort)
                                /\ toAgent' = toAgent
      /\ TcpCloseFromClient(c) => /\ toClient' = toClient
                                  /\ toAgent' = ToAgent(st[c].agent, close)
      /\ TcpAbortFromClient(c) => /\ toClient' = toClient
                                  /\ toAgent' = ToAgent(st[c].agent, reject \o abort)
  BY DEF AbortTcpStream, CloseTcpStream, RelaySocketError, TcpCloseFromClient, TcpAbortFromClient
<1>9. RelayQuiet
  BY EndingsKeep
<1> HIDE DEF close, abort, reject
<1>10. NewsToClients
  <2>1. toClient' = toClient \/ \E s \in {close, abort} : toClient' = ToClient(st[c].client, s)
    BY <1>8
  <2>. QED
    BY <1>1, <1>3, <1>5, <1>6, <2>1, ClientNews, NoNews
<1>11. NewsToAgents
  <2>1. \/ toAgent' = toAgent
        \/ \E s \in {close, abort, reject \o abort} : toAgent' = ToAgent(st[c].agent, s)
    BY <1>8
  <2>2. \A s \in {close, abort, reject \o abort} :
           s \in Seq(OtherFrames) /\ \A f \in Range(s) : f.id # 0 => f.id = st[c].id
    BY <1>5, <1>6, <1>7
  <2>. QED
    BY <1>1, <1>3, <2>1, <2>2, AgentNews, NoNews
<1>12. AbortTcpStream(c, TRUE) \/ CloseTcpStream(c) \/ RelaySocketError(c) => ToldClient(c)
  <2> SUFFICES ASSUME NEW s \in {close, abort}, toClient' = ToClient(st[c].client, s)
               PROVE  ToldClient(c)
    BY <1>8
  <2>. QED
    BY <1>1, <1>4, <1>5, <1>6, ClientIsTold
<1>13. AbortTcpStream(c, TRUE) \/ TcpCloseFromClient(c) \/ TcpAbortFromClient(c) => ToldAgent(c)
  <2> SUFFICES ASSUME NEW s \in {close, abort, reject \o abort}, toAgent' = ToAgent(st[c].agent, s)
               PROVE  ToldAgent(c)
    BY <1>8
  <2>1. s \in Seq(OtherFrames) /\ Ending(s, st[c].id)
    BY <1>5, <1>6, <1>7
  <2>. QED
    BY <1>1, <1>4, <2>1, AgentIsTold
<1>. QED
  BY <1>3, <1>9, <1>10, <1>11, <1>12, <1>13 DEF RelayTells

\* Data ends nothing.
LEMMA DataTells ==
  ASSUME IInv, NEW c \in LiveConns,
         \/ TcpDataFromClient(c)
         \/ RelayInboundData(c) /\ wsClient[st[c].client] = "open"
  PROVE  RelayTells /\ \A d \in Conns : ~Drops(d)
<1>1. TypeOK /\ c \in Conns /\ st[c].id \in StreamIds
  BY LiveClient DEF IInv
<1>2. st' = st
  BY DEF TcpDataFromClient, RelayInboundData, streamVars
<1>3. \A d \in Conns : Live(d)' = Live(d)
  BY <1>2 DEF Live
<1> DEFINE data == <<StreamFrame("TCP_DATA", st[c].id)>>
<1>4. /\ data \in Seq(DownFrames) /\ data \in Seq(OtherFrames)
      /\ \A f \in Range(data) : f.id = st[c].id /\ f.type \notin EndTypes
  <2>1. Range(data) = {StreamFrame("TCP_DATA", st[c].id)}
    BY DEF Range
  <2>. QED
    BY <1>1, <2>1 DEF StreamFrame, DownFrames, OtherFrames, EndTypes
<1>5. /\ toClient' = toClient \/ toClient' = ToClient(st[c].client, data)
      /\ toAgent' = toAgent \/ toAgent' = ToAgent(st[c].agent, data)
  BY DEF TcpDataFromClient, RelayInboundData
<1> HIDE DEF data
<1>6. NewsToClients /\ NewsToAgents
  BY <1>1, <1>4, <1>5, ClientNews, AgentNews, NoNews
<1>7. RelayQuiet
  BY EndingsKeep
<1>. QED
  BY <1>3, <1>6, <1>7 DEF RelayTells, Drops

\* Steps that drop nothing and send nothing.
LEMMA SilentTells ==
  ASSUME RelayQuiet, \A d \in Conns : Live(d)' <=> Live(d), toClient' = toClient, toAgent' = toAgent
  PROVE  RelayTells /\ \A d \in Conns : ~Drops(d)
BY NoNews DEF RelayTells, Drops

\* Many streams are dropped at once.
LEMMA BulkTells ==
  ASSUME IInv, RelayQuiet, NEW S \in SUBSET LiveConns, CleanupTcpStreams(S),
         \A a \in Agents : toAgent'[a] \in {toAgent[a], AgentsToldAbort(S)[a]},
         \A k \in Clients :
            toClient'[k] \in {toClient[k],
                              toClient[k] \o AbortFrames({c \in S : st[c].client = k})}
  PROVE  RelayTells /\ \A d \in Conns : Drops(d) <=> d \in S
<1>1. TypeOK /\ S \subseteq Conns
  BY DEF IInv, LiveConns
<1>2. \A d \in Conns : Live(d)' <=> Live(d) /\ d \notin S
  BY LiveAfterCleanup
<1>3. \A d \in Conns : Drops(d) <=> d \in S
  BY <1>2 DEF Drops, LiveConns
<1>4. ASSUME NEW T \in SUBSET S, NEW f \in Range(AbortFrames(T))
      PROVE  \E c \in T : st[c].id = f.id /\ ~Live(c)'
  <2>1. PICK c \in T : f = StreamFrame("TCP_ABORT", st[c].id)
    BY <1>1, AbortsOfAll
  <2>. QED
    BY <1>1, <1>2, <2>1 DEF StreamFrame
<1>5. NewsToClients
  <2> SUFFICES ASSUME NEW k \in Clients, NEW f, f \in Range(toClient'[k]), f \notin Range(toClient[k])
               PROVE  \E c \in Conns : st[c].id = f.id /\ ~Live(c)'
    BY DEF NewsToClients
  <2>1. PICK T : T = {c \in S : st[c].client = k}
    OBVIOUS
  <2>2. toClient[k] \in Seq(ToClientFrames) /\ AbortFrames(T) \in Seq(ToClientFrames)
    BY <1>1, <2>1, AbortFramesToBoth DEF TypeOK
  <2>3. toClient'[k] = toClient[k] \o AbortFrames(T)
    BY <2>1
  <2>4. f \in Range(AbortFrames(T)) /\ T \in SUBSET S
    BY <2>1, <2>2, <2>3, RangeOfConcat
  <2>. QED
    BY <1>1, <1>4, <2>4
<1>6. NewsToAgents
  <2> SUFFICES ASSUME NEW a \in Agents, NEW f, f \in Range(toAgent'[a]), f \notin Range(toAgent[a])
               PROVE  \E c \in Conns : st[c].id = f.id /\ ~Live(c)'
    BY DEF NewsToAgents
  <2>1. PICK T : T = {c \in S : st[c].agent = a}
    OBVIOUS
  <2>2. toAgent[a] \in Seq(ToAgentFrames) /\ AbortFrames(T) \in Seq(ToAgentFrames)
    BY <1>1, <2>1, AbortsAreOthers, OthersAreNoAcks DEF TypeOK
  <2>3. toAgent'[a] = toAgent[a] \o AbortFrames(T)
    <3>1. toAgent'[a] = AgentsToldAbort(S)[a] /\ toAgent'[a] # toAgent[a]
      OBVIOUS
    <3>. QED
      BY <2>1, <3>1 DEF AgentsToldAbort
  <2>4. f \in Range(AbortFrames(T)) /\ T \in SUBSET S
    BY <2>1, <2>2, <2>3, RangeOfConcat
  <2>. QED
    BY <1>1, <1>4, <2>4
<1>. QED
  BY <1>2, <1>3, <1>5, <1>6 DEF RelayTells

\* One of many is told.
LEMMA ToldAmongMany ==
  ASSUME IInv, NEW S \in SUBSET LiveConns, NEW d \in S
  PROVE  /\ IsAgent(d) /\ wsAgent[st[d].agent] = "open"
               /\ toAgent'[st[d].agent] = AgentsToldAbort(S)[st[d].agent]
            => Ending(toAgent'[st[d].agent], st[d].id)
         /\ toClient'[st[d].client]
                  = toClient[st[d].client] \o AbortFrames({c \in S : st[c].client = st[d].client})
            => Ending(toClient'[st[d].client], st[d].id)
<1>1. TypeOK /\ S \subseteq Conns /\ d \in Conns
  BY DEF IInv, LiveConns
<1>2. ASSUME NEW T \in SUBSET S, d \in T PROVE Ending(AbortFrames(T), st[d].id)
  <2>1. StreamFrame("TCP_ABORT", st[d].id) \in Range(AbortFrames(T))
    BY <1>1, <1>2, AbortsOfAll
  <2>2. StreamFrame("TCP_ABORT", st[d].id).type \in EndTypes
        /\ StreamFrame("TCP_ABORT", st[d].id).id = st[d].id
    BY DEF StreamFrame, EndTypes
  <2>. QED
    BY <2>1, <2>2 DEF Ending
<1>3. ASSUME NEW a, a = st[d].agent, IsAgent(d), wsAgent[a] = "open",
             toAgent'[a] = AgentsToldAbort(S)[a]
      PROVE  Ending(toAgent'[a], st[d].id)
  <2>1. PICK T : T = {c \in S : st[c].agent = a}
    OBVIOUS
  <2>2. a \in Agents
    BY <1>1, <1>3 DEF IsAgent, TypeOK, StreamStates
  <2>3. toAgent'[a] = toAgent[a] \o AbortFrames(T)
    BY <1>3, <2>1, <2>2 DEF AgentsToldAbort
  <2>4. toAgent[a] \in Seq(ToAgentFrames) /\ AbortFrames(T) \in Seq(ToAgentFrames)
    BY <1>1, <2>1, <2>2, AbortsAreOthers, OthersAreNoAcks DEF TypeOK
  <2>5. Ending(AbortFrames(T), st[d].id)
    BY <1>2, <1>3, <2>1
  <2>6. Range(AbortFrames(T)) \subseteq Range(toAgent'[a])
    BY <2>3, <2>4, RangeOfBoth
  <2>. QED
    BY <2>5, <2>6, EndsOfMore
<1>4. ASSUME NEW k, k = st[d].client,
             toClient'[k] = toClient[k] \o AbortFrames({c \in S : st[c].client = k})
      PROVE  Ending(toClient'[k], st[d].id)
  <2>1. PICK T : T = {c \in S : st[c].client = k}
    OBVIOUS
  <2>2. k \in Clients
    BY <1>4, LiveClient
  <2>4. toClient[k] \in Seq(ToClientFrames) /\ AbortFrames(T) \in Seq(ToClientFrames)
    BY <1>1, <2>1, <2>2, AbortFramesToBoth DEF TypeOK
  <2>5. Ending(AbortFrames(T), st[d].id)
    BY <1>2, <1>4, <2>1
  <2>6. Range(AbortFrames(T)) \subseteq Range(toClient'[k])
    <3>1. toClient'[k] = toClient[k] \o AbortFrames(T)
      BY <1>4, <2>1
    <3>. QED
      BY <2>4, <3>1, RangeOfBoth
  <2>. QED
    BY <2>5, <2>6, EndsOfMore
<1>. QED
  BY <1>3, <1>4

\* A WebSocket closes: the far ends of its streams are told.
LEMMA ClosingsTell ==
  ASSUME IInv, \/ \E a \in Agents : CleanupAgent(a)
               \/ \E k \in Clients : CleanupClient(k)
  PROVE  RelayTells /\ \A d \in Conns : Drops(d) => ToldClient(d) /\ ToldAgent(d)
<1>1. TypeOK /\ RelayQuiet
  BY ClosingsKeep DEF IInv
<1>2. ASSUME NEW a \in Agents, CleanupAgent(a)
      PROVE  RelayTells /\ \A d \in Conns : Drops(d) => ToldClient(d) /\ ToldAgent(d)
  <2> DEFINE S == {c \in LiveConns : st[c].id \in agentStreams[a]}
  <2>1. /\ S \in SUBSET LiveConns /\ CleanupTcpStreams(S)
        /\ toAgent' = [AgentsToldAbort(S) EXCEPT ![a] = toAgent[a]]
        /\ toClient' = [k \in Clients |->
               IF wsClient[k] = "open"
               THEN toClient[k] \o AbortFrames({c \in S : st[c].client = k})
               ELSE toClient[k]]
        /\ wsClient' = wsClient /\ wsAgent' = [wsAgent EXCEPT ![a] = "closed"]
    BY <1>2 DEF CleanupAgent
  <2> HIDE DEF S
  <2>2. \A b \in Agents : toAgent'[b] = IF b = a THEN toAgent[b] ELSE AgentsToldAbort(S)[b]
    BY <2>1 DEF AgentsToldAbort
  <2>3. RelayTells /\ \A d \in Conns : Drops(d) <=> d \in S
    BY <1>1, <2>1, <2>2, BulkTells
  <2>4. ASSUME NEW d \in S PROVE ToldClient(d) /\ ToldAgent(d)
    <3>1. d \in LiveConns /\ st[d].client \in Clients /\ (IsAgent(d) => st[d].agent \in Agents)
      BY <1>1, <2>1, LiveClient DEF IsAgent, TypeOK, StreamStates
    <3>2. ToldClient(d)
      BY <2>1, <3>1, ToldAmongMany DEF ToldClient
    <3>3. IsAgent(d) /\ wsAgent'[st[d].agent] = "open" =>
             wsAgent[st[d].agent] = "open" /\ st[d].agent # a
      BY <1>1, <2>1, <3>1 DEF TypeOK
    <3>4. ToldAgent(d)
      BY <2>1, <2>2, <3>1, <3>3, ToldAmongMany DEF ToldAgent
    <3>. QED
      BY <3>2, <3>4
  <2>. QED
    BY <2>3, <2>4
<1>3. ASSUME NEW k \in Clients, CleanupClient(k)
      PROVE  RelayTells /\ \A d \in Conns : Drops(d) => ToldClient(d) /\ ToldAgent(d)
  <2> DEFINE S == IF k \in clients THEN {c \in LiveConns : st[c].client = k} ELSE {}
  <2>1. /\ S \in SUBSET LiveConns /\ CleanupTcpStreams(S)
        /\ \A d \in S : st[d].client = k
        /\ toAgent' = AgentsToldAbort(S) /\ toClient' = toClient
        /\ wsAgent' = wsAgent /\ wsClient' = [wsClient EXCEPT ![k] = "closed"]
    BY <1>3 DEF CleanupClient
  <2> HIDE DEF S
  <2>2. RelayTells /\ \A d \in Conns : Drops(d) <=> d \in S
    BY <1>1, <2>1, BulkTells
  <2>3. ASSUME NEW d \in S PROVE ToldClient(d) /\ ToldAgent(d)
    <3>1. wsClient'[st[d].client] # "open"
      BY <1>1, <2>1 DEF TypeOK
    <3>2. ToldAgent(d)
      BY <2>1, ToldAmongMany DEF ToldAgent
    <3>. QED
      BY <3>1, <3>2 DEF ToldClient
  <2>. QED
    BY <2>2, <2>3
<1>. QED
  BY <1>2, <1>3

\* A frame of an agent, of a stream the agent has joined.
LEMMA AgentFrameTells ==
  ASSUME IInv, NEW a \in Agents, NEW f \in FromAgentFrames, HandleAgentFrame(a, f),
         NEW e \in Conns, Joinable(e, a, f.id)
  PROVE  /\ RelayTells
         /\ \A d \in Conns : Drops(d) =>
               ToldClient(d) /\ (ToldAgent(d) \/ (st[d].id = f.id /\ f.type \in EndTypes))
<1>1. TypeOK /\ f.id \in StreamIds /\ f.type \in {"TCP_DATA"} \cup EndTypes
  BY DEF IInv, FromAgentFrames, EndTypes
<1>2. CASE AgentStreamMissing(a, f.type, f.id)
  <2>1. RelayQuiet
    BY AgentFrameKeeps
  <2>2. st' = st /\ toClient' = toClient
    BY <1>2 DEF AgentStreamMissing, streamVars
  <2>3. \A d \in Conns : Live(d)' = Live(d)
    BY <2>2 DEF Live
  <2>4. NewsToAgents
    <3>1. toAgent' = toAgent \/ toAgent' = ToAgent(a, <<StreamFrame("TCP_ABORT", f.id)>>)
      BY <1>2 DEF AgentStreamMissing
    <3>2. /\ <<StreamFrame("TCP_ABORT", f.id)>> \in Seq(OtherFrames)
          /\ \A g \in Range(<<StreamFrame("TCP_ABORT", f.id)>>) : g.id = f.id
      BY <1>1, OneEnd DEF EndTypes
    <3>3. st[e].id = f.id /\ ~st[e].awaiting
      BY DEF Joinable
    <3>. QED
      BY <1>1, <3>1, <3>2, <3>3, AgentNews, NoNews
  <2>5. NewsToClients
    BY <2>2, NoNews
  <2>. QED
    BY <2>1, <2>3, <2>4, <2>5 DEF RelayTells, Drops
<1>3. CASE AgentFrameIgnored(a, f.id)
  <2>1. st' = st /\ toClient' = toClient /\ toAgent' = toAgent
    BY <1>3 DEF AgentFrameIgnored, relayVars
  <2>2. \A d \in Conns : Live(d)' <=> Live(d)
    BY <2>1 DEF Live
  <2>. QED
    BY <2>1, <2>2, AgentFrameKeeps, SilentTells
<1>4. CASE AgentStreamFrame(a, f.type, f.id)
  <2>0. PICK c : c = streams[f.id]
    OBVIOUS
  <2>1. c \in LiveConns /\ st[c].id = f.id
    BY <1>1, <1>4, <2>0, TableEntryLive DEF AgentStreamFrame, IsAgentStream
  <2>2. CASE f.type = "TCP_DATA" /\ RelayInboundData(c)
    <3>1. CASE wsClient[st[c].client] = "open"
      BY <2>1, <2>2, <3>1, DataTells
    <3>2. CASE wsClient[st[c].client] # "open"
      <4>1. AbortTcpStream(c, TRUE)
        BY <2>2, <3>2 DEF RelayInboundData
      <4>. QED
        BY <2>1, <4>1, EndingTells
    <3>. QED
      BY <3>1, <3>2
  <2>3. CASE f.type \in EndTypes /\ (CloseTcpStream(c) \/ RelaySocketError(c))
    BY <2>1, <2>3, EndingTells
  <2>. QED
    BY <1>4, <2>0, <2>2, <2>3 DEF AgentStreamFrame, EndTypes
<1>. QED
  BY <1>2, <1>3, <1>4 DEF HandleAgentFrame

LEMMA HeldOwned ==
  ASSUME IInv, NEW k, NEW i \in StreamIds
  PROVE  Held(k, i) <=> Owns(k, i)
<1>1. Owns(k, i) => Held(k, i)
  BY TableEntryLive DEF Owns, Held, LiveConns
<1>2. Held(k, i) => Owns(k, i)
  BY RelayAssumption DEF Held, Owns, IInv, TableConsistent
<1>. QED
  BY <1>1, <1>2

\* A frame of a client confirms a stream, or drops none but its own.
LEMMA ClientFrameTells ==
  ASSUME IInv, NEW k \in Clients, NEW f \in FromClientFrames, f.type # "RES_ABORT",
         HandleClientFrame(k, f)
  PROVE  \/ /\ RelayTells
            /\ \A d \in Conns : Drops(d) =>
                  /\ ToldAgent(d)
                  /\ st[d].client = k /\ st[d].id = f.id /\ f.type \in EndTypes
            /\ f.type \in EndTypes => \A d \in Conns :
                  Live(d) /\ st[d].id = f.id /\ st[d].client = k => ~Live(d)'
         \/ \E c \in Conns : Confirms(c) /\ st[c].id = f.id /\ f.type = "TCP_OPEN_ACK"
<1>1. TypeOK /\ f.id \in StreamIds
  BY DEF IInv, FromClientFrames
<1>2. CASE ~Owns(k, f.id) /\ UNCHANGED relayVars
  <2>1. st' = st /\ toClient' = toClient /\ toAgent' = toAgent
    BY <1>2 DEF relayVars
  <2>2. \A d \in Conns : Live(d)' <=> Live(d)
    BY <2>1 DEF Live
  <2>3. RelayTells /\ \A d \in Conns : ~Drops(d)
    BY <1>2, <2>1, <2>2, RegistrationsKeep, SilentTells
  <2>4. ~Held(k, f.id)
    BY <1>1, <1>2, HeldOwned
  <2>. QED
    BY <2>3, <2>4 DEF Held
<1>3. CASE Owns(k, f.id)
  <2>0. PICK c : c = streams[f.id]
    OBVIOUS
  <2>1. c \in LiveConns /\ st[c].id = f.id /\ c \in Conns /\ st[c].client = k
    BY <1>1, <1>3, <2>0, TableEntryLive DEF Owns, LiveConns
  <2>2. \A d \in Conns : Live(d) /\ st[d].id = f.id => d = c
    BY <1>1, <2>0 DEF IInv, TableConsistent
  <2>3. CASE f.type = "TCP_OPEN_ACK" /\ TcpOpenAck(c)
    <3>1. CASE st[c].awaiting
      BY <2>1, <2>3, <3>1 DEF TcpOpenAck, Confirms
    <3>2. CASE ~st[c].awaiting
      <4>1. st' = st /\ nextStreamId' = nextStreamId /\ toAgent' = toAgent /\ toClient' = toClient
        BY <2>3, <3>2 DEF TcpOpenAck
      <4>2. RelayQuiet
        BY <1>1, <4>1, SameStreamsKept, NothingSent DEF RelayQuiet
      <4>3. \A d \in Conns : Live(d)' <=> Live(d)
        BY <4>1 DEF Live
      <4>. QED
        BY <2>3, <4>1, <4>2, <4>3, SilentTells DEF EndTypes
    <3>. QED
      BY <3>1, <3>2
  <2>4. CASE f.type = "TCP_DATA" /\ TcpDataFromClient(c)
    BY <2>1, <2>4, DataTells DEF EndTypes
  <2>5. CASE f.type \in EndTypes /\ (TcpCloseFromClient(c) \/ TcpAbortFromClient(c))
    <3>1. /\ RelayTells /\ \A d \in Conns : Drops(d) => d = c
          /\ ToldAgent(c)
      BY <2>1, <2>5, EndingTells
    <3>2. ~Live(c)'
      <4>1. {c} \in SUBSET LiveConns /\ CleanupTcpStreams({c})
        BY <2>1, <2>5 DEF TcpCloseFromClient, TcpAbortFromClient
      <4>. QED
        BY <2>1, <4>1, LiveAfterCleanup
    <3>. QED
      BY <2>1, <2>2, <2>5, <3>1, <3>2
  <2>. QED
    BY <1>2, <1>3, <2>0, <2>3, <2>4, <2>5 DEF HandleClientFrame, EndTypes
<1>. QED
  BY <1>2, <1>3 DEF HandleClientFrame

\* A TCP_CONNECT is refused, or starts a stream.
LEMMA ConnectTells ==
  ASSUME IInv, NEW a \in Agents, NEW c \in Conns, NEW p \in Ports, NEW t,
         HandleTcpConnect(a, c, p, t)
  PROVE  (RelayTells /\ \A d \in Conns : ~Drops(d)) \/ \E k \in Clients : Started(c, p, k, a)
<1>1. TypeOK
  BY DEF IInv
<1>2. CASE RelayQuiet /\ ConnectRefused(a, p, t)
  <2>1. st' = [st EXCEPT ![c].phase = "refused"] /\ toClient' = toClient /\ st[c].phase = "unused"
        /\ toAgent' = ToAgent(a, <<RejectFrame(c)>>)
    BY <1>2 DEF HandleTcpConnect
  <2>2. \A d \in Conns : Live(d)' <=> Live(d)
    BY <1>1, <2>1 DEF Live, TypeOK, StreamStates
  <2>3. /\ <<RejectFrame(c)>> \in Seq(OtherFrames)
        /\ \A g \in Range(<<RejectFrame(c)>>) : g.id = 0
    <3>1. RejectFrame(c) \in OtherFrames /\ RejectFrame(c).id = 0
      BY DEF RejectFrame, OtherFrames
    <3>2. Range(<<RejectFrame(c)>>) = {RejectFrame(c)}
      BY DEF Range
    <3>. QED
      BY <3>1, <3>2
  <2>4. NewsToAgents
    BY <1>1, <2>1, <2>3, AgentNews
  <2>. QED
    BY <1>2, <2>1, <2>2, <2>4, NoNews DEF RelayTells, Drops
<1>3. CASE ~ConnectRefused(a, p, t)
  <2>1. PICK k \in TargetClients(t) : StartStream(c, p, k, a)
    BY <1>3 DEF HandleTcpConnect
  <2>2. k \in OpenClients /\ k \in Clients
    BY <1>1, IInv DEF TargetClients, OpenClients, TypeOK, IInv, OpenRegistered
  <2>. QED
    BY <1>3, <2>1, <2>2 DEF HandleTcpConnect, Started
<1>4. CASE ConnectRefused(a, p, t) /\ ~RelayQuiet
  BY <1>4, ConnectKinds DEF HandleTcpConnect, Started, StartStream
<1>. QED
  BY <1>2, <1>3, <1>4

\* A direct connection arrives, speaks or ends, or a stream is idle.
LEMMA DirectTells ==
  ASSUME IInv, NEW c \in Conns,
         \/ \E p \in Ports, allowedIp \in BOOLEAN : HandleDirectConnection(c, p, allowedIp)
         \/ DirectData(c)
         \/ \E error \in BOOLEAN : DirectEnd(c, error)
         \/ StreamIdle(c)
  PROVE  \/ RelayTells /\ \A d \in Conns : Drops(d) => ToldClient(d) /\ ToldAgent(d)
         \/ \E p \in Ports, k \in Clients : Started(c, p, k, NoAgent)
<1>1. TypeOK
  BY DEF IInv
<1>2. ASSUME NEW p \in Ports, NEW allowedIp \in BOOLEAN, HandleDirectConnection(c, p, allowedIp)
      PROVE  \/ RelayTells /\ \A d \in Conns : ~Drops(d)
             \/ \E k \in Clients : Started(c, p, k, NoAgent)
  <2>1. CASE ConnectionRefused(p, allowedIp)
    <3>1. /\ st' = [st EXCEPT ![c].phase = "refused", ![c].socket = "destroyed"]
          /\ nextStreamId' = nextStreamId
          /\ st[c].phase = "unused" /\ toAgent' = toAgent /\ toClient' = toClient
      BY <1>2, <2>1 DEF HandleDirectConnection
    <3>2. RelayQuiet
      BY <1>1, <3>1, OneStateKept, NothingSent DEF RelayQuiet
    <3>3. \A d \in Conns : Live(d)' <=> Live(d)
      BY <1>1, <3>1 DEF Live, TypeOK, StreamStates
    <3>. QED
      BY <3>1, <3>2, <3>3, SilentTells
  <2>2. CASE ~ConnectionRefused(p, allowedIp)
    <3>1. PICK k \in OpenClients : StartStream(c, p, k, NoAgent)
      BY <1>2, <2>2 DEF HandleDirectConnection
    <3>2. k \in Clients
      BY <1>1 DEF OpenClients, TypeOK
    <3>. QED
      BY <1>2, <2>2, <3>1, <3>2 DEF HandleDirectConnection, Started
  <2>. QED
    BY <2>1, <2>2
<1>3. CASE DirectData(c)
  <2>1. c \in LiveConns /\ RelayInboundData(c)
    BY <1>3 DEF DirectData, LiveConns
  <2>2. CASE wsClient[st[c].client] = "open"
    BY <2>1, <2>2, DataTells
  <2>3. CASE wsClient[st[c].client] # "open"
    <3>1. AbortTcpStream(c, TRUE)
      BY <2>1, <2>3 DEF RelayInboundData
    <3>. QED
      BY <2>1, <3>1, EndingTells
  <2>. QED
    BY <2>2, <2>3
<1>4. ASSUME NEW error \in BOOLEAN, DirectEnd(c, error)
      PROVE  RelayTells /\ \A d \in Conns : Drops(d) => ToldClient(d) /\ ToldAgent(d)
  <2>1. CASE Live(c)
    <3>1. c \in LiveConns /\ (CloseTcpStream(c) \/ RelaySocketError(c)) /\ ~IsAgent(c)
      BY <1>4, <2>1 DEF DirectEnd, Direct, IsAgent, LiveConns
    <3>2. /\ RelayTells /\ \A d \in Conns : Drops(d) => d = c
          /\ ToldClient(c)
      BY <3>1, EndingTells
    <3>. QED
      BY <3>1, <3>2 DEF ToldAgent
  <2>2. CASE ~Live(c)
    <3>1. /\ st' = [st EXCEPT ![c].socket = "destroyed"] /\ nextStreamId' = nextStreamId
          /\ toAgent' = toAgent /\ toClient' = toClient
      BY <1>4, <2>2 DEF DirectEnd
    <3>2. RelayQuiet
      BY <1>1, <3>1, OneStateKept, NothingSent DEF RelayQuiet
    <3>3. \A d \in Conns : Live(d)' <=> Live(d)
      BY <1>1, <3>1 DEF Live, TypeOK, StreamStates
    <3>. QED
      BY <3>1, <3>2, <3>3, SilentTells
  <2>. QED
    BY <2>1, <2>2
<1>5. CASE StreamIdle(c)
  <2>1. c \in LiveConns /\ AbortTcpStream(c, TRUE)
    BY <1>5 DEF StreamIdle, LiveConns
  <2>. QED
    BY <2>1, EndingTells
<1>. QED
  BY <1>2, <1>3, <1>4, <1>5

-----------------------------------------------------------------------------
(* What the relay's steps are, between its two real peers.                 *)

ServedInv == ClientsInv /\ AppsInv

\* no end of a WebSocket opens
WsFall ==
    /\ UNCHANGED <<endAgent, endClient>>
    /\ \A k \in Clients : /\ wsClient'[k] = "open" => wsClient[k] = "open"
                          /\ wsClient'[k] = "none" => wsClient[k] = "none"
    /\ \A a \in Agents : /\ wsAgent'[a] = "open" => wsAgent[a] = "open"
                         /\ wsAgent'[a] = "none" => wsAgent[a] = "none"

\* frames are taken from the peers; the end of a stream the relay holds takes effect
FramesTaken ==
    /\ \A a \in Agents : Range(fromAgent'[a]) \subseteq Range(fromAgent[a])
    /\ \A k \in Clients, i \in StreamIds : Ending(fromClient[k], i) =>
          Ending(fromClient'[k], i) \/ wsClient'[k] # "open" \/ ~Held(k, i)'

\* whoever has not ended a stream is told that it is dropped
AllTold ==
    \A c \in Conns : Drops(c) =>
        /\ ToldClient(c) \/ Ending(fromClient[st[c].client], st[c].id)
        /\ ToldAgent(c) \/ app[c] = "closed"

RelayWorks ==
    /\ PeersKept /\ WsFall /\ FramesTaken
    /\ \/ RelayTells /\ AllTold
       \/ \E c, p, k, a : Started(c, p, k, a) /\ (a # NoAgent => wsAgent[a] # "none")
       \/ \E c \in Conns : Confirms(c)

LEMMA WsUnchanged ==
  ASSUME UNCHANGED <<wsClient, wsAgent, endAgent, endClient>>
  PROVE  WsFall
BY DEF WsFall

LEMMA AgentFrameServed ==
  ASSUME TypesInv, EndsInv, ServedInv, NEW a \in Agents, RelayTakesAgentFrame(a)
  PROVE  RelayWorks
<1>0. IInv /\ TypeOK
  BY DEF TypesInv, IInv
<1>1. PeersKept
  BY DEF RelayTakesAgentFrame, PeersKept, clientVars
<1>2. PICK f \in FromAgentFrames \cup ConnectFrames :
         /\ f \in Range(fromAgent[a])
         /\ \/ f.type = "TCP_CONNECT" /\ HandleTcpConnect(a, f.req, f.port, f.target)
            \/ f.type # "TCP_CONNECT" /\ HandleAgentFrame(a, f)
  <2>1. fromAgent[a] \in Seq(FromAgentFrames \cup ConnectFrames) /\ fromAgent[a] # <<>>
    BY DEF RelayTakesAgentFrame, TypesInv, TunnelTypeOK
  <2>2. Head(fromAgent[a]) \in Range(fromAgent[a])
    BY <2>1 DEF Range
  <2>. QED
    BY <2>2, TakenFrames DEF RelayTakesAgentFrame, TypesInv
<1>3. FramesTaken
  <2>1. \A b \in Agents : \/ fromAgent'[b] = fromAgent[b]
                          \/ fromAgent[b] # <<>> /\ fromAgent'[b] = Tail(fromAgent[b])
    BY DEF RelayTakesAgentFrame, TypesInv, TunnelTypeOK
  <2>2. \A b \in Agents : fromAgent[b] \in Seq(FromAgentFrames \cup ConnectFrames)
    BY DEF TypesInv, TunnelTypeOK
  <2>3. \A b \in Agents : Range(fromAgent'[b]) \subseteq Range(fromAgent[b])
    BY <2>1, <2>2, RangeOfTail
  <2>4. fromClient' = fromClient
    BY DEF RelayTakesAgentFrame, clientVars
  <2>. QED
    BY <2>3, <2>4 DEF FramesTaken
<1>4. endAgent' = endAgent /\ endClient' = endClient
  BY DEF RelayTakesAgentFrame, clientVars
<1>5. CASE f.type = "TCP_CONNECT" /\ HandleTcpConnect(a, f.req, f.port, f.target)
  <2>1. f \in ConnectFrames
    BY <1>2, <1>5 DEF FromAgentFrames
  <2>2. PICK c \in Conns, r \in Routes : f = ConnectFrame(c, r)
    BY <2>1 DEF ConnectFrames
  <2>3. f.req \in Conns /\ f.port \in Ports
    BY <2>2, TunnelAssumption DEF ConnectFrame
  <2>4. WsFall /\ wsAgent[a] # "none"
    BY <1>4, <1>5, WsUnchanged DEF HandleTcpConnect, peerVars
  <2>5. \/ RelayTells /\ \A d \in Conns : ~Drops(d)
        \/ \E k \in Clients : Started(f.req, f.port, k, a)
    BY <1>0, <1>5, <2>3, ConnectTells
  <2>. QED
    BY <1>1, <1>3, <2>4, <2>5 DEF RelayWorks, AllTold
<1>6. CASE f.type # "TCP_CONNECT" /\ HandleAgentFrame(a, f)
  <2>1. f \in FromAgentFrames
    BY <1>2, <1>6 DEF ConnectFrames, ConnectFrame
  <2>2. PICK e \in Conns : Joinable(e, a, f.id) /\ (f.type \in EndTypes => app[e] = "closed")
    BY <1>2, <1>6 DEF ServedInv, AppsInv, AgentFramesJoined
  <2>3. WsFall
    <3>1. wsClient' = wsClient /\ wsAgent' = wsAgent
      BY <1>6 DEF HandleAgentFrame, AgentStreamMissing, AgentFrameIgnored, AgentStreamFrame,
             RelayInboundData, AbortTcpStream, CloseTcpStream, RelaySocketError, peerVars, relayVars
    <3>. QED
      BY <1>4, <3>1, WsUnchanged
  <2>4. /\ RelayTells
        /\ \A d \in Conns : Drops(d) =>
              ToldClient(d) /\ (ToldAgent(d) \/ (st[d].id = f.id /\ f.type \in EndTypes))
    BY <1>0, <1>6, <2>1, <2>2, AgentFrameTells
  <2>5. \A d \in Conns : st[d].id = f.id => d = e
    <3>1. f.id # 0
      BY <2>1, IdsPositive DEF FromAgentFrames
    <3>. QED
      BY <2>2, <3>1 DEF Joinable, EndsInv, IdsOnce, Numbered
  <2>6. AllTold
    BY <2>2, <2>4, <2>5 DEF AllTold
  <2>. QED
    BY <1>1, <1>3, <2>3, <2>4, <2>6 DEF RelayWorks
<1>. QED
  BY <1>2, <1>5, <1>6

LEMMA ClientFrameServed ==
  ASSUME TypesInv, EndsInv, ServedInv, NEW k \in Clients, RelayTakesClientFrame(k)
  PROVE  RelayWorks
<1>0. IInv /\ TypeOK
  BY DEF TypesInv, IInv
<1>1. PICK f : f = Head(fromClient[k])
  OBVIOUS
<1>2. /\ \A j \in Clients : fromClient[j] \in Seq(FromClientFrames)
      /\ fromClient[k] # <<>> /\ HandleClientFrame(k, f)
      /\ \A j \in Clients : fromClient'[j] = IF j = k THEN Tail(fromClient[j]) ELSE fromClient[j]
  BY <1>1 DEF RelayTakesClientFrame, TypesInv, TunnelTypeOK
<1>3. Range(fromClient[k]) = {f} \cup Range(Tail(fromClient[k]))
  BY <1>1, <1>2, RangeOfHead
<1>4. f \in FromClientFrames /\ f.type # "RES_ABORT"
  <2>1. f \in FromClientFrames
    BY <1>1, <1>2, TakenFrames DEF TypesInv
  <2>. QED
    BY <1>3, <2>1 DEF ServedInv, ClientsInv, ClientFramesGiven
<1>5. PeersKept
  <2>1. UNCHANGED <<pending, entries, app, clientStreams, local>>
    BY DEF RelayTakesClientFrame, agentVars
  <2>2. \A j \in Clients : Range(fromClient'[j]) \subseteq Range(fromClient[j])
    BY <1>2, <1>3
  <2>. QED
    BY <2>1, <2>2 DEF PeersKept
<1>6. WsFall
  <2>1. endAgent' = endAgent /\ endClient' = endClient
    BY DEF RelayTakesClientFrame, agentVars
  <2>2. wsClient' = wsClient /\ wsAgent' = wsAgent
    BY <1>2, <1>4 DEF HandleClientFrame, TcpOpenAck, TcpDataFromClient, TcpCloseFromClient,
           TcpAbortFromClient, peerVars, relayVars
  <2>. QED
    BY <2>1, <2>2, WsUnchanged
<1>7. \A a \in Agents : Range(fromAgent'[a]) \subseteq Range(fromAgent[a])
  BY DEF RelayTakesClientFrame, agentVars
<1>8. ASSUME \A j \in Clients, i \in StreamIds :
                Ending(fromClient[j], i) /\ ~Ending(fromClient'[j], i) =>
                   (j = k /\ f.type \in EndTypes /\ f.id = i => ~Held(j, i)')
      PROVE  FramesTaken
  <2> SUFFICES ASSUME NEW j \in Clients, NEW i \in StreamIds, Ending(fromClient[j], i),
                      ~Ending(fromClient'[j], i)
               PROVE  ~Held(j, i)'
    BY <1>7 DEF FramesTaken
  <2>1. j = k
    BY <1>2 DEF Ending
  <2>2. PICK g \in Range(fromClient[k]) : g.type \in EndTypes /\ g.id = i
    BY <2>1 DEF Ending
  <2>3. g = f
    BY <1>2, <1>3, <2>1, <2>2 DEF Ending
  <2>. QED
    BY <1>8, <2>1, <2>2, <2>3
<1>9. ASSUME RelayTells,
             \A d \in Conns : Drops(d) =>
                /\ ToldAgent(d)
                /\ st[d].client = k /\ st[d].id = f.id /\ f.type \in EndTypes,
             f.type \in EndTypes => \A d \in Conns :
                Live(d) /\ st[d].id = f.id /\ st[d].client = k => ~Live(d)'
      PROVE  RelayWorks
  <2>1. ASSUME f.type \in EndTypes, Held(k, f.id)' PROVE FALSE
    <3>1. PICK d \in Conns : Live(d)' /\ st'[d].id = f.id /\ st'[d].client = k
      BY <2>1 DEF Held
    <3>2. st[d].id = f.id /\ st[d].client = k /\ Live(d)
      BY <1>9, <3>1 DEF RelayTells, RelayQuiet, StreamsKept, SameStream
    <3>. QED
      BY <1>9, <2>1, <3>1, <3>2
  <2>2. FramesTaken
    BY <1>8, <2>1
  <2>3. AllTold
    <3>1. ASSUME NEW d \in Conns, Drops(d)
          PROVE  Ending(fromClient[st[d].client], st[d].id)
      BY <1>3, <1>9, <3>1 DEF Ending
    <3>. QED
      BY <1>9, <3>1 DEF AllTold
  <2>. QED
    BY <1>5, <1>6, <1>9, <2>2, <2>3 DEF RelayWorks
<1>10. ASSUME NEW c \in Conns, Confirms(c), f.type = "TCP_OPEN_ACK"
       PROVE  RelayWorks
  <2>1. FramesTaken
    BY <1>8, <1>10 DEF EndTypes
  <2>. QED
    BY <1>5, <1>6, <1>10, <2>1 DEF RelayWorks
<1>. QED
  BY <1>0, <1>2, <1>4, <1>9, <1>10, ClientFrameTells

\* The relay's other steps, upgrades apart.
LEMMA ClosingServed ==
  ASSUME TypesInv, \/ \E a \in Agents : RelayClosesAgent(a)
                   \/ \E k \in Clients : RelayClosesClient(k)
  PROVE  RelayWorks
<1>0. IInv /\ TypeOK
  BY DEF TypesInv, IInv
<1>1. /\ UNCHANGED <<pending, entries, app, clientStreams, local, endAgent, endClient>>
      /\ \/ \E a \in Agents : CleanupAgent(a)
         \/ \E k \in Clients : CleanupClient(k)
  BY DEF RelayClosesAgent, RelayClosesClient, agentVars, clientVars
<1>2. RelayTells /\ AllTold
  BY <1>0, <1>1, ClosingsTell DEF AllTold
<1>3. WsFall
  <2>1. \/ \E a \in Agents : wsClient' = wsClient /\ wsAgent' = [wsAgent EXCEPT ![a] = "closed"]
                            /\ wsAgent[a] \in {"open", "closing"}
        \/ \E k \in Clients : wsAgent' = wsAgent /\ wsClient' = [wsClient EXCEPT ![k] = "closed"]
                             /\ wsClient[k] \in {"open", "closing"}
    BY <1>1 DEF CleanupAgent, CleanupClient
  <2>. QED
    BY <1>0, <1>1, <2>1 DEF WsFall, TypeOK
<1>4. ASSUME NEW a \in Agents, RelayClosesAgent(a)
      PROVE  FramesTaken /\ PeersKept
  <2>1. fromClient' = fromClient
    BY <1>4 DEF RelayClosesAgent, clientVars
  <2>2. \A b \in Agents : fromAgent'[b] = fromAgent[b] \/ fromAgent'[b] = <<>>
    BY <1>4 DEF RelayClosesAgent, TypesInv, TunnelTypeOK
  <2>3. \A b \in Agents : Range(fromAgent'[b]) \subseteq Range(fromAgent[b])
    BY <2>2 DEF Range
  <2>. QED
    BY <1>1, <2>1, <2>3 DEF FramesTaken, PeersKept
<1>5. ASSUME NEW k \in Clients, RelayClosesClient(k)
      PROVE  FramesTaken /\ PeersKept
  <2>1. fromAgent' = fromAgent
    BY <1>5 DEF RelayClosesClient, agentVars
  <2>2. \A j \in Clients : fromClient'[j] = IF j = k THEN <<>> ELSE fromClient[j]
    BY <1>5 DEF RelayClosesClient, TypesInv, TunnelTypeOK
  <2>3. wsClient'[k] # "open"
    BY <1>0, <1>5 DEF RelayClosesClient, CleanupClient, TypeOK
  <2>4. \A j \in Clients : Range(fromClient'[j]) \subseteq Range(fromClient[j])
    BY <2>2 DEF Range
  <2>5. FramesTaken
    BY <2>1, <2>2, <2>3 DEF FramesTaken
  <2>. QED
    BY <1>1, <2>4, <2>5 DEF PeersKept
<1>. QED
  BY <1>2, <1>3, <1>4, <1>5 DEF RelayWorks

\* The peers do nothing, and no end of a WebSocket does.
LEMMA PeersRest ==
  ASSUME UNCHANGED <<agentVars, clientVars>>
  PROVE  PeersKept /\ FramesTaken /\ UNCHANGED <<endAgent, endClient>>
BY DEF PeersKept, FramesTaken, agentVars, clientVars

LEMMA OtherServed ==
  ASSUME TypesInv, \/ \E c \in Conns : DirectEvent(c) \/ RelayStreamIdle(c)
                   \/ RelayEndClosing \/ UNCHANGED vars
  PROVE  RelayWorks
<1>0. IInv /\ TypeOK
  BY DEF TypesInv, IInv
<1>1. UNCHANGED <<agentVars, clientVars>>
  BY DEF DirectEvent, RelayStreamIdle, RelayEndClosing, vars
<1>2. PeersKept /\ FramesTaken /\ UNCHANGED <<endAgent, endClient>>
  BY <1>1, PeersRest
<1>3. ASSUME NEW c \in Conns, DirectEvent(c) \/ RelayStreamIdle(c) PROVE RelayWorks
  <2>1. wsClient' = wsClient /\ wsAgent' = wsAgent
    BY <1>3 DEF DirectEvent, RelayStreamIdle, HandleDirectConnection, DirectData, DirectEnd, StreamIdle,
           RelayInboundData, AbortTcpStream, CloseTcpStream, RelaySocketError, peerVars
  <2>2. WsFall
    BY <1>2, <2>1, WsUnchanged
  <2>3. \/ RelayTells /\ \A d \in Conns : Drops(d) => ToldClient(d) /\ ToldAgent(d)
        \/ \E p \in Ports, k \in Clients : Started(c, p, k, NoAgent)
    BY <1>0, <1>3, DirectTells DEF DirectEvent, RelayStreamIdle
  <2>. QED
    BY <1>2, <2>2, <2>3 DEF RelayWorks, AllTold
<1>4. CASE RelayEndClosing \/ UNCHANGED vars
  <2>1. RelayQuiet
    BY <1>0, <1>4, RegistrationsKeep DEF RelayEndClosing, vars
  <2>2. st' = st /\ toClient' = toClient /\ toAgent' = toAgent
    BY <1>4 DEF RelayEndClosing, AgentClosing, ClientClosing, streamVars, vars, relayVars
  <2>3. \A d \in Conns : Live(d)' <=> Live(d)
    BY <2>2 DEF Live
  <2>4. RelayTells /\ AllTold
    BY <2>1, <2>2, <2>3, SilentTells DEF AllTold
  <2>5. WsFall
    <3>1. \/ wsClient' = wsClient /\ wsAgent' = wsAgent
          \/ \E a \in Agents : wsClient' = wsClient /\ wsAgent' = [wsAgent EXCEPT ![a] = "closing"]
                               /\ wsAgent[a] = "open"
          \/ \E k \in Clients : wsAgent' = wsAgent /\ wsClient' = [wsClient EXCEPT ![k] = "closing"]
                               /\ wsClient[k] = "open"
      BY <1>4 DEF RelayEndClosing, AgentClosing, ClientClosing, vars, relayVars
    <3>. QED
      BY <1>0, <1>2, <3>1 DEF WsFall, TypeOK
  <2>. QED
    BY <1>2, <2>4, <2>5 DEF RelayWorks
<1>. QED
  BY <1>3, <1>4

\* a WebSocket is used for the first time
Upgrades ==
    \/ \E a \in Agents : AgentOpens(a)
    \/ \E k \in Clients, t \in TunnelIds \cup {NoTunnelId} : ClientOpens(k, t)

LEMMA WhoseServed ==
  ASSUME TypesInv, EndsInv, ServedInv, [Next]_vars
  PROVE  \/ \E a \in Agents : AgentMoves(a)
         \/ \E k \in Clients : ClientMoves(k)
         \/ RelayWorks \/ Upgrades
<1>1. ASSUME NEW a \in Agents, AgentNext(a) PROVE AgentMoves(a) \/ RelayWorks \/ Upgrades
  BY <1>1, AgentFrameServed, ClosingServed DEF AgentNext, AgentMoves, Upgrades
<1>2. ASSUME NEW k \in Clients, ClientNext(k) PROVE ClientMoves(k) \/ RelayWorks \/ Upgrades
  BY <1>2, ClientFrameServed, ClosingServed DEF ClientNext, ClientMoves, Upgrades
<1>3. \/ \E a \in Agents : AgentNext(a)
      \/ \E k \in Clients : ClientNext(k)
      \/ \E c \in Conns : DirectEvent(c) \/ RelayStreamIdle(c)
      \/ RelayEndClosing \/ UNCHANGED vars
  BY DEF Next
<1>4. CASE \E a \in Agents : AgentNext(a)
  BY <1>1, <1>4
<1>5. CASE \E k \in Clients : ClientNext(k)
  BY <1>2, <1>5
<1>. QED
  BY <1>3, <1>4, <1>5, OtherServed

-----------------------------------------------------------------------------
(* At the start, and when a WebSocket opens.                               *)

LEMMA ServedInit == TunnelInit => ServedInv
<1> SUFFICES ASSUME TunnelInit PROVE ServedInv
  OBVIOUS
<1>1. /\ \A c \in Conns : st[c].id = 0 /\ ~Live(c) /\ app[c] = "none"
      /\ \A a \in Agents : toAgent[a] = <<>> /\ fromAgent[a] = <<>>
      /\ \A k \in Clients : /\ toClient[k] = <<>> /\ fromClient[k] = <<>>
                            /\ clientStreams[k] = {} /\ endClient[k] = "none"
      /\ \A i \in StreamIds : local[i].state = "none"
  BY DEF TunnelInit, RelayInit, Unused, Live
<1>2. PeersGone /\ SocketsHeld /\ JoinedKept
  BY <1>1 DEF PeersGone, SocketsHeld, JoinedKept
<1>3. ClientFramesGiven /\ OpensAhead /\ AgentFramesJoined /\ AcksAhead
  BY <1>1 DEF ClientFramesGiven, OpensAhead, AgentFramesJoined, AcksAhead, Range
<1>4. \A q, i : q = <<>> => ~Ending(q, i) /\ ~Opening(q, i)
  BY DEF Ending, Opening, Range
<1>5. ClientLinks
  BY <1>1, <1>4 DEF ClientLinks, Held
<1>6. EndsPast /\ AppsTold
  BY <1>1, <1>4 DEF EndsPast, AppsTold, Range
<1>. QED
  BY <1>2, <1>3, <1>5, <1>6 DEF ServedInv, ClientsInv, AppsInv

\* Nothing names a stream that has not been opened.
LEMMA NotGiven ==
  ASSUME TypesInv, EndsInv, ServedInv, NEW i \in StreamIds, ~Given(i)
  PROVE  \A k \in Clients :
            /\ ~Held(k, i) /\ i \notin clientStreams[k]
            /\ \A f \in Range(toClient[k]) : f.id # i
            /\ \A f \in Range(fromClient[k]) : f.id # i
<1>1. \A k \in Clients : ~Held(k, i)
  BY DEF Held, Given
<1>2. \A k \in Clients : i \notin clientStreams[k]
  BY DEF EndsInv, HeldDialled, Dialled, StreamOf, Given
<1>. QED
  BY <1>1, <1>2 DEF ServedInv, ClientsInv, ClientFramesGiven

\* What waits, or is joined, at an agent is of a stream.
LEMMA JoiningNamed ==
  ASSUME TypesInv, EndsInv, NEW c \in Conns
  PROVE  /\ app[c] = "joined" => st[c].id \in StreamIds
         /\ \A a \in Agents : AckFrame(st[c].id, c) \in Range(toAgent[a]) => st[c].id \in StreamIds
<1>1. app[c] = "joined" => st[c].id \in StreamIds
  BY DEF EndsInv, JoinedConfirmed, Joinable
<1>2. AckFrame(st[c].id, c).type = "TCP_CONNECT_ACK" /\ AckFrame(st[c].id, c).id = st[c].id
  BY DEF AckFrame
<1>3. TypeOK
  BY DEF TypesInv, TunnelTypeOK
<1>. QED
  BY <1>1, <1>2, <1>3, FramesNameStreams

LEMMA UpgradeServes ==
  ASSUME TypesInv, EndsInv, ServedInv, Upgrades
  PROVE  ServedInv'
<1> USE DEF ServedInv, ClientsInv, AppsInv
<1>0. TypeOK /\ TunnelTypeOK
  BY DEF TypesInv, IInv
<1>1. /\ UNCHANGED <<st, toClient, toAgent, pending, entries, app, fromAgent, fromClient,
                     clientStreams, local>>
      /\ \/ \E a \in Agents : /\ wsAgent[a] = "none"
                              /\ wsAgent' = [wsAgent EXCEPT ![a] = "open"]
                              /\ endAgent' = [endAgent EXCEPT ![a] = "open"]
                              /\ UNCHANGED <<wsClient, endClient>>
         \/ \E k \in Clients, s \in {"open", "closing"}, e \in {"open", "closed"} :
                              /\ wsClient[k] = "none"
                              /\ wsClient' = [wsClient EXCEPT ![k] = s]
                              /\ endClient' = [endClient EXCEPT ![k] = e]
                              /\ UNCHANGED <<wsAgent, endAgent>>
  BY DEF Upgrades, AgentOpens, ClientOpens, HandleConnection, AddClient, RefuseClient, agentVars,
         clientVars, streamVars
<1>2. \A c \in Conns : Live(c)' <=> Live(c)
  BY <1>1 DEF Live
<1>3. /\ \A k, i : Held(k, i)' <=> Held(k, i)
      /\ \A i : (Given(i)' <=> Given(i)) /\ (Past(i)' <=> Past(i))
  BY <1>1, <1>2 DEF Held, Given, Past
<1>4. SocketsHeld' /\ ClientFramesGiven' /\ OpensAhead'
  BY <1>1, <1>3 DEF SocketsHeld, ClientFramesGiven, OpensAhead
<1>5. AgentFramesJoined' /\ AcksAhead' /\ EndsPast'
  BY <1>1, <1>3 DEF AgentFramesJoined, AcksAhead, EndsPast, Joinable
<1>6. ASSUME NEW a \in Agents, wsAgent[a] = "none",
             wsAgent' = [wsAgent EXCEPT ![a] = "open"],
             endAgent' = [endAgent EXCEPT ![a] = "open"],
             UNCHANGED <<wsClient, endClient>>
      PROVE  PeersGone' /\ ClientLinks' /\ JoinedKept' /\ AppsTold'
  <2>1. \A b \in Agents : /\ wsAgent'[b] = IF b = a THEN "open" ELSE wsAgent[b]
                          /\ endAgent'[b] = IF b = a THEN "open" ELSE endAgent[b]
    BY <1>0, <1>6 DEF TypeOK, TunnelTypeOK
  <2>2. PeersGone'
    BY <1>1, <1>6, <2>1 DEF PeersGone, IsAgent
  <2>3. ClientLinks'
    BY <1>1, <1>3, <1>6 DEF ClientLinks, ClientUp
  <2>4. JoinedKept'
    <3>1. \A c \in Conns : app[c] = "joined" => st[c].agent \in Agents
      BY DEF EndsInv, JoinedConfirmed, Joinable
    <3>. QED
      BY <1>1, <2>1, <3>1 DEF JoinedKept
  <2>5. AppsTold'
    <3> SUFFICES ASSUME NEW c \in Conns, NEW b \in Agents, st[c].agent = b, AgentUp(b)', ~Live(c),
                        \/ app[c] = "joined"
                        \/ app[c] = "waiting" /\ AckFrame(st[c].id, c) \in Range(toAgent[b])
                 PROVE  Ending(toAgent[b], st[c].id)
      BY <1>1, <1>2 DEF AppsTold, AckFrame
    <3>1. st[c].id # 0
      BY JoiningNamed, IdsPositive
    <3>2. b # a
      BY <1>6, <3>1, RelayAssumption DEF PeersGone, IsAgent
    <3>3. AgentUp(b)
      BY <2>1, <3>2 DEF AgentUp
    <3>. QED
      BY <3>3 DEF AppsTold
  <2>. QED
    BY <2>2, <2>3, <2>4, <2>5
<1>7. ASSUME NEW k \in Clients, NEW s \in {"open", "closing"}, NEW e \in {"open", "closed"},
             wsClient[k] = "none", wsClient' = [wsClient EXCEPT ![k] = s],
             endClient' = [endClient EXCEPT ![k] = e], UNCHANGED <<wsAgent, endAgent>>
      PROVE  PeersGone' /\ ClientLinks' /\ JoinedKept' /\ AppsTold'
  <2>1. \A j \in Clients : /\ wsClient'[j] = IF j = k THEN s ELSE wsClient[j]
                           /\ endClient'[j] = IF j = k THEN e ELSE endClient[j]
    BY <1>0, <1>7 DEF TypeOK, TunnelTypeOK
  <2>2. clientStreams[k] = {}
    BY <1>7 DEF PeersGone
  <2>3. PeersGone'
    BY <1>1, <1>7, <2>1, <2>2 DEF PeersGone, IsAgent
  <2>4. \A c \in Conns : st[c].id # 0 => st[c].client # k
    BY <1>7 DEF PeersGone
  <2>5. \A i \in StreamIds : ~Held(k, i)
    BY <2>4, IdsPositive DEF Held
  <2>6. \A i \in StreamIds : ~Opening(toClient[k], i)
    BY <2>4, IdsPositive DEF EndsInv, OpensOnce, StreamOf, Opening, Range
  <2>7. \A j \in Clients : j # k => (ClientUp(j)' <=> ClientUp(j))
    BY <2>1 DEF ClientUp
  <2>8. ClientLinks'
    <3> SUFFICES ASSUME NEW j \in Clients, NEW i \in StreamIds
                 PROVE  /\ ClientUp(j)' /\ Held(j, i) =>
                              i \in clientStreams[j] \/ Opening(toClient[j], i) \/ Ending(fromClient[j], i)
                        /\ ClientUp(j)' /\ ~Held(j, i) /\ (i \in clientStreams[j] \/ Opening(toClient[j], i)) =>
                              Ending(toClient[j], i)
                        /\ Ending(toClient[j], i) => ~Held(j, i)
                        /\ Ending(fromClient[j], i) => i \notin clientStreams[j] /\ ~Opening(toClient[j], i)
      BY <1>1, <1>3 DEF ClientLinks, Ending, Opening
    <3>1. CASE j = k
      BY <2>2, <2>5, <2>6, <3>1
    <3>2. CASE j # k
      BY <2>7, <3>2 DEF ClientLinks
    <3>. QED
      BY <3>1, <3>2
  <2>9. JoinedKept' /\ AppsTold'
    BY <1>1, <1>2, <1>7 DEF JoinedKept, AppsTold, AgentUp
  <2>. QED
    BY <2>3, <2>8, <2>9
<1>. QED
  BY <1>1, <1>4, <1>5, <1>6, <1>7

-----------------------------------------------------------------------------
(* What the agent process keeps.                                           *)

\* A queue without its first frame.
LEMMA TailFrames ==
  ASSUME NEW T, NEW q \in Seq(T), q # <<>>
  PROVE  /\ \A i : ~(Head(q).type \in EndTypes /\ Head(q).id = i) => (Ending(q, i) <=> Ending(Tail(q), i))
         /\ \A i : ~(Head(q).type = "TCP_OPEN" /\ Head(q).id = i) => (Opening(q, i) <=> Opening(Tail(q), i))
         /\ \A i : (Ending(Tail(q), i) => Ending(q, i)) /\ (Opening(Tail(q), i) => Opening(q, i))
         /\ Range(Tail(q)) \subseteq Range(q) /\ Head(q) \in Range(q)
<1>1. Range(q) = {Head(q)} \cup Range(Tail(q))
  BY RangeOfHead
<1>. QED
  BY <1>1 DEF Ending, Opening

LEMMA TailPlaces ==
  ASSUME NEW T, NEW q \in Seq(T), q # <<>>, NEW m \in DOMAIN Tail(q)
  PROVE  m \in Nat \ {0} /\ m + 1 \in DOMAIN q /\ Tail(q)[m] = q[m + 1] /\ 1 \in DOMAIN q /\ Head(q) = q[1]
OBVIOUS

\* the relay, and all that has to do with clients, stay
ClientsRest == UNCHANGED <<st, toClient, wsClient, wsAgent, endClient, clientStreams, local, fromClient>>

LEMMA ClientsUntouched ==
  ASSUME ServedInv, ClientsRest
  PROVE  ClientsInv'
<1> USE DEF ServedInv, ClientsInv, ClientsRest
<1>1. \A c \in Conns : Live(c)' <=> Live(c)
  BY DEF Live
<1>2. \A k, i : (Held(k, i)' <=> Held(k, i)) /\ (Given(i)' <=> Given(i))
  BY <1>1 DEF Held, Given
<1>3. PeersGone' /\ SocketsHeld'
  BY DEF PeersGone, SocketsHeld, IsAgent
<1>4. ClientFramesGiven' /\ OpensAhead'
  BY <1>2 DEF ClientFramesGiven, OpensAhead
<1>5. ClientLinks'
  BY <1>2 DEF ClientLinks, ClientUp
<1>. QED
  BY <1>3, <1>4, <1>5

LEMMA AgentLeavesClients ==
  ASSUME NEW a \in Agents, AgentMoves(a)
  PROVE  ClientsRest
BY DEF AgentMoves, AppConnects, AppEndsWaiting, AppEndsJoined, AppSendsData, AgentReceives,
       AgentEndCloses, ReceivedByAgent, relayVars, streamVars, peerVars, clientVars, ClientsRest

\* What an agent sends is added to its queue.
LEMMA SentByAgent ==
  ASSUME TypesInv, NEW a \in Agents, NEW g \in FromAgentFrames \cup ConnectFrames,
         fromAgent' = AgentSends(a, g), NEW b \in Agents, NEW f \in Range(fromAgent'[b])
  PROVE  f \in Range(fromAgent[b]) \/ (f = g /\ b = a)
<1>1. fromAgent[b] \in Seq(FromAgentFrames \cup ConnectFrames)
  BY DEF TypesInv, TunnelTypeOK
<1>2. fromAgent'[b] = fromAgent[b] \/ (b = a /\ fromAgent'[b] = Append(fromAgent[b], g))
  BY DEF AgentSends, TypesInv, TunnelTypeOK
<1>3. Range(Append(fromAgent[b], g)) = Range(fromAgent[b]) \cup {g}
  BY <1>1, RangeOfAppend
<1>. QED
  BY <1>2, <1>3

\* Of an agent's step, all but its table and its applications.
LEMMA AgentSideServed ==
  ASSUME TypesInv, EndsInv, ServedInv, st' = st, wsAgent' = wsAgent, JoinedKept', AgentFramesJoined',
         AppsTold', NEW a \in Agents,
         \/ toAgent' = toAgent
         \/ toAgent[a] # <<>> /\ toAgent' = [toAgent EXCEPT ![a] = Tail(@)]
  PROVE  AppsInv'
<1> USE DEF ServedInv, AppsInv
<1>1. toAgent \in [Agents -> Seq(ToAgentFrames)]
  BY DEF TypesInv, TunnelTypeOK, TypeOK
<1>2. \A b \in Agents : \/ toAgent'[b] = toAgent[b]
                        \/ b = a /\ toAgent[a] # <<>> /\ toAgent'[a] = Tail(toAgent[a])
  BY <1>1
<1>3. \A b \in Agents, i \in StreamIds : Ending(toAgent'[b], i) => Ending(toAgent[b], i)
  BY <1>1, <1>2, TailFrames
<1>4. \A i : Past(i)' <=> Past(i)
  BY DEF Past, Live
<1>5. EndsPast'
  BY <1>3, <1>4 DEF EndsPast
<1>6. AcksAhead'
  <2> SUFFICES ASSUME NEW b \in Agents, NEW m \in DOMAIN toAgent'[b], NEW n \in DOMAIN toAgent'[b],
                      toAgent'[b][m].type = "TCP_CONNECT_ACK", toAgent'[b][n].type \in EndTypes,
                      toAgent'[b][n].id = toAgent'[b][m].id
               PROVE  m < n
    BY DEF AcksAhead
  <2>1. CASE toAgent'[b] = toAgent[b]
    BY <2>1 DEF AcksAhead
  <2>2. CASE toAgent[b] # <<>> /\ toAgent'[b] = Tail(toAgent[b])
    <3>1. toAgent[b] \in Seq(ToAgentFrames)
      BY <1>1
    <3>2. /\ m \in Nat /\ m + 1 \in DOMAIN toAgent[b] /\ toAgent'[b][m] = toAgent[b][m + 1]
          /\ n \in Nat /\ n + 1 \in DOMAIN toAgent[b] /\ toAgent'[b][n] = toAgent[b][n + 1]
      BY <2>2, <3>1, TailPlaces
    <3>3. m + 1 < n + 1
      BY <3>2 DEF AcksAhead
    <3>. QED
      BY <3>2, <3>3
  <2>. QED
    BY <1>2, <2>1, <2>2
<1>. QED
  BY <1>5, <1>6

\* An application comes, or leaves before it is joined.
LEMMA WaitingServes ==
  ASSUME TypesInv, EndsInv, ServedInv, NEW a \in Agents,
         \/ \E c \in Conns, r \in Routes : AppConnects(a, c, r)
         \/ \E c \in Conns : AppEndsWaiting(a, c)
  PROVE  AppsInv'
<1> USE DEF ServedInv, AppsInv
<1>1. UNCHANGED <<st, wsAgent, toAgent, endAgent, entries>>
  BY DEF AppConnects, AppEndsWaiting, relayVars
<1>2. PICK c \in Conns :
         /\ \/ app[c] = "none" /\ st[c].phase = "unused" /\ app' = [app EXCEPT ![c] = "waiting"]
            \/ app[c] \in {"none", "waiting"} /\ app' = [app EXCEPT ![c] = "left"]
         /\ \/ fromAgent' = fromAgent
            \/ \E r \in Routes : fromAgent' = AgentSends(a, ConnectFrame(c, r))
  <2>1. ASSUME NEW c \in Conns, AppEndsWaiting(a, c) PROVE app[c] = "waiting"
    BY <2>1 DEF AppEndsWaiting, EndsInv, PendingWait
  <2>. QED
    BY <2>1, ZenonT(40) DEF AppConnects, AppEndsWaiting
<1>3. \A d \in Conns : d # c => app'[d] = app[d]
  BY <1>2 DEF TypesInv, TunnelTypeOK
<1>4. /\ app[c] \notin {"joined", "closed"} /\ app'[c] \in {"waiting", "left"}
      /\ app'[c] = "waiting" => st[c].phase = "unused"
  BY <1>2 DEF TypesInv, TunnelTypeOK
<1>5. JoinedKept'
  BY <1>1, <1>3, <1>4 DEF JoinedKept
<1>6. AgentFramesJoined'
  <2> SUFFICES ASSUME NEW b \in Agents, NEW f, f \in Range(fromAgent'[b]), f.type # "TCP_CONNECT"
               PROVE  \E d \in Conns : Joinable(d, b, f.id) /\ (f.type \in EndTypes => app'[d] = "closed")
    BY <1>1 DEF AgentFramesJoined, Joinable
  <2>1. f \in Range(fromAgent[b])
    <3>1. \A r \in Routes : ConnectFrame(c, r) \in FromAgentFrames \cup ConnectFrames
      BY DEF ConnectFrames
    <3>2. \A r \in Routes : ConnectFrame(c, r).type = "TCP_CONNECT"
      BY DEF ConnectFrame
    <3>. QED
      BY <1>2, <3>1, <3>2, SentByAgent
  <2>2. PICK d \in Conns : Joinable(d, b, f.id) /\ (f.type \in EndTypes => app[d] = "closed")
    BY <2>1 DEF AgentFramesJoined
  <2>. QED
    BY <1>3, <1>4, <2>2
<1>7. AppsTold'
  <2> SUFFICES ASSUME NEW d \in Conns, NEW b \in Agents, st[d].agent = b, AgentUp(b), ~Live(d),
                      \/ app'[d] = "joined"
                      \/ app'[d] = "waiting" /\ AckFrame(st[d].id, d) \in Range(toAgent[b])
               PROVE  Ending(toAgent[b], st[d].id)
    BY <1>1 DEF AppsTold, AckFrame, AgentUp, Live
  <2>1. CASE d = c
    <3>1. st[c].phase = "unused" /\ AckFrame(st[c].id, c) \in Range(toAgent[b])
      BY <1>4, <2>1
    <3>2. st[c].id = 0
      BY <3>1 DEF EndsInv, IdsOnce
    <3>. QED
      BY <3>1, <3>2, JoiningNamed, IdsPositive
  <2>2. CASE d # c
    BY <1>3, <2>2 DEF AppsTold
  <2>. QED
    BY <2>1, <2>2
<1>. QED
  BY <1>1, <1>5, <1>6, <1>7, AgentSideServed

\* A joined application ends, or speaks.
LEMMA JoinedServes ==
  ASSUME TypesInv, EndsInv, ServedInv, NEW a \in Agents, NEW i \in StreamIds,
         \/ \E type \in EndTypes : AppEndsJoined(a, i, type)
         \/ AppSendsData(a, i)
  PROVE  AppsInv'
<1> USE DEF ServedInv, AppsInv
<1>1. UNCHANGED <<st, wsAgent, toAgent, endAgent>> /\ entries[a][i] # NoConn
  BY DEF AppEndsJoined, AppSendsData, relayVars
<1>2. PICK c : c = entries[a][i]
  OBVIOUS
<1>3. c \in Conns /\ Joinable(c, a, i) /\ app[c] = "joined"
  BY <1>1, <1>2, AgentTables DEF EndsInv, EntriesJoin
<1>4. PICK type \in {"TCP_DATA"} \cup EndTypes :
         /\ fromAgent' = AgentSends(a, StreamFrame(type, i))
         /\ \/ type = "TCP_DATA" /\ UNCHANGED <<entries, app>>
            \/ /\ entries' = [entries EXCEPT ![a][i] = NoConn]
               /\ app' = [app EXCEPT ![c] = "closed"]
  BY <1>2 DEF AppEndsJoined, AppSendsData, DataFrame
<1>5. /\ \A d \in Conns : d # c => app'[d] = app[d]
      /\ app'[c] = "closed" \/ (UNCHANGED <<entries, app>> /\ type = "TCP_DATA")
  BY <1>3, <1>4 DEF TypesInv, TunnelTypeOK
<1>6. \A d \in Conns : app'[d] \in {"joined", "waiting"} => app[d] = app'[d]
  BY <1>3, <1>5
<1>7. JoinedKept'
  <2> SUFFICES ASSUME NEW d \in Conns, app'[d] = "joined"
               PROVE  endAgent[st[d].agent] = "open" /\ entries'[st[d].agent][st[d].id] = d
    BY <1>1 DEF JoinedKept
  <2>1. endAgent[st[d].agent] = "open" /\ entries[st[d].agent][st[d].id] = d
    BY <1>6 DEF JoinedKept
  <2>2. CASE UNCHANGED <<entries, app>>
    BY <2>1, <2>2
  <2>3. CASE app'[c] = "closed" /\ entries' = [entries EXCEPT ![a][i] = NoConn]
    <3>1. d # c
      BY <2>3
    <3>2. st[d].agent \in Agents /\ st[d].id \in StreamIds /\ ~(st[d].agent = a /\ st[d].id = i)
      BY <1>2, <1>6, <2>1, <3>1 DEF EndsInv, JoinedConfirmed, Joinable
    <3>. QED
      BY <2>1, <2>3, <3>2 DEF TypesInv, TunnelTypeOK
  <2>. QED
    BY <1>4, <1>5, <2>2, <2>3
<1>8. AgentFramesJoined'
  <2> SUFFICES ASSUME NEW b \in Agents, NEW f, f \in Range(fromAgent'[b]), f.type # "TCP_CONNECT"
               PROVE  \E d \in Conns : Joinable(d, b, f.id) /\ (f.type \in EndTypes => app'[d] = "closed")
    BY <1>1 DEF AgentFramesJoined, Joinable
  <2>1. StreamFrame(type, i) \in FromAgentFrames \cup ConnectFrames
        /\ StreamFrame(type, i).type = type /\ StreamFrame(type, i).id = i
    BY PeerFrames DEF StreamFrame
  <2>2. f \in Range(fromAgent[b]) \/ (f = StreamFrame(type, i) /\ b = a)
    BY <1>4, <2>1, SentByAgent
  <2>3. CASE f = StreamFrame(type, i) /\ b = a
    BY <1>3, <1>5, <2>1, <2>3 DEF EndTypes
  <2>4. CASE f \in Range(fromAgent[b])
    <3>1. PICK d \in Conns : Joinable(d, b, f.id) /\ (f.type \in EndTypes => app[d] = "closed")
      BY <2>4 DEF AgentFramesJoined
    <3>. QED
      BY <1>3, <1>5, <3>1
  <2>. QED
    BY <2>2, <2>3, <2>4
<1>9. AppsTold'
  <2>1. \A d \in Conns : AckFrame(st[d].id, d)' = AckFrame(st[d].id, d)
    BY <1>1 DEF AckFrame
  <2>. QED
    BY <1>1, <1>6, <2>1 DEF AppsTold, AgentUp, Live
<1>. QED
  BY <1>1, <1>7, <1>8, <1>9, AgentSideServed

\* The agent's end of the WebSocket closes.
LEMMA AllEndServes ==
  ASSUME TypesInv, EndsInv, ServedInv, NEW a \in Agents, AgentEndCloses(a)
  PROVE  AppsInv'
<1> USE DEF ServedInv, AppsInv
<1>1. UNCHANGED <<st, wsAgent, toAgent, fromAgent>>
  BY DEF AgentEndCloses, relayVars
<1>2. /\ \A b \in Agents : /\ endAgent'[b] = IF b = a THEN "closed" ELSE endAgent[b]
                           /\ b # a => entries'[b] = entries[b]
      /\ \A d \in Conns : /\ app'[d] \in {"joined", "waiting"} => app[d] = app'[d]
                          /\ app'[d] = "joined" => d \notin Range(entries[a]) \ {NoConn}
                          /\ app[d] = "closed" => app'[d] = "closed" \/ d \in pending[a]
  BY DEF AgentEndCloses, TypesInv, TunnelTypeOK
<1>3. JoinedKept'
  <2> SUFFICES ASSUME NEW d \in Conns, app'[d] = "joined"
               PROVE  endAgent'[st[d].agent] = "open" /\ entries'[st[d].agent][st[d].id] = d
    BY <1>1 DEF JoinedKept
  <2>1. endAgent[st[d].agent] = "open" /\ entries[st[d].agent][st[d].id] = d
    BY <1>2 DEF JoinedKept
  <2>2. st[d].agent \in Agents /\ st[d].id \in StreamIds
    BY <1>2 DEF EndsInv, JoinedConfirmed, Joinable
  <2>3. st[d].agent # a
    <3>1. \A i \in StreamIds : entries[a][i] \in Range(entries[a])
      BY DEF Range, TypesInv, TunnelTypeOK
    <3>. QED
      BY <1>2, <2>1, <2>2, <3>1, RelayAssumption
  <2>. QED
    BY <1>2, <2>1, <2>2, <2>3
<1>4. AgentFramesJoined'
  <2>1. \A d \in Conns : app[d] = "closed" => app'[d] = "closed"
    BY <1>2 DEF EndsInv, PendingWait
  <2>. QED
    BY <1>1, <2>1 DEF AgentFramesJoined, Joinable
<1>5. AppsTold'
  <2>1. \A b \in Agents : AgentUp(b)' => AgentUp(b)
    BY <1>1, <1>2 DEF AgentUp
  <2>2. \A d \in Conns : AckFrame(st[d].id, d)' = AckFrame(st[d].id, d)
    BY <1>1 DEF AckFrame
  <2>. QED
    BY <1>1, <1>2, <2>1, <2>2 DEF AppsTold, Live
<1>. QED
  BY <1>1, <1>3, <1>4, <1>5, AgentSideServed

\* A frame of the relay is taken.
LEMMA AgentReceivesServes ==
  ASSUME TypesInv, EndsInv, ServedInv, NEW a \in Agents, AgentReceives(a)
  PROVE  AppsInv'
<1> USE DEF ServedInv, AppsInv
<1>1. /\ UNCHANGED <<st, wsAgent, endAgent, fromAgent>> /\ endAgent[a] = "open"
      /\ toAgent[a] # <<>> /\ toAgent' = [toAgent EXCEPT ![a] = Tail(@)]
  BY DEF AgentReceives, ReceivedByAgent, streamVars, peerVars
<1>2. PICK f : f = Head(toAgent[a])
  OBVIOUS
<1>3. /\ toAgent \in [Agents -> Seq(ToAgentFrames)] /\ toAgent[a] \in Seq(ToAgentFrames)
      /\ f \in ToAgentFrames
  BY <1>1, <1>2 DEF TypesInv, TunnelTypeOK, TypeOK
<1>4. /\ f \in Range(toAgent[a]) /\ 1 \in DOMAIN toAgent[a] /\ toAgent[a][1] = f
      /\ \A b \in Agents : toAgent'[b] = IF b = a THEN Tail(toAgent[a]) ELSE toAgent[b]
  BY <1>1, <1>2, <1>3, TailFrames
<1>5. \/ f.type = "TCP_CONNECT_ACK" /\ ConnectAck(a, f)
      \/ f.type = "TCP_ABORT" /\ f.id = 0 /\ ConnectReject(a, f)
      \/ f.type \in EndTypes /\ f.id # 0 /\ StreamEnded(a, f.id)
      \/ f.type = "TCP_DATA" /\ UNCHANGED <<pending, entries, app>>
  BY <1>2 DEF AgentReceives
\* what waits, or is joined, and not ended by f, is told by another frame
<1>6. ASSUME NEW d \in Conns, NEW b \in Agents, AckFrame(st[d].id, d) \in Range(toAgent'[b])
      PROVE  AckFrame(st[d].id, d) \in Range(toAgent[b])
             /\ (b = a => ~(f.type \in EndTypes /\ f.id = st[d].id))
  <2>1. CASE b # a
    BY <1>4, <1>6, <2>1
  <2>2. CASE b = a
    <3>1. PICK m \in DOMAIN Tail(toAgent[a]) : AckFrame(st[d].id, d) = Tail(toAgent[a])[m]
      BY <1>4, <1>6, <2>2 DEF Range
    <3>2. m \in Nat \ {0} /\ m + 1 \in DOMAIN toAgent[a] /\ AckFrame(st[d].id, d) = toAgent[a][m + 1]
      BY <1>1, <1>3, <3>1, TailPlaces
    <3>3. AckFrame(st[d].id, d) \in Range(toAgent[a])
      BY <3>2 DEF Range
    <3>4. AckFrame(st[d].id, d).type = "TCP_CONNECT_ACK" /\ AckFrame(st[d].id, d).id = st[d].id
      BY DEF AckFrame
    <3>5. ~(f.type \in EndTypes /\ f.id = st[d].id)
      <4> SUFFICES ASSUME f.type \in EndTypes, f.id = st[d].id PROVE FALSE
        OBVIOUS
      <4>1. m + 1 < 1
        BY <1>4, <3>2, <3>4 DEF AcksAhead
      <4>. QED
        BY <3>2, <4>1
    <3>. QED
      BY <2>2, <3>3, <3>5
  <2>. QED
    BY <2>1, <2>2
<1>7. ASSUME NEW d \in Conns, NEW b \in Agents, Ending(toAgent[b], st[d].id),
             ~(b = a /\ f.type \in EndTypes /\ f.id = st[d].id)
      PROVE  Ending(toAgent'[b], st[d].id)
  <2>1. CASE b # a
    BY <1>4, <1>7, <2>1
  <2>2. CASE b = a
    BY <1>1, <1>2, <1>3, <1>4, <1>7, <2>2, TailFrames
  <2>. QED
    BY <2>1, <2>2
<1>8. \/ /\ ~(f.type \in EndTypes /\ f.id \in StreamIds /\ entries[a][f.id] # NoConn)
         /\ entries' = entries
         /\ \/ app' = app
            \/ \E c \in Conns : app' = [app EXCEPT ![c] = "left"] /\ app[c] = "waiting"
      \/ \E c \in Conns : /\ entries[a][f.id] = c /\ app[c] = "joined"
                          /\ f.id \in StreamIds /\ Joinable(c, a, f.id) /\ f.type \in EndTypes
                          /\ entries' = [entries EXCEPT ![a][f.id] = NoConn]
                          /\ app' = [app EXCEPT ![c] = "closed"]
      \/ \E c \in Conns : /\ f = AckFrame(st[c].id, c) /\ f.type = "TCP_CONNECT_ACK" /\ app[c] = "waiting"
                          /\ f.id \in StreamIds /\ Joinable(c, a, f.id)
                          /\ entries' = [entries EXCEPT ![a][f.id] = c]
                          /\ app' = [app EXCEPT ![c] = "joined"]
  <2>1. CASE f.type = "TCP_CONNECT_ACK" /\ ConnectAck(a, f)
    <3>1. f.id \in StreamIds /\ f.req \in Conns /\ Joinable(f.req, a, f.id)
      BY <1>3, <1>4, <2>1, AgentFrameKinds DEF EndsInv, AcksJoin
    <3>2. f = AckFrame(st[f.req].id, f.req)
      <4>1. f = AckFrame(f.id, f.req)
        BY <1>3, <2>1 DEF ToAgentFrames, DownFrames, EndTypes, AckFrame
      <4>. QED
        BY <3>1, <4>1 DEF Joinable
    <3>3. CASE f.req \in pending[a]
      <4>1. app[f.req] = "waiting"
        BY <3>3 DEF EndsInv, PendingWait
      <4>. QED
        BY <2>1, <3>1, <3>2, <3>3, <4>1 DEF ConnectAck
    <3>4. CASE f.req \notin pending[a]
      BY <2>1, <3>4 DEF ConnectAck, EndTypes
    <3>. QED
      BY <3>3, <3>4
  <2>2. CASE f.type = "TCP_ABORT" /\ f.id = 0 /\ ConnectReject(a, f)
    <3>1. CASE f.req \in pending[a]
      <4>1. app[f.req] = "waiting" /\ f.req \in Conns
        BY <1>3, <2>2, <3>1, AgentFrameKinds DEF EndsInv, PendingWait
      <4>. QED
        BY <2>2, <3>1, <4>1, IdsPositive DEF ConnectReject
    <3>2. CASE f.req \notin pending[a]
      BY <2>2, <3>2, IdsPositive DEF ConnectReject
    <3>. QED
      BY <3>1, <3>2
  <2>3. CASE f.type \in EndTypes /\ f.id # 0 /\ StreamEnded(a, f.id)
    <3>1. f.id \in StreamIds
      BY <1>3, <2>3, AgentFrameKinds
    <3>2. CASE entries[a][f.id] # NoConn
      <4>1. entries[a][f.id] \in Conns /\ Joinable(entries[a][f.id], a, f.id)
            /\ app[entries[a][f.id]] = "joined"
        BY <3>1, <3>2, AgentTables DEF EndsInv, EntriesJoin
      <4>. QED
        BY <2>3, <3>1, <3>2, <4>1 DEF StreamEnded
    <3>3. CASE entries[a][f.id] = NoConn
      BY <2>3, <3>3 DEF StreamEnded
    <3>. QED
      BY <3>2, <3>3
  <2>4. CASE f.type = "TCP_DATA" /\ UNCHANGED <<pending, entries, app>>
    BY <2>4 DEF EndTypes
  <2>. QED
    BY <1>5, <2>1, <2>2, <2>3, <2>4
<1>9. /\ \A d, e \in Conns : st[d].id = st[e].id /\ st[d].id # 0 => d = e
      /\ \A d \in Conns : app[d] = "joined" =>
            st[d].agent \in Agents /\ st[d].id \in StreamIds
            /\ endAgent[st[d].agent] = "open" /\ entries[st[d].agent][st[d].id] = d
  BY DEF EndsInv, IdsOnce, Numbered, JoinedConfirmed, Joinable, JoinedKept
<1>10. ASSUME \A d \in Conns : app[d] = "closed" => app'[d] = "closed" PROVE AgentFramesJoined'
  BY <1>1, <1>10 DEF AgentFramesJoined, Joinable
\* an application whose stream has gone is told, unless f is what tells it
<1>11. ASSUME \A d \in Conns : app'[d] = "waiting" => app[d] = "waiting",
              \A d \in Conns : app'[d] = "joined" =>
                 \/ /\ app[d] = "joined"
                    /\ st[d].agent = a => ~(f.type \in EndTypes /\ f.id = st[d].id)
                 \/ app[d] = "waiting" /\ f = AckFrame(st[d].id, d) /\ st[d].agent = a
       PROVE  AppsTold'
  <2> SUFFICES ASSUME NEW d \in Conns, NEW b \in Agents, st[d].agent = b, AgentUp(b), ~Live(d),
                      \/ app'[d] = "joined"
                      \/ app'[d] = "waiting" /\ AckFrame(st[d].id, d) \in Range(toAgent'[b])
               PROVE  Ending(toAgent'[b], st[d].id)
    BY <1>1 DEF AppsTold, AckFrame, AgentUp, Live
  <2>1. ~(b = a /\ f.type \in EndTypes /\ f.id = st[d].id)
    <3>1. CASE app'[d] = "joined" /\ f = AckFrame(st[d].id, d)
      BY <3>1 DEF AckFrame, EndTypes
    <3>2. CASE app'[d] = "joined" /\ ~(f = AckFrame(st[d].id, d))
      BY <1>11, <3>2
    <3>3. CASE app'[d] = "waiting" /\ AckFrame(st[d].id, d) \in Range(toAgent'[b])
      BY <1>6, <3>3
    <3>. QED
      BY <3>1, <3>2, <3>3
  <2>2. \/ app[d] = "joined"
        \/ app[d] = "waiting" /\ AckFrame(st[d].id, d) \in Range(toAgent[b])
    BY <1>4, <1>6, <1>11
  <2>3. Ending(toAgent[b], st[d].id)
    BY <2>2 DEF AppsTold
  <2>. QED
    BY <1>7, <2>1, <2>3
<1>12. CASE /\ ~(f.type \in EndTypes /\ f.id \in StreamIds /\ entries[a][f.id] # NoConn)
            /\ entries' = entries
            /\ \/ app' = app
               \/ \E c \in Conns : app' = [app EXCEPT ![c] = "left"] /\ app[c] = "waiting"
  <2>1. \A d \in Conns : /\ app'[d] \in {"joined", "waiting"} => app[d] = app'[d]
                         /\ app[d] = "closed" => app'[d] = "closed"
    BY <1>12 DEF TypesInv, TunnelTypeOK
  <2>2. JoinedKept'
    BY <1>1, <1>9, <1>12, <2>1 DEF JoinedKept
  <2>3. AppsTold'
    BY <1>9, <1>11, <1>12, <2>1, RelayAssumption
  <2>. QED
    BY <1>1, <1>10, <2>1, <2>2, <2>3, AgentSideServed
<1>13. ASSUME NEW c \in Conns, entries[a][f.id] = c, app[c] = "joined", f.id \in StreamIds,
              Joinable(c, a, f.id), f.type \in EndTypes,
              entries' = [entries EXCEPT ![a][f.id] = NoConn], app' = [app EXCEPT ![c] = "closed"]
       PROVE  AppsInv'
  <2>1. app'[c] = "closed" /\ \A d \in Conns : d # c => app'[d] = app[d]
    BY <1>13 DEF TypesInv, TunnelTypeOK
  <2>2. \A b \in Agents, i \in StreamIds : entries'[b][i] = IF b = a /\ i = f.id THEN NoConn ELSE entries[b][i]
    BY <1>13 DEF TypesInv, TunnelTypeOK
  <2>3. \A d \in Conns : d # c /\ st[d].agent = a => f.id # st[d].id
    <3>1. st[c].id = f.id /\ f.id # 0
      BY <1>13, IdsPositive DEF Joinable
    <3>. QED
      BY <1>9, <3>1
  <2>4. JoinedKept'
    <3> SUFFICES ASSUME NEW d \in Conns, app'[d] = "joined"
                 PROVE  endAgent[st[d].agent] = "open" /\ entries'[st[d].agent][st[d].id] = d
      BY <1>1 DEF JoinedKept
    <3>1. d # c /\ app[d] = "joined"
      BY <2>1
    <3>. QED
      BY <1>9, <2>2, <2>3, <3>1
  <2>5. AppsTold'
    BY <1>11, <2>1, <2>3
  <2>. QED
    BY <1>1, <1>10, <2>1, <2>4, <2>5, AgentSideServed
<1>14. ASSUME NEW c \in Conns, f = AckFrame(st[c].id, c), f.type = "TCP_CONNECT_ACK",
              app[c] = "waiting", f.id \in StreamIds, Joinable(c, a, f.id),
              entries' = [entries EXCEPT ![a][f.id] = c], app' = [app EXCEPT ![c] = "joined"]
       PROVE  AppsInv'
  <2>1. app'[c] = "joined" /\ \A d \in Conns : d # c => app'[d] = app[d]
    BY <1>14 DEF TypesInv, TunnelTypeOK
  <2>2. \A b \in Agents, i \in StreamIds : entries'[b][i] = IF b = a /\ i = f.id THEN c ELSE entries[b][i]
    BY <1>14 DEF TypesInv, TunnelTypeOK
  <2>3. \A d \in Conns : d # c /\ st[d].agent = a => f.id # st[d].id
    <3>1. st[c].id = f.id /\ f.id # 0
      BY <1>14, IdsPositive DEF Joinable
    <3>. QED
      BY <1>9, <3>1
  <2>4. JoinedKept'
    <3> SUFFICES ASSUME NEW d \in Conns, app'[d] = "joined"
                 PROVE  endAgent[st[d].agent] = "open" /\ entries'[st[d].agent][st[d].id] = d
      BY <1>1 DEF JoinedKept
    <3>1. CASE d = c
      BY <1>1, <1>14, <2>2, <3>1 DEF Joinable
    <3>2. CASE d # c
      BY <1>9, <2>1, <2>2, <2>3, <3>2
    <3>. QED
      BY <3>1, <3>2
  <2>5. AppsTold'
    BY <1>11, <1>14, <2>1, <2>3 DEF Joinable
  <2>. QED
    BY <1>1, <1>10, <1>14, <2>1, <2>4, <2>5, AgentSideServed
<1>. QED
  BY <1>8, <1>12, <1>13, <1>14

LEMMA AgentServes ==
  ASSUME TypesInv, EndsInv, ServedInv, NEW a \in Agents, AgentMoves(a)
  PROVE  ServedInv'
<1>1. ClientsInv'
  BY AgentLeavesClients, ClientsUntouched
<1>2. AppsInv'
  BY WaitingServes, JoinedServes, AgentReceivesServes, AllEndServes DEF AgentMoves
<1>. QED
  BY <1>1, <1>2 DEF ServedInv

-----------------------------------------------------------------------------
(* What the client process keeps.                                          *)

LEMMA ClientLeavesApps ==
  ASSUME ServedInv, NEW k \in Clients, ClientMoves(k)
  PROVE  AppsInv' /\ UNCHANGED <<st, wsClient, wsAgent>>
<1> USE DEF ServedInv, AppsInv
<1>1. UNCHANGED <<st, wsClient, wsAgent, toAgent, endAgent, entries, app, fromAgent>>
  BY DEF ClientMoves, ClientReceives, ReceivedByClient, LocalConnects, LocalEnds, LocalSendsData,
         OrphanEnds, ClientStreamIdle, ClientEndCloses, relayVars, streamVars, peerVars, agentVars
<1>2. \A c \in Conns : Live(c)' <=> Live(c)
  BY <1>1 DEF Live
<1>3. \A i : Past(i)' <=> Past(i)
  BY <1>1, <1>2 DEF Past
<1>4. \A c \in Conns : AckFrame(st[c].id, c)' = AckFrame(st[c].id, c)
  BY <1>1 DEF AckFrame
<1>5. JoinedKept' /\ AgentFramesJoined' /\ AcksAhead'
  BY <1>1 DEF JoinedKept, AgentFramesJoined, AcksAhead, Joinable
<1>6. EndsPast' /\ AppsTold'
  BY <1>1, <1>2, <1>3, <1>4 DEF EndsPast, AppsTold, AgentUp
<1>. QED
  BY <1>1, <1>5, <1>6

\* A client's step leaves the relay's streams, and what has been opened.
LEMMA StreamsRest ==
  ASSUME st' = st
  PROVE  /\ \A k, i : Held(k, i)' <=> Held(k, i)
         /\ \A i : Given(i)' <=> Given(i)
BY DEF Held, Given, Live

\* Of a client's step, all but its tables and what it says.
LEMMA ClientSideServed ==
  ASSUME TypesInv, ServedInv, UNCHANGED <<st, wsClient, wsAgent>>, QueuesShrink,
         \A j \in Clients : /\ endClient'[j] # "open" => clientStreams'[j] = {}
                            /\ endClient'[j] = endClient[j] \/ endClient[j] = "open",
         SocketsHeld', ClientLinks',
         \A j \in Clients : \A f \in Range(fromClient'[j]) :
            f \in Range(fromClient[j]) \/ (Given(f.id) /\ f.type # "RES_ABORT")
  PROVE  ClientsInv'
<1> USE DEF ServedInv, ClientsInv
<1>1. TypeOK /\ toClient \in [Clients -> Seq(ToClientFrames)]
  BY DEF TypesInv, TunnelTypeOK, TypeOK
<1>2. PeersGone'
  BY DEF PeersGone, IsAgent
<1>3. \A j \in Clients : Range(toClient'[j]) \subseteq Range(toClient[j])
  BY <1>1, RangeOfTail DEF QueuesShrink
<1>4. ClientFramesGiven'
  BY <1>3, StreamsRest DEF ClientFramesGiven
<1>5. OpensAhead'
  <2> SUFFICES ASSUME NEW j \in Clients, NEW m \in DOMAIN toClient'[j], NEW n \in DOMAIN toClient'[j],
                      toClient'[j][m].type = "TCP_OPEN", toClient'[j][n].id = toClient'[j][m].id
               PROVE  m <= n
    BY DEF OpensAhead
  <2>1. CASE \A l \in DOMAIN toClient'[j] : l \in DOMAIN toClient[j] /\ toClient'[j][l] = toClient[j][l]
    BY <2>1 DEF OpensAhead
  <2>2. CASE \A l \in DOMAIN toClient'[j] :
                l \in Nat /\ l + 1 \in DOMAIN toClient[j] /\ toClient'[j][l] = toClient[j][l + 1]
    <3>1. m + 1 <= n + 1 /\ m \in Nat /\ n \in Nat
      BY <2>2 DEF OpensAhead
    <3>. QED
      BY <3>1
  <2>. QED
    BY <1>1, <2>1, <2>2, ShrunkQueue
<1>. QED
  BY <1>2, <1>4, <1>5

\* What a client says, if its WebSocket works.
LEMMA ClientSays ==
  ASSUME TypesInv, NEW k \in Clients, NEW g \in FromClientFrames, fromClient' = ClientSends(k, g)
  PROVE  /\ \A j \in Clients : \A i :
               /\ Ending(fromClient[j], i) => Ending(fromClient'[j], i)
               /\ Ending(fromClient'[j], i) =>
                     Ending(fromClient[j], i) \/ (j = k /\ g.type \in EndTypes /\ g.id = i)
         /\ \A j \in Clients : \A f \in Range(fromClient'[j]) : f \in Range(fromClient[j]) \/ f = g
         /\ ClientUp(k) /\ g.type \in EndTypes => Ending(fromClient'[k], g.id)
<1>1. \A j \in Clients : fromClient[j] \in Seq(FromClientFrames)
  BY DEF TypesInv, TunnelTypeOK
<1>2. \A j \in Clients : \/ fromClient'[j] = fromClient[j]
                         \/ j = k /\ fromClient'[j] = Append(fromClient[j], g)
  BY DEF ClientSends, TypesInv, TunnelTypeOK
<1>3. ClientUp(k) => fromClient'[k] = Append(fromClient[k], g)
  BY DEF ClientSends, ClientUp, TypesInv, TunnelTypeOK
<1>4. \A j \in Clients : Range(Append(fromClient[j], g)) = Range(fromClient[j]) \cup {g}
  BY <1>1, RangeOfAppend
<1>5. \A j \in Clients : /\ Range(fromClient[j]) \subseteq Range(fromClient'[j])
                         /\ \A f \in Range(fromClient'[j]) :
                               f \in Range(fromClient[j]) \/ (f = g /\ j = k)
  BY <1>2, <1>4
<1>6. ClientUp(k) => g \in Range(fromClient'[k])
  BY <1>3, <1>4
<1>. QED
  BY <1>5, <1>6 DEF Ending

\* A stream a client holds has been opened, and its TCP_OPEN has been taken.
LEMMA HeldOpened ==
  ASSUME TypesInv, EndsInv, NEW k \in Clients, NEW i \in clientStreams[k]
  PROVE  i \in StreamIds /\ Given(i) /\ \A j \in Clients : ~Opening(toClient[j], i)
<1>1. i \in StreamIds /\ local[i].state # "none"
  BY DEF TypesInv, TunnelTypeOK, EndsInv, HeldDialled
<1>2. Given(i)
  BY <1>1 DEF EndsInv, Dialled, StreamOf, Given
<1>3. \A j \in Clients : ~Opening(toClient[j], i)
  BY <1>1 DEF EndsInv, OpensOnce, Opening, Range
<1>. QED
  BY <1>1, <1>2, <1>3

\* The local socket connects, or speaks.
LEMMA LocalSaysServes ==
  ASSUME TypesInv, EndsInv, ServedInv, NEW k \in Clients, NEW i \in StreamIds,
         UNCHANGED <<st, wsClient, wsAgent>>, LocalConnects(k, i) \/ LocalSendsData(k, i)
  PROVE  ClientsInv'
<1> USE DEF ServedInv, ClientsInv
<1>1. UNCHANGED <<toClient, endClient, clientStreams>>
  BY DEF LocalConnects, LocalSendsData, relayVars
<1>2. PICK g \in FromClientFrames :
         g.type \notin EndTypes \cup {"RES_ABORT"} /\ g.id = i /\ fromClient' = ClientSends(k, g)
  <2>1. /\ StreamFrame("TCP_OPEN_ACK", i) \in FromClientFrames
        /\ StreamFrame("TCP_DATA", i) \in FromClientFrames
    BY PeerFrames
  <2>2. \A t \in {"TCP_OPEN_ACK", "TCP_DATA"} :
           StreamFrame(t, i).type \notin EndTypes \cup {"RES_ABORT"} /\ StreamFrame(t, i).id = i
    BY DEF StreamFrame, EndTypes
  <2>. QED
    BY <2>1, <2>2 DEF LocalConnects, LocalSendsData, DataFrame
<1>3. local[i].state # "none"
  BY DEF LocalConnects, LocalSendsData
<1>4. Given(i)
  BY <1>3 DEF EndsInv, Dialled, StreamOf, Given
<1>5. \A j \in Clients : \A x : Ending(fromClient'[j], x) <=> Ending(fromClient[j], x)
  BY <1>2, ClientSays
<1>6. ClientLinks'
  BY <1>1, <1>5, StreamsRest DEF ClientLinks, ClientUp
<1>7. SocketsHeld'
  <2>1. \A j \in StreamIds :
           /\ local'[j].client = local[j].client
           /\ local'[j].state \in {"dialing", "open"} <=> local[j].state \in {"dialing", "open"}
    <3>1. CASE local' = local
      BY <3>1
    <3>2. CASE LocalConnects(k, i)
      <4>1. local[i].state = "dialing" /\ local[i] \in LocalSockets
        BY <3>2 DEF LocalConnects, TypesInv, TunnelTypeOK
      <4>2. \A j \in StreamIds : local'[j] = IF j = i THEN [local[i] EXCEPT !.state = "open"] ELSE local[j]
        BY <3>2 DEF LocalConnects, TypesInv, TunnelTypeOK
      <4>3. [local[i] EXCEPT !.state = "open"].state = "open"
            /\ [local[i] EXCEPT !.state = "open"].client = local[i].client
        BY <4>1 DEF LocalSockets
      <4>. QED
        BY <4>1, <4>2, <4>3
    <3>. QED
      BY <3>1, <3>2 DEF LocalSendsData
  <2>2. \A j \in Clients : clientStreams[j] \subseteq StreamIds
    BY DEF TypesInv, TunnelTypeOK
  <2>. QED
    BY <1>1, <2>1, <2>2 DEF SocketsHeld
<1>8. \A j \in Clients : \A f \in Range(fromClient'[j]) :
         f \in Range(fromClient[j]) \/ (Given(f.id) /\ f.type # "RES_ABORT")
  BY <1>2, <1>4, ClientSays
<1>9. QueuesShrink
  BY <1>1 DEF QueuesShrink
<1>10. \A j \in Clients : endClient[j] # "open" => clientStreams[j] = {}
  BY DEF PeersGone
<1>. QED
  BY <1>1, <1>6, <1>7, <1>8, <1>9, <1>10, ClientSideServed

\* The entry of i and its socket go together.
LEMMA EntryAndSocketGo ==
  ASSUME TypesInv, ServedInv, NEW k \in Clients, NEW i \in clientStreams[k], CleanupTcpState(k, i)
  PROVE  /\ SocketsHeld'
         /\ \A j \in Clients : clientStreams'[j] = IF j = k THEN clientStreams[k] \ {i} ELSE clientStreams[j]
<1> USE DEF ServedInv, ClientsInv
<1>1. \A j \in Clients : clientStreams'[j] = IF j = k THEN clientStreams[k] \ {i} ELSE clientStreams[j]
  BY DEF CleanupTcpState, TypesInv, TunnelTypeOK
<1>2. i \in StreamIds /\ local[i].client = k /\ local[i] \in LocalSockets
  BY DEF TypesInv, TunnelTypeOK, SocketsHeld
<1>3. \A j \in StreamIds : local'[j] = IF j = i THEN [local[i] EXCEPT !.state = "closed"] ELSE local[j]
  BY <1>2 DEF CleanupTcpState, TypesInv, TunnelTypeOK
<1>4. [local[i] EXCEPT !.state = "closed"].state = "closed"
  BY <1>2 DEF LocalSockets
<1>5. \A j \in Clients : clientStreams[j] \subseteq StreamIds
  BY DEF TypesInv, TunnelTypeOK
<1>6. \A j \in Clients : \A x \in clientStreams'[j] : x \in clientStreams[j] /\ x # i /\ x \in StreamIds
  BY <1>1, <1>2, <1>5 DEF SocketsHeld
<1>7. \A j \in Clients : \A x \in clientStreams'[j] :
         local'[x].state \in {"dialing", "open"} /\ local'[x].client = j
  BY <1>3, <1>6 DEF SocketsHeld
<1>8. \A x \in StreamIds : local'[x].state \in {"dialing", "open"} =>
         local'[x].client \in Clients /\ x \in clientStreams'[local'[x].client]
  <2> SUFFICES ASSUME NEW x \in StreamIds, local'[x].state \in {"dialing", "open"}
               PROVE  local'[x].client \in Clients /\ x \in clientStreams'[local'[x].client]
    OBVIOUS
  <2>1. x # i /\ local'[x] = local[x]
    BY <1>3, <1>4
  <2>. QED
    BY <1>1, <2>1 DEF SocketsHeld
<1>. QED
  BY <1>1, <1>7, <1>8 DEF SocketsHeld

\* The local socket ends.
LEMMA LocalEndServes ==
  ASSUME TypesInv, EndsInv, ServedInv, NEW k \in Clients, NEW i \in StreamIds,
         UNCHANGED <<st, wsClient, wsAgent>>, NEW type \in EndTypes, LocalEnds(k, i, type)
  PROVE  ClientsInv'
<1> USE DEF ServedInv, ClientsInv
<1>1. UNCHANGED <<toClient, endClient>> /\ i \in clientStreams[k] /\ CleanupTcpState(k, i)
  BY DEF LocalEnds, relayVars
<1>2. PICK g \in FromClientFrames :
         g.type \in EndTypes /\ g.type # "RES_ABORT" /\ g.id = i /\ fromClient' = ClientSends(k, g)
  <2>1. StreamFrame(type, i) \in FromClientFrames
    BY PeerFrames
  <2>2. StreamFrame(type, i).type = type /\ StreamFrame(type, i).id = i
    BY DEF StreamFrame
  <2>. QED
    BY <2>1, <2>2 DEF LocalEnds, EndTypes
<1>3. Given(i) /\ \A j \in Clients : ~Opening(toClient[j], i)
  BY <1>1, HeldOpened
<1>4. /\ SocketsHeld'
      /\ \A j \in Clients : clientStreams'[j] = IF j = k THEN clientStreams[k] \ {i} ELSE clientStreams[j]
  BY <1>1, EntryAndSocketGo
<1>5. /\ \A j \in Clients : \A x :
            /\ Ending(fromClient[j], x) => Ending(fromClient'[j], x)
            /\ Ending(fromClient'[j], x) => Ending(fromClient[j], x) \/ (j = k /\ x = i)
      /\ ClientUp(k) => Ending(fromClient'[k], i)
  BY <1>2, ClientSays
<1>6. ClientLinks'
  <2> SUFFICES ASSUME NEW j \in Clients, NEW x \in StreamIds
               PROVE  /\ ClientUp(j) /\ Held(j, x) =>
                            x \in clientStreams'[j] \/ Opening(toClient[j], x) \/ Ending(fromClient'[j], x)
                      /\ ClientUp(j) /\ ~Held(j, x) /\ (x \in clientStreams'[j] \/ Opening(toClient[j], x)) =>
                            Ending(toClient[j], x)
                      /\ Ending(toClient[j], x) => ~Held(j, x)
                      /\ Ending(fromClient'[j], x) => x \notin clientStreams'[j] /\ ~Opening(toClient[j], x)
    BY <1>1, StreamsRest DEF ClientLinks, ClientUp, Ending, Opening
  <2>1. CASE j = k /\ x = i
    BY <1>3, <1>4, <1>5, <2>1 DEF ClientLinks
  <2>2. CASE ~(j = k /\ x = i)
    <3>1. (x \in clientStreams'[j] <=> x \in clientStreams[j])
          /\ (Ending(fromClient'[j], x) <=> Ending(fromClient[j], x))
      BY <1>4, <1>5, <2>2
    <3>. QED
      BY <3>1 DEF ClientLinks
  <2>. QED
    BY <2>1, <2>2
<1>7. \A j \in Clients : \A f \in Range(fromClient'[j]) :
         f \in Range(fromClient[j]) \/ (Given(f.id) /\ f.type # "RES_ABORT")
  BY <1>2, <1>3, ClientSays
<1>8. QueuesShrink
  BY <1>1 DEF QueuesShrink
<1>9. \A j \in Clients : endClient[j] # "open" => clientStreams'[j] = {}
  BY <1>1, <1>4 DEF PeersGone
<1>. QED
  BY <1>1, <1>4, <1>6, <1>7, <1>8, <1>9, ClientSideServed

\* The client's end of the WebSocket closes.
LEMMA ClientEndServes ==
  ASSUME TypesInv, EndsInv, ServedInv, NEW k \in Clients,
         UNCHANGED <<st, wsClient, wsAgent>>, ClientEndCloses(k)
  PROVE  ClientsInv'
<1> USE DEF ServedInv, ClientsInv
<1>1. UNCHANGED <<toClient, fromClient>> /\ endClient[k] = "open"
  BY DEF ClientEndCloses, relayVars
<1>2. /\ \A j \in Clients : endClient'[j] = IF j = k THEN "closed" ELSE endClient[j]
      /\ \A j \in Clients : clientStreams'[j] = IF j = k THEN {} ELSE clientStreams[j]
  BY DEF ClientEndCloses, TypesInv, TunnelTypeOK
<1>3. ClientLinks'
  <2>1. \A j \in Clients : /\ ClientUp(j)' => ClientUp(j) /\ j # k
                           /\ \A x : x \in clientStreams'[j] => x \in clientStreams[j]
                           /\ j # k => clientStreams'[j] = clientStreams[j]
    BY <1>2 DEF ClientUp
  <2>. QED
    BY <1>1, <2>1, StreamsRest DEF ClientLinks, Ending, Opening
<1>4. SocketsHeld'
  <2>0. /\ local \in [StreamIds -> LocalSockets]
        /\ \A j \in Clients : clientStreams[j] \subseteq StreamIds
    BY DEF TypesInv, TunnelTypeOK
  <2>1. \A x \in StreamIds : local'[x] = IF x \in clientStreams[k]
                                         THEN [local[x] EXCEPT !.state = "closed"] ELSE local[x]
    BY DEF ClientEndCloses
  <2>2. \A s \in LocalSockets : [s EXCEPT !.state = "closed"].state = "closed"
    BY DEF LocalSockets
  <2>3. ASSUME NEW x \in StreamIds, x \in clientStreams[k]
        PROVE  local'[x].state = "closed"
    <3>1. local[x] \in LocalSockets
      BY <2>0
    <3>2. local'[x] = [local[x] EXCEPT !.state = "closed"]
      BY <2>1, <2>3
    <3>. QED
      BY <2>2, <3>1, <3>2
  <2>4. ASSUME NEW j \in Clients, NEW x \in clientStreams'[j]
        PROVE  x \in StreamIds /\ x \in clientStreams[j] /\ x \notin clientStreams[k]
    <3>1. j # k /\ x \in clientStreams[j]
      BY <1>2, <2>4
    <3>2. local[x].client = j
      BY <3>1 DEF SocketsHeld
    <3>3. x \in clientStreams[k] => local[x].client = k
      BY DEF SocketsHeld
    <3>. QED
      BY <2>0, <3>1, <3>2, <3>3
  <2>5. ASSUME NEW x \in StreamIds, local'[x].state \in {"dialing", "open"}
        PROVE  local'[x].client \in Clients /\ x \in clientStreams'[local'[x].client]
    <3>1. x \notin clientStreams[k] /\ local'[x] = local[x]
      BY <2>1, <2>3, <2>5
    <3>. QED
      BY <1>2, <2>5, <3>1 DEF SocketsHeld
  <2>6. ASSUME NEW j \in Clients, NEW x \in clientStreams'[j]
        PROVE  local'[x].state \in {"dialing", "open"} /\ local'[x].client = j
    <3>1. x \in StreamIds /\ x \in clientStreams[j] /\ x \notin clientStreams[k]
      BY <2>4
    <3>2. local'[x] = local[x]
      BY <2>1, <3>1
    <3>. QED
      BY <3>1, <3>2 DEF SocketsHeld
  <2>. QED
    BY <2>5, <2>6 DEF SocketsHeld
<1>5. QueuesShrink
  BY <1>1 DEF QueuesShrink
<1>6. \A j \in Clients : /\ endClient'[j] # "open" => clientStreams'[j] = {}
                         /\ endClient'[j] = endClient[j] \/ endClient[j] = "open"
  BY <1>1, <1>2 DEF PeersGone
<1>7. \A j \in Clients : \A f \in Range(fromClient'[j]) : f \in Range(fromClient[j])
  BY <1>1
<1>. QED
  BY <1>3, <1>4, <1>5, <1>6, <1>7, ClientSideServed

\* f, at the head of what client k has to read, is taken
TakesHead(k, f) ==
    /\ QueuesShrink
    /\ \A j \in Clients : \A x :
          /\ Ending(toClient'[j], x) => Ending(toClient[j], x)
          /\ Opening(toClient'[j], x) => Opening(toClient[j], x)
          /\ ~(j = k /\ f.type \in EndTypes /\ f.id = x) =>
                (Ending(toClient[j], x) => Ending(toClient'[j], x))
          /\ ~(j = k /\ f.type = "TCP_OPEN" /\ f.id = x) =>
                (Opening(toClient[j], x) => Opening(toClient'[j], x))

LEMMA HeadTaken ==
  ASSUME TypesInv, NEW k \in Clients, toClient[k] # <<>>, toClient' = [toClient EXCEPT ![k] = Tail(@)],
         NEW f, f = Head(toClient[k])
  PROVE  /\ f.id \in StreamIds /\ f \in Range(toClient[k])
         /\ 1 \in DOMAIN toClient[k] /\ toClient[k][1] = f
         /\ TakesHead(k, f)
<1>1. toClient \in [Clients -> Seq(ToClientFrames)] /\ TypeOK
  BY DEF TypesInv, TunnelTypeOK, TypeOK
<1>2. toClient[k] \in Seq(ToClientFrames) /\ f \in ToClientFrames
  BY <1>1
<1>3. f.id \in StreamIds
  BY <1>2, ClientFrameKinds
<1>4. 1 \in DOMAIN toClient[k] /\ toClient[k][1] = f
  BY <1>2
<1>5. \A j \in Clients : toClient'[j] = IF j = k THEN Tail(toClient[k]) ELSE toClient[j]
  BY <1>1
<1>6. QueuesShrink
  BY <1>5 DEF QueuesShrink
<1>7. /\ Head(toClient[k]) \in Range(toClient[k])
      /\ \A x : (Ending(Tail(toClient[k]), x) => Ending(toClient[k], x))
                /\ (Opening(Tail(toClient[k]), x) => Opening(toClient[k], x))
      /\ \A x : ~(f.type \in EndTypes /\ f.id = x) => (Ending(toClient[k], x) <=> Ending(Tail(toClient[k]), x))
      /\ \A x : ~(f.type = "TCP_OPEN" /\ f.id = x) => (Opening(toClient[k], x) <=> Opening(Tail(toClient[k]), x))
  BY <1>2, TailFrames
<1>8. \A j \in Clients : \A x : /\ Ending(toClient'[j], x) => Ending(toClient[j], x)
                                /\ Opening(toClient'[j], x) => Opening(toClient[j], x)
  BY <1>5, <1>7
<1>9. \A j \in Clients : \A x :
               /\ ~(j = k /\ f.type \in EndTypes /\ f.id = x) =>
                     (Ending(toClient[j], x) => Ending(toClient'[j], x))
               /\ ~(j = k /\ f.type = "TCP_OPEN" /\ f.id = x) =>
                     (Opening(toClient[j], x) => Opening(toClient'[j], x))
  BY <1>5, <1>7
<1>. QED
  BY <1>3, <1>4, <1>6, <1>7, <1>8, <1>9 DEF TakesHead

\* A TCP_OPEN is taken: its stream is not held, and not opened twice.
LEMMA OpenTaken ==
  ASSUME TypesInv, EndsInv, NEW k \in Clients, toClient[k] # <<>>,
         toClient' = [toClient EXCEPT ![k] = Tail(@)],
         NEW f, f = Head(toClient[k]), f.type = "TCP_OPEN"
  PROVE  /\ Given(f.id) /\ Opening(toClient[k], f.id) /\ ~Opening(toClient'[k], f.id)
         /\ \A j \in Clients : f.id \notin clientStreams[j]
<1>1. /\ f.id \in StreamIds /\ f \in Range(toClient[k])
      /\ 1 \in DOMAIN toClient[k] /\ toClient[k][1] = f
  BY HeadTaken
<1>2. local[f.id].state = "none" /\ \E c \in Conns : StreamOf(c, f.id, f.port, k)
  BY <1>1 DEF EndsInv, OpensOnce
<1>3. \A n \in DOMAIN toClient[k] :
         toClient[k][n].type = "TCP_OPEN" /\ toClient[k][n].id = f.id => n = 1
  BY <1>1 DEF EndsInv, OpensOnce
<1>4. ~Opening(toClient'[k], f.id)
  <2> SUFFICES ASSUME Opening(toClient'[k], f.id) PROVE FALSE
    OBVIOUS
  <2>1. toClient[k] \in Seq(ToClientFrames) /\ toClient'[k] = Tail(toClient[k])
    BY DEF TypesInv, TunnelTypeOK, TypeOK
  <2>2. PICK m \in DOMAIN Tail(toClient[k]) :
           Tail(toClient[k])[m].type = "TCP_OPEN" /\ Tail(toClient[k])[m].id = f.id
    BY <2>1 DEF Opening, Range
  <2>3. m \in Nat \ {0} /\ m + 1 \in DOMAIN toClient[k] /\ Tail(toClient[k])[m] = toClient[k][m + 1]
    BY <2>1, TailPlaces
  <2>4. m + 1 = 1
    BY <1>3, <2>2, <2>3
  <2>. QED
    BY <2>3, <2>4
<1>5. Given(f.id)
  BY <1>2 DEF StreamOf, Given
<1>6. Opening(toClient[k], f.id)
  BY <1>1 DEF Opening
<1>7. \A j \in Clients : f.id \notin clientStreams[j]
  BY <1>2 DEF EndsInv, HeldDialled
<1>. QED
  BY <1>4, <1>5, <1>6, <1>7

\* ... and refused.
LEMMA RefusedServes ==
  ASSUME TypesInv, EndsInv, ServedInv, NEW k \in Clients,
         UNCHANGED <<st, wsClient, wsAgent, endClient, clientStreams, local>>,
         toClient[k] # <<>>, toClient' = [toClient EXCEPT ![k] = Tail(@)],
         NEW f, f = Head(toClient[k]), f.type = "TCP_OPEN",
         fromClient' = ClientSends(k, StreamFrame("TCP_ABORT", f.id))
  PROVE  ClientsInv'
<1> USE DEF ServedInv, ClientsInv
<1>1. /\ f.id \in StreamIds /\ QueuesShrink /\ f.type \notin EndTypes
      /\ \A j \in Clients : \A x : Ending(toClient'[j], x) <=> Ending(toClient[j], x)
      /\ \A j \in Clients : \A x : ~(j = k /\ f.id = x) => (Opening(toClient[j], x) <=> Opening(toClient'[j], x))
  <2>1. f.type \notin EndTypes
    BY DEF EndTypes
  <2>2. f.id \in StreamIds /\ TakesHead(k, f)
    BY HeadTaken
  <2>. QED
    BY <2>1, <2>2 DEF TakesHead
<1>2. /\ Given(f.id) /\ ~Opening(toClient'[k], f.id)
      /\ \A j \in Clients : f.id \notin clientStreams[j]
  BY OpenTaken
<1>3. PICK g \in FromClientFrames :
         g.type \in EndTypes /\ g.type # "RES_ABORT" /\ g.id = f.id /\ fromClient' = ClientSends(k, g)
  <2>1. StreamFrame("TCP_ABORT", f.id) \in FromClientFrames
    BY <1>1, PeerFrames DEF EndTypes
  <2>2. StreamFrame("TCP_ABORT", f.id).type = "TCP_ABORT" /\ StreamFrame("TCP_ABORT", f.id).id = f.id
    BY DEF StreamFrame
  <2>. QED
    BY <2>1, <2>2 DEF EndTypes
<1>4. /\ \A j \in Clients : \A x :
            /\ Ending(fromClient[j], x) => Ending(fromClient'[j], x)
            /\ Ending(fromClient'[j], x) => Ending(fromClient[j], x) \/ (j = k /\ x = f.id)
      /\ ClientUp(k) => Ending(fromClient'[k], f.id)
  <2>1. g.id = f.id /\ g.type \in EndTypes
    BY <1>3
  <2>2. /\ \A j \in Clients : \A x :
              /\ Ending(fromClient[j], x) => Ending(fromClient'[j], x)
              /\ Ending(fromClient'[j], x) =>
                    Ending(fromClient[j], x) \/ (j = k /\ g.type \in EndTypes /\ g.id = x)
        /\ ClientUp(k) /\ g.type \in EndTypes => Ending(fromClient'[k], g.id)
    <3>1. g \in FromClientFrames /\ fromClient' = ClientSends(k, g)
      BY <1>3
    <3>. QED
      BY <3>1, ClientSays
  <2>. QED
    BY <2>1, <2>2
<1>5. ClientLinks'
  <2> SUFFICES ASSUME NEW j \in Clients, NEW x \in StreamIds
               PROVE  /\ ClientUp(j) /\ Held(j, x) =>
                            x \in clientStreams[j] \/ Opening(toClient'[j], x) \/ Ending(fromClient'[j], x)
                      /\ ClientUp(j) /\ ~Held(j, x) /\ (x \in clientStreams[j] \/ Opening(toClient'[j], x)) =>
                            Ending(toClient'[j], x)
                      /\ Ending(toClient'[j], x) => ~Held(j, x)
                      /\ Ending(fromClient'[j], x) => x \notin clientStreams[j] /\ ~Opening(toClient'[j], x)
    BY StreamsRest DEF ClientLinks, ClientUp, Ending, Opening
  <2>1. CASE j = k /\ x = f.id
    BY <1>1, <1>2, <1>4, <2>1 DEF ClientLinks
  <2>2. CASE ~(j = k /\ x = f.id)
    <3>1. (Opening(toClient'[j], x) <=> Opening(toClient[j], x))
          /\ (Ending(fromClient'[j], x) <=> Ending(fromClient[j], x))
          /\ (Ending(toClient'[j], x) <=> Ending(toClient[j], x))
      BY <1>1, <1>4, <2>2
    <3>. QED
      BY <3>1 DEF ClientLinks
  <2>. QED
    BY <2>1, <2>2
<1>6. SocketsHeld'
  BY DEF SocketsHeld
<1>7. \A j \in Clients : \A g1 \in Range(fromClient'[j]) :
         g1 \in Range(fromClient[j]) \/ (Given(g1.id) /\ g1.type # "RES_ABORT")
  BY <1>2, <1>3, ClientSays
<1>8. \A j \in Clients : endClient[j] # "open" => clientStreams[j] = {}
  BY DEF PeersGone
<1>. QED
  BY <1>1, <1>5, <1>6, <1>7, <1>8, ClientSideServed

\* ... and dialled.
LEMMA DialServes ==
  ASSUME TypesInv, EndsInv, ServedInv, NEW k \in Clients,
         UNCHANGED <<st, wsClient, wsAgent, endClient, fromClient>>, endClient[k] = "open",
         toClient[k] # <<>>, toClient' = [toClient EXCEPT ![k] = Tail(@)],
         NEW f, f = Head(toClient[k]), f.type = "TCP_OPEN",
         clientStreams' = [clientStreams EXCEPT ![k] = @ \cup {f.id}],
         local' = [local EXCEPT ![f.id] = [state |-> "dialing", port |-> f.port, client |-> k]]
  PROVE  ClientsInv'
<1> USE DEF ServedInv, ClientsInv
<1>1. /\ f.id \in StreamIds /\ QueuesShrink /\ f.type \notin EndTypes
      /\ \A j \in Clients : \A x : Ending(toClient'[j], x) <=> Ending(toClient[j], x)
      /\ \A j \in Clients : \A x : ~(j = k /\ f.id = x) => (Opening(toClient[j], x) <=> Opening(toClient'[j], x))
  <2>1. f.type \notin EndTypes
    BY DEF EndTypes
  <2>2. f.id \in StreamIds /\ TakesHead(k, f)
    BY HeadTaken
  <2>. QED
    BY <2>1, <2>2 DEF TakesHead
<1>2. /\ Opening(toClient[k], f.id) /\ ~Opening(toClient'[k], f.id)
      /\ \A j \in Clients : f.id \notin clientStreams[j]
  BY OpenTaken
<1>3. \A j \in Clients : clientStreams'[j] = IF j = k THEN clientStreams[k] \cup {f.id} ELSE clientStreams[j]
  BY DEF TypesInv, TunnelTypeOK
<1>4. \A x \in StreamIds : local'[x] = IF x = f.id THEN [state |-> "dialing", port |-> f.port, client |-> k]
                                       ELSE local[x]
  BY <1>1 DEF TypesInv, TunnelTypeOK
<1>5. ClientLinks'
  <2> SUFFICES ASSUME NEW j \in Clients, NEW x \in StreamIds
               PROVE  /\ ClientUp(j) /\ Held(j, x) =>
                            x \in clientStreams'[j] \/ Opening(toClient'[j], x) \/ Ending(fromClient[j], x)
                      /\ ClientUp(j) /\ ~Held(j, x) /\ (x \in clientStreams'[j] \/ Opening(toClient'[j], x)) =>
                            Ending(toClient'[j], x)
                      /\ Ending(toClient'[j], x) => ~Held(j, x)
                      /\ Ending(fromClient[j], x) => x \notin clientStreams'[j] /\ ~Opening(toClient'[j], x)
    BY StreamsRest DEF ClientLinks, ClientUp, Ending, Opening
  <2>1. CASE j = k /\ x = f.id
    <3>1. x \in clientStreams'[k] /\ Opening(toClient[k], x) /\ ~Opening(toClient'[k], x)
      BY <1>2, <1>3, <2>1
    <3>2. Ending(toClient'[k], x) <=> Ending(toClient[k], x)
      BY <1>1
    <3>. QED
      BY <2>1, <3>1, <3>2 DEF ClientLinks
  <2>2. CASE ~(j = k /\ x = f.id)
    <3>1. x \in clientStreams'[j] <=> x \in clientStreams[j]
      BY <1>3, <2>2
    <3>2. (Opening(toClient'[j], x) <=> Opening(toClient[j], x))
          /\ (Ending(toClient'[j], x) <=> Ending(toClient[j], x))
      BY <1>1, <2>2
    <3>. QED
      BY <3>1, <3>2 DEF ClientLinks
  <2>. QED
    BY <2>1, <2>2
<1>6. SocketsHeld'
  <2>0. \A j \in Clients : clientStreams[j] \subseteq StreamIds
    BY DEF TypesInv, TunnelTypeOK
  <2>1. ASSUME NEW j \in Clients, NEW x \in clientStreams'[j]
        PROVE  local'[x].state \in {"dialing", "open"} /\ local'[x].client = j
    <3>1. CASE x = f.id
      BY <1>1, <1>2, <1>3, <1>4, <2>1, <3>1
    <3>2. CASE x # f.id
      <4>1. x \in clientStreams[j] /\ x \in StreamIds
        BY <1>3, <2>0, <2>1, <3>2
      <4>. QED
        BY <1>4, <3>2, <4>1 DEF SocketsHeld
    <3>. QED
      BY <3>1, <3>2
  <2>2. ASSUME NEW x \in StreamIds, local'[x].state \in {"dialing", "open"}
        PROVE  local'[x].client \in Clients /\ x \in clientStreams'[local'[x].client]
    <3>1. CASE x = f.id
      BY <1>3, <1>4, <3>1
    <3>2. CASE x # f.id
      <4>1. local'[x] = local[x]
        BY <1>4, <3>2
      <4>. QED
        BY <1>3, <2>2, <4>1 DEF SocketsHeld
    <3>. QED
      BY <3>1, <3>2
  <2>. QED
    BY <2>1, <2>2 DEF SocketsHeld
<1>7. \A j \in Clients : endClient[j] # "open" => clientStreams'[j] = {}
  BY <1>3 DEF PeersGone
<1>. QED
  BY <1>1, <1>5, <1>6, <1>7, ClientSideServed

\* A frame of a stream is taken: an end drops what the client holds of it.
LEMMA StreamFrameServes ==
  ASSUME TypesInv, EndsInv, ServedInv, NEW k \in Clients,
         UNCHANGED <<st, wsClient, wsAgent, endClient, fromClient>>,
         toClient[k] # <<>>, toClient' = [toClient EXCEPT ![k] = Tail(@)],
         NEW f, f = Head(toClient[k]), f.type # "TCP_OPEN",
         \/ f.type \in EndTypes /\ f.id \in clientStreams[k] /\ CleanupTcpState(k, f.id)
         \/ (f.type \in EndTypes => f.id \notin clientStreams[k]) /\ UNCHANGED <<clientStreams, local>>
  PROVE  ClientsInv'
<1> USE DEF ServedInv, ClientsInv
<1>1. /\ f.id \in StreamIds /\ QueuesShrink /\ f \in Range(toClient[k])
      /\ 1 \in DOMAIN toClient[k] /\ toClient[k][1] = f
      /\ \A j \in Clients : \A x : Ending(toClient'[j], x) => Ending(toClient[j], x)
      /\ \A j \in Clients : \A x : Opening(toClient'[j], x) <=> Opening(toClient[j], x)
      /\ \A j \in Clients : \A x : ~(j = k /\ f.type \in EndTypes /\ f.id = x) =>
            (Ending(toClient[j], x) => Ending(toClient'[j], x))
  <2>1. /\ f.id \in StreamIds /\ f \in Range(toClient[k])
        /\ 1 \in DOMAIN toClient[k] /\ toClient[k][1] = f
        /\ TakesHead(k, f)
    BY HeadTaken
  <2>. QED
    BY <2>1 DEF TakesHead
<1>2. /\ SocketsHeld'
      /\ \A j \in Clients : clientStreams'[j] \subseteq clientStreams[j]
      /\ f.type \in EndTypes => f.id \notin clientStreams'[k]
      /\ \A j \in Clients : \A x : ~(j = k /\ f.type \in EndTypes /\ f.id = x) =>
            (x \in clientStreams'[j] <=> x \in clientStreams[j])
  <2>1. CASE f.type \in EndTypes /\ f.id \in clientStreams[k] /\ CleanupTcpState(k, f.id)
    <3>1. /\ SocketsHeld'
          /\ \A j \in Clients : clientStreams'[j] = IF j = k THEN clientStreams[k] \ {f.id} ELSE clientStreams[j]
      BY <2>1, EntryAndSocketGo
    <3>. QED
      BY <2>1, <3>1
  <2>2. CASE (f.type \in EndTypes => f.id \notin clientStreams[k]) /\ UNCHANGED <<clientStreams, local>>
    BY <2>2 DEF SocketsHeld
  <2>. QED
    BY <2>1, <2>2
\* an end is not ahead of its TCP_OPEN
<1>3. f.type \in EndTypes => ~Opening(toClient[k], f.id)
  <2> SUFFICES ASSUME f.type \in EndTypes, Opening(toClient[k], f.id) PROVE FALSE
    OBVIOUS
  <2>1. PICK m \in DOMAIN toClient[k] : toClient[k][m].type = "TCP_OPEN" /\ toClient[k][m].id = f.id
    BY DEF Opening, Range
  <2>2. m <= 1
    BY <1>1, <2>1 DEF OpensAhead
  <2>3. m \in Nat \ {0}
    BY DEF TypesInv, TunnelTypeOK, TypeOK
  <2>4. m = 1
    BY <2>2, <2>3
  <2>. QED
    BY <1>1, <2>1, <2>4
<1>4. ClientLinks'
  <2> SUFFICES ASSUME NEW j \in Clients, NEW x \in StreamIds
               PROVE  /\ ClientUp(j) /\ Held(j, x) =>
                            x \in clientStreams'[j] \/ Opening(toClient'[j], x) \/ Ending(fromClient[j], x)
                      /\ ClientUp(j) /\ ~Held(j, x) /\ (x \in clientStreams'[j] \/ Opening(toClient'[j], x)) =>
                            Ending(toClient'[j], x)
                      /\ Ending(toClient'[j], x) => ~Held(j, x)
                      /\ Ending(fromClient[j], x) => x \notin clientStreams'[j] /\ ~Opening(toClient'[j], x)
    BY StreamsRest DEF ClientLinks, ClientUp, Ending, Opening
  <2>1. CASE j = k /\ f.type \in EndTypes /\ x = f.id
    <3>1. Ending(toClient[k], x)
      BY <1>1, <2>1 DEF Ending
    <3>. QED
      BY <1>1, <1>2, <1>3, <2>1, <3>1 DEF ClientLinks
  <2>2. CASE ~(j = k /\ f.type \in EndTypes /\ f.id = x)
    <3>1. (Opening(toClient'[j], x) <=> Opening(toClient[j], x))
          /\ (x \in clientStreams'[j] <=> x \in clientStreams[j])
          /\ (Ending(toClient'[j], x) <=> Ending(toClient[j], x))
      BY <1>1, <1>2, <2>2
    <3>. QED
      BY <3>1 DEF ClientLinks
  <2>. QED
    BY <2>1, <2>2
<1>5. \A j \in Clients : endClient[j] # "open" => clientStreams'[j] = {}
  BY <1>2 DEF PeersGone
<1>. QED
  BY <1>1, <1>2, <1>4, <1>5, ClientSideServed

LEMMA ClientServes ==
  ASSUME TypesInv, EndsInv, ServedInv, ~IdleTimeouts, NEW k \in Clients, ClientMoves(k)
  PROVE  ServedInv'
<1>1. AppsInv' /\ UNCHANGED <<st, wsClient, wsAgent>>
  BY ClientLeavesApps
<1>2. ASSUME ClientReceives(k) PROVE ClientsInv'
  <2>1. /\ endClient[k] = "open" /\ toClient[k] # <<>> /\ toClient' = [toClient EXCEPT ![k] = Tail(@)]
        /\ endClient' = endClient
    BY <1>2 DEF ClientReceives, ReceivedByClient
  <2>2. PICK f : f = Head(toClient[k])
    OBVIOUS
  <2>3. \/ f.type = "TCP_OPEN" /\ TcpOpen(k, f)
        \/ /\ f.type \in EndTypes
           /\ IF f.id \in clientStreams[k] THEN CleanupTcpState(k, f.id)
              ELSE UNCHANGED <<clientStreams, local>>
           /\ UNCHANGED fromClient
        \/ f.type = "TCP_DATA" /\ UNCHANGED <<clientStreams, local, fromClient>>
    BY <1>2, <2>2 DEF ClientReceives
  <2>4. CASE f.type = "TCP_OPEN" /\ TcpOpen(k, f)
    <3>1. CASE fromClient' = ClientSends(k, StreamFrame("TCP_ABORT", f.id))
               /\ UNCHANGED <<clientStreams, local>>
      BY <1>1, <2>1, <2>2, <2>4, <3>1, RefusedServes
    <3>2. CASE /\ clientStreams' = [clientStreams EXCEPT ![k] = @ \cup {f.id}]
               /\ local' = [local EXCEPT ![f.id] =
                     [state |-> "dialing", port |-> f.port, client |-> k]]
               /\ UNCHANGED fromClient
      BY <1>1, <2>1, <2>2, <2>4, <3>2, DialServes
    <3>. QED
      BY <2>4, <3>1, <3>2 DEF TcpOpen
  <2>5. CASE /\ f.type \in EndTypes
             /\ IF f.id \in clientStreams[k] THEN CleanupTcpState(k, f.id)
                ELSE UNCHANGED <<clientStreams, local>>
             /\ UNCHANGED fromClient
    <3>1. f.type # "TCP_OPEN"
      BY <2>5 DEF EndTypes
    <3>. QED
      BY <1>1, <2>1, <2>2, <2>5, <3>1, StreamFrameServes
  <2>6. CASE f.type = "TCP_DATA" /\ UNCHANGED <<clientStreams, local, fromClient>>
    <3>1. f.type # "TCP_OPEN" /\ f.type \notin EndTypes
      BY <2>6 DEF EndTypes
    <3>. QED
      BY <1>1, <2>1, <2>2, <2>6, <3>1, StreamFrameServes
  <2>. QED
    BY <2>3, <2>4, <2>5, <2>6
\* without idle timers no socket is an orphan
<1>3. \A i \in StreamIds : ~OrphanEnds(k, i) /\ ~ClientStreamIdle(k, i)
  BY DEF OrphanEnds, ClientStreamIdle, ServedInv, ClientsInv, SocketsHeld
<1>4. \A i \in StreamIds : LocalConnects(k, i) \/ LocalSendsData(k, i) => ClientsInv'
  BY <1>1, LocalSaysServes
<1>5. \A i \in StreamIds, type \in EndTypes : LocalEnds(k, i, type) => ClientsInv'
  BY <1>1, LocalEndServes
<1>6. ClientEndCloses(k) => ClientsInv'
  BY <1>1, ClientEndServes
<1>. QED
  BY <1>1, <1>2, <1>3, <1>4, <1>5, <1>6 DEF ClientMoves, ServedInv

-----------------------------------------------------------------------------
(* What the relay keeps.                                                   *)

\* A place of a queue that has been added to.
LEMMA Places ==
  ASSUME NEW T, NEW q \in Seq(T), NEW s \in Seq(T), NEW m \in DOMAIN (q \o s)
  PROVE  /\ m \in Nat
         /\ \/ m \in DOMAIN q /\ (q \o s)[m] = q[m]
            \/ (\A l \in DOMAIN q : l < m) /\ (q \o s)[m] \in Range(s)
<1>1. /\ m \in 1..(Len(q) + Len(s))
      /\ (q \o s)[m] = IF m <= Len(q) THEN q[m] ELSE s[m - Len(q)]
      /\ DOMAIN q = 1..Len(q) /\ Len(q) \in Nat /\ Len(s) \in Nat
  OBVIOUS
<1>2. CASE m <= Len(q)
  BY <1>1, <1>2
<1>3. CASE m > Len(q)
  <2>1. m - Len(q) \in DOMAIN s
    BY <1>1, <1>3
  <2>2. s[m - Len(q)] \in Range(s)
    BY <2>1 DEF Range
  <2>3. (q \o s)[m] = s[m - Len(q)]
    BY <1>1, <1>3
  <2>4. \A l \in DOMAIN q : l < m
    BY <1>1, <1>3
  <2>. QED
    BY <1>1, <2>2, <2>3, <2>4
<1>. QED
  BY <1>1, <1>2, <1>3

\* What the relay's steps have in common.
LEMMA RelaySideServed ==
  ASSUME TypesInv, EndsInv, ServedInv, StreamsGrow, PeersKept, WsFall, FramesTaken,
         \A c \in Conns : st[c].id = 0 /\ st'[c].id # 0 =>
            /\ st'[c].client \in Clients /\ wsClient[st'[c].client] # "none"
            /\ st'[c].agent # NoAgent => st'[c].agent \in Agents /\ wsAgent[st'[c].agent] # "none"
  PROVE  /\ PeersGone' /\ SocketsHeld' /\ JoinedKept' /\ AgentFramesJoined'
         /\ \A k \in Clients : ClientUp(k)' => ClientUp(k) /\ wsClient'[k] = "open"
         /\ \A a \in Agents : AgentUp(a)' => AgentUp(a) /\ wsAgent'[a] = "open"
         /\ \A k \in Clients, i \in StreamIds : Ending(fromClient'[k], i) => Ending(fromClient[k], i)
<1> USE DEF ServedInv, ClientsInv, AppsInv
<1>1. UNCHANGED <<entries, app, clientStreams, local, endAgent, endClient>>
  BY DEF PeersKept, WsFall
<1>2. SocketsHeld'
  BY <1>1 DEF SocketsHeld
<1>3. PeersGone'
  <2>1. \A k \in Clients : /\ endClient'[k] # "open" => clientStreams'[k] = {}
                           /\ wsClient'[k] = "none" => endClient'[k] = "none"
    BY <1>1 DEF PeersGone, WsFall
  <2>2. ASSUME NEW c \in Conns, st'[c].id # 0
        PROVE  /\ st'[c].client \in Clients /\ wsClient[st'[c].client] # "none"
               /\ st'[c].agent # NoAgent => st'[c].agent \in Agents /\ wsAgent[st'[c].agent] # "none"
    BY <2>2 DEF PeersGone, StreamsGrow, IsAgent
  <2>3. /\ \A k \in Clients : wsClient[k] # "none" => wsClient'[k] # "none"
        /\ \A a \in Agents : wsAgent[a] # "none" => wsAgent'[a] # "none"
    BY DEF WsFall
  <2>. QED
    BY <2>1, <2>2, <2>3 DEF PeersGone, IsAgent
<1>4. JoinedKept'
  BY <1>1, JoiningNamed, IdsPositive DEF JoinedKept, StreamsGrow
<1>5. AgentFramesJoined'
  <2> SUFFICES ASSUME NEW a \in Agents, NEW f, f \in Range(fromAgent'[a]), f.type # "TCP_CONNECT"
               PROVE  \E c \in Conns : /\ st'[c].id = f.id /\ st'[c].agent = a /\ ~st'[c].awaiting
                                       /\ f.type \in EndTypes => app'[c] = "closed"
    BY DEF AgentFramesJoined, Joinable
  <2>1. f \in Range(fromAgent[a])
    BY DEF FramesTaken
  <2>2. fromAgent[a] \in Seq(FromAgentFrames \cup ConnectFrames)
    BY DEF TypesInv, TunnelTypeOK
  <2>3. f \in FromAgentFrames \cup ConnectFrames
    BY <2>1, <2>2 DEF Range
  <2>4. f.id \in StreamIds
    BY <2>3 DEF FromAgentFrames, ConnectFrames, ConnectFrame
  <2>5. PICK c \in Conns : Joinable(c, a, f.id) /\ (f.type \in EndTypes => app[c] = "closed")
    BY <2>1 DEF AgentFramesJoined
  <2>. QED
    BY <1>1, <2>4, <2>5, IdsPositive DEF Joinable, StreamsGrow
<1>6. /\ \A k \in Clients : ClientUp(k)' => ClientUp(k) /\ wsClient'[k] = "open"
      /\ \A a \in Agents : AgentUp(a)' => AgentUp(a) /\ wsAgent'[a] = "open"
  BY <1>1 DEF ClientUp, AgentUp, WsFall
<1>7. \A k \in Clients, i \in StreamIds : Ending(fromClient'[k], i) => Ending(fromClient[k], i)
  BY DEF PeersKept, Ending
<1>. QED
  BY <1>2, <1>3, <1>4, <1>5, <1>6, <1>7

\* The relay ends streams, or passes data on.
LEMMA TellingServes ==
  ASSUME TypesInv, EndsInv, ServedInv, PeersKept, WsFall, FramesTaken, RelayTells, AllTold
  PROVE  ServedInv'
<1> USE DEF ServedInv, ClientsInv, AppsInv
<1>0. TypeOK
  BY DEF TypesInv, TunnelTypeOK
<1>1. /\ RelayQuiet /\ NewsToClients /\ NewsToAgents /\ ClientsGet /\ AgentsGet
      /\ \A c \in Conns : Live(c)' => Live(c)
      /\ \A c \in Conns : /\ st'[c].id = st[c].id /\ st'[c].client = st[c].client
                          /\ st'[c].agent = st[c].agent /\ st'[c].awaiting = st[c].awaiting
                          /\ st'[c].port = st[c].port
  BY DEF RelayTells, RelayQuiet, StreamsKept, SameStream
<1>2. UNCHANGED <<app, clientStreams>>
  BY DEF PeersKept
<1>3. /\ PeersGone' /\ SocketsHeld' /\ JoinedKept' /\ AgentFramesJoined'
      /\ \A k \in Clients : ClientUp(k)' => ClientUp(k) /\ wsClient'[k] = "open"
      /\ \A a \in Agents : AgentUp(a)' => AgentUp(a) /\ wsAgent'[a] = "open"
      /\ \A k \in Clients, i \in StreamIds : Ending(fromClient'[k], i) => Ending(fromClient[k], i)
  <2>1. StreamsGrow
    BY <1>1 DEF StreamsGrow
  <2>. QED
    BY <1>1, <2>1, RelaySideServed
<1>4. \A k \in Clients : /\ toClient[k] \in Seq(ToClientFrames)
                         /\ \/ toClient'[k] = toClient[k]
                            \/ \E s \in Seq(ToClientFrames) : toClient'[k] = toClient[k] \o s
  <2>1. \A s \in Seq(DownFrames) : s \in Seq(ToClientFrames)
    BY DEF ToClientFrames
  <2>2. \A k \in Clients : toClient[k] \in Seq(ToClientFrames)
    BY <1>0 DEF TypeOK
  <2>. QED
    BY <1>1, <2>1, <2>2 DEF ClientsGet
<1>5. \A a \in Agents : /\ toAgent[a] \in Seq(ToAgentFrames)
                        /\ \/ toAgent'[a] = toAgent[a]
                           \/ \E s \in Seq(OtherFrames) : s \in Seq(ToAgentFrames)
                                 /\ toAgent'[a] = toAgent[a] \o s
  BY <1>0, <1>1, OthersAreNoAcks DEF TypeOK, AgentsGet
<1>6. /\ \A k \in Clients : Range(toClient[k]) \subseteq Range(toClient'[k])
      /\ \A a \in Agents : Range(toAgent[a]) \subseteq Range(toAgent'[a])
  <2>1. ASSUME NEW k \in Clients PROVE Range(toClient[k]) \subseteq Range(toClient'[k])
    <3>1. \A s \in Seq(ToClientFrames) : Range(toClient[k] \o s) = Range(toClient[k]) \cup Range(s)
      BY <1>4, RangeOfBoth
    <3>. QED
      BY <1>4, <3>1
  <2>2. ASSUME NEW a \in Agents PROVE Range(toAgent[a]) \subseteq Range(toAgent'[a])
    <3>1. \A s \in Seq(ToAgentFrames) : Range(toAgent[a] \o s) = Range(toAgent[a]) \cup Range(s)
      BY <1>5, RangeOfBoth
    <3>. QED
      BY <1>5, <3>1
  <2>. QED
    BY <2>1, <2>2
<1>7. /\ \A k \in Clients : \A i : Ending(toClient[k], i) => Ending(toClient'[k], i)
      /\ \A a \in Agents : \A i : Ending(toAgent[a], i) => Ending(toAgent'[a], i)
  BY <1>6, EndsOfMore
<1>8. \A k \in Clients : \A i : Opening(toClient'[k], i) <=> Opening(toClient[k], i)
  <2>1. \A k \in Clients : \A i : Opening(toClient[k], i) => Opening(toClient'[k], i)
    BY <1>6, EndsOfMore
  <2>2. \A k \in Clients : \A i : Opening(toClient'[k], i) => Opening(toClient[k], i)
    BY <1>0, <1>1, OpensWereThere DEF Opening, Range
  <2>. QED
    BY <2>1, <2>2
<1>9. /\ \A i : Given(i)' <=> Given(i)
      /\ \A k, i : Held(k, i)' => Held(k, i)
  BY <1>1 DEF Given, Held
<1>10. ClientFramesGiven'
  <2>1. \A k \in Clients : \A f \in Range(toClient'[k]) : Given(f.id)
    BY DEF ClientFramesGiven, RelayTells, NewsToClients, Given
  <2>. QED
    BY <1>9, <2>1 DEF ClientFramesGiven, PeersKept
<1>11. OpensAhead'
  <2> SUFFICES ASSUME NEW k \in Clients, NEW m \in DOMAIN toClient'[k], NEW n \in DOMAIN toClient'[k],
                      toClient'[k][m].type = "TCP_OPEN", toClient'[k][n].id = toClient'[k][m].id
               PROVE  m <= n
    BY DEF OpensAhead
  <2>1. m \in DOMAIN toClient[k] /\ toClient'[k][m] = toClient[k][m]
    BY <1>0, <1>1, OpensWereThere
  <2>2. CASE n \in DOMAIN toClient[k] /\ toClient'[k][n] = toClient[k][n]
    BY <2>1, <2>2 DEF OpensAhead
  <2>3. CASE n \in Nat /\ \A l \in DOMAIN toClient[k] : l < n
    <3>1. m \in Nat /\ m < n
      BY <1>4, <2>1, <2>3
    <3>. QED
      BY <2>3, <3>1
  <2>. QED
    BY <1>4, <2>2, <2>3, Places
<1>12. ClientLinks'
  <2> SUFFICES ASSUME NEW k \in Clients, NEW i \in StreamIds
               PROVE  /\ ClientUp(k)' /\ Held(k, i)' =>
                            i \in clientStreams[k] \/ Opening(toClient[k], i) \/ Ending(fromClient'[k], i)
                      /\ ClientUp(k)' /\ ~Held(k, i)' /\ (i \in clientStreams[k] \/ Opening(toClient[k], i)) =>
                            Ending(toClient'[k], i)
                      /\ Ending(toClient'[k], i) => ~Held(k, i)'
                      /\ Ending(fromClient'[k], i) => i \notin clientStreams[k] /\ ~Opening(toClient[k], i)
    BY <1>2, <1>8 DEF ClientLinks, Ending, Opening
  <2>1. ClientUp(k)' /\ Held(k, i)' =>
           i \in clientStreams[k] \/ Opening(toClient[k], i) \/ Ending(fromClient'[k], i)
    BY <1>3, <1>9 DEF ClientLinks, FramesTaken
  <2>2. ASSUME ClientUp(k)', ~Held(k, i)', i \in clientStreams[k] \/ Opening(toClient[k], i)
        PROVE  Ending(toClient'[k], i)
    <3>1. CASE ~Held(k, i)
      BY <1>3, <1>7, <2>2, <3>1 DEF ClientLinks
    <3>2. CASE Held(k, i)
      <4>1. PICK c \in Conns : Live(c) /\ st[c].id = i /\ st[c].client = k
        BY <3>2 DEF Held
      <4>2. ~Live(c)'
        BY <1>1, <2>2, <4>1 DEF Held
      <4>3. ToldClient(c) \/ Ending(fromClient[k], i)
        BY <4>1, <4>2 DEF AllTold, Drops
      <4>4. ~Ending(fromClient[k], i)
        BY <2>2 DEF ClientLinks
      <4>. QED
        BY <1>3, <2>2, <4>1, <4>3, <4>4 DEF ToldClient
    <3>. QED
      BY <3>1, <3>2
  <2>3. ASSUME Ending(toClient'[k], i), Held(k, i)' PROVE FALSE
    <3>1. PICK f \in Range(toClient'[k]) : f.type \in EndTypes /\ f.id = i
      BY <2>3 DEF Ending
    <3>2. PICK d \in Conns : Live(d)' /\ st[d].id = i
      BY <1>1, <2>3 DEF Held
    <3>3. f \notin Range(toClient[k])
      BY <1>9, <2>3, <3>1 DEF ClientLinks, Ending
    <3>4. PICK c \in Conns : st[c].id = i /\ ~Live(c)'
      BY <1>1, <3>1, <3>3 DEF NewsToClients
    <3>5. c = d
      BY <3>2, <3>4, IdsPositive DEF EndsInv, IdsOnce, Numbered
    <3>. QED
      BY <3>2, <3>4, <3>5
  <2>4. Ending(fromClient'[k], i) => i \notin clientStreams[k] /\ ~Opening(toClient[k], i)
    BY <1>3 DEF ClientLinks
  <2>. QED
    BY <2>1, <2>2, <2>3, <2>4
<1>13. AcksAhead'
  <2> SUFFICES ASSUME NEW a \in Agents, NEW m \in DOMAIN toAgent'[a], NEW n \in DOMAIN toAgent'[a],
                      toAgent'[a][m].type = "TCP_CONNECT_ACK", toAgent'[a][n].type \in EndTypes,
                      toAgent'[a][n].id = toAgent'[a][m].id
               PROVE  m < n
    BY DEF AcksAhead
  <2>1. CASE toAgent'[a] = toAgent[a]
    BY <2>1 DEF AcksAhead
  <2>2. ASSUME NEW s \in Seq(OtherFrames), s \in Seq(ToAgentFrames), toAgent'[a] = toAgent[a] \o s
        PROVE  m < n
    <3>1. \A g \in Range(s) : g.type # "TCP_CONNECT_ACK"
      BY OthersAreNoAcks DEF Range
    <3>2. m \in DOMAIN toAgent[a] /\ toAgent'[a][m] = toAgent[a][m]
      BY <1>5, <2>2, <3>1, Places
    <3>3. \/ n \in DOMAIN toAgent[a] /\ toAgent'[a][n] = toAgent[a][n]
          \/ \A l \in DOMAIN toAgent[a] : l < n
      BY <1>5, <2>2, Places
    <3>. QED
      BY <3>2, <3>3 DEF AcksAhead
  <2>. QED
    BY <1>5, <2>1, <2>2
<1>14. EndsPast'
  <2> SUFFICES ASSUME NEW a \in Agents, NEW i \in StreamIds, Ending(toAgent'[a], i)
               PROVE  \E c \in Conns : st'[c].id = i /\ (Live(c)' => ~st'[c].awaiting)
    BY DEF EndsPast, Past, Ending
  <2>1. PICK f \in Range(toAgent'[a]) : f.type \in EndTypes /\ f.id = i
    BY DEF Ending
  <2>2. CASE f \in Range(toAgent[a])
    <3>1. PICK c \in Conns : st[c].id = i /\ (Live(c) => ~st[c].awaiting)
      BY <2>1, <2>2 DEF EndsPast, Past, Ending
    <3>. QED
      BY <1>1, <3>1
  <2>3. CASE f \notin Range(toAgent[a])
    <3>1. PICK c \in Conns : st[c].id = i /\ (Live(c)' => ~st[c].awaiting)
      BY <1>1, <2>1, <2>3, IdsPositive DEF NewsToAgents
    <3>. QED
      BY <1>1, <3>1
  <2>. QED
    BY <2>2, <2>3
<1>15. AppsTold'
  <2> SUFFICES ASSUME NEW c \in Conns, NEW a \in Agents, st[c].agent = a, AgentUp(a)', ~Live(c)',
                      \/ app[c] = "joined"
                      \/ app[c] = "waiting" /\ AckFrame(st[c].id, c) \in Range(toAgent'[a])
               PROVE  Ending(toAgent'[a], st[c].id)
    BY <1>1, <1>2 DEF AppsTold, AckFrame, Ending
  <2>1. CASE ~Live(c)
    <3>1. AckFrame(st[c].id, c).type = "TCP_CONNECT_ACK"
      BY DEF AckFrame
    <3>2. AckFrame(st[c].id, c) \in Range(toAgent'[a]) => AckFrame(st[c].id, c) \in Range(toAgent[a])
      BY <1>0, <1>1, <3>1, AcksWereThere
    <3>3. Ending(toAgent[a], st[c].id)
      BY <1>3, <2>1, <3>2 DEF AppsTold
    <3>. QED
      BY <1>7, <3>3
  <2>2. CASE Live(c)
    <3>1. ToldAgent(c)
      BY <2>2 DEF AllTold, Drops
    <3>2. IsAgent(c) /\ wsAgent'[a] = "open"
      BY <1>3, RelayAssumption DEF IsAgent
    <3>. QED
      BY <3>1, <3>2 DEF ToldAgent
  <2>. QED
    BY <2>1, <2>2
<1>. QED
  BY <1>3, <1>10, <1>11, <1>12, <1>13, <1>14, <1>15

\* A stream starts: its TCP_OPEN is the first frame that names it.
LEMMA StartServes ==
  ASSUME TypesInv, EndsInv, ServedInv, PeersKept, WsFall, FramesTaken,
         NEW c, NEW p, NEW k, NEW a, Started(c, p, k, a), a # NoAgent => wsAgent[a] # "none"
  PROVE  ServedInv'
<1> USE DEF ServedInv, ClientsInv, AppsInv
<1>0. TypeOK /\ k \in Clients /\ a \in Agents \cup {NoAgent} /\ wsClient[k] = "open"
      /\ toAgent' = toAgent
  BY DEF TypesInv, TunnelTypeOK, Started, OpenClients, TypeOK
<1>1. PICK i \in StreamIds : Fresh(i, c, p, k, a)
  BY FreshId DEF EndsInv
<1>2. /\ \A d \in Conns : d # c => st'[d] = st[d]
      /\ c \in Conns /\ st[c].id = 0 /\ st'[c].phase = "live" /\ st'[c].id = i
      /\ st'[c].client = k /\ st'[c].agent = a
      /\ \A d \in Conns : st[d].id # i
  BY <1>0, <1>1 DEF Fresh, TypeOK
<1>3. UNCHANGED <<app, clientStreams>>
  BY DEF PeersKept
<1>4. /\ PeersGone' /\ SocketsHeld' /\ JoinedKept' /\ AgentFramesJoined'
      /\ \A j \in Clients : ClientUp(j)' => ClientUp(j) /\ wsClient'[j] = "open"
      /\ \A b \in Agents : AgentUp(b)' => AgentUp(b) /\ wsAgent'[b] = "open"
      /\ \A j \in Clients, x \in StreamIds : Ending(fromClient'[j], x) => Ending(fromClient[j], x)
  <2>1. StreamsGrow
    BY StartGrows DEF EndsInv
  <2>2. \A d \in Conns : st[d].id = 0 /\ st'[d].id # 0 =>
            /\ st'[d].client \in Clients /\ wsClient[st'[d].client] # "none"
            /\ st'[d].agent # NoAgent => st'[d].agent \in Agents /\ wsAgent[st'[d].agent] # "none"
    BY <1>0, <1>2
  <2>. QED
    BY <2>1, <2>2, RelaySideServed
<1>5. /\ \A d \in Conns : d # c => (Live(d)' <=> Live(d))
      /\ Live(c)'
  BY <1>2 DEF Live
<1>6. \A j \in Clients, x \in StreamIds : Held(j, x)' <=> Held(j, x) \/ (j = k /\ x = i)
  BY <1>2, <1>5, IdsPositive DEF Held
<1>7. \A j \in Clients :
         /\ ~Held(j, i) /\ i \notin clientStreams[j]
         /\ \A f \in Range(toClient[j]) : f.id # i
         /\ \A f \in Range(fromClient[j]) : f.id # i
  BY <1>2, NotGiven DEF Given
<1> DEFINE g == OpenFrame(i, p)
<1>8. g \in ToClientFrames /\ g.type = "TCP_OPEN" /\ g.type \notin EndTypes /\ g.id = i
  BY DEF OpenFrame, ToClientFrames, Started, EndTypes
<1>9. \A j \in Clients : /\ toClient[j] \in Seq(ToClientFrames)
                         /\ j # k => toClient'[j] = toClient[j]
                         /\ toClient'[k] = toClient[k] \o <<g>>
  BY <1>0, <1>1 DEF Fresh, ToClient, TypeOK
<1> HIDE DEF g
<1>10. /\ <<g>> \in Seq(ToClientFrames) /\ Range(<<g>>) = {g}
       /\ Range(toClient'[k]) = Range(toClient[k]) \cup {g}
  <2>1. <<g>> \in Seq(ToClientFrames) /\ Range(<<g>>) = {g}
    BY <1>8 DEF Range
  <2>2. Range(toClient[k] \o <<g>>) = Range(toClient[k]) \cup Range(<<g>>)
    <3>1. toClient[k] \in Seq(ToClientFrames)
      BY <1>0, <1>9
    <3>2. <<g>> \in Seq(ToClientFrames)
      BY <2>1
    <3>. QED
      BY <3>1, <3>2, RangeOfBoth
  <2>. QED
    BY <1>0, <1>9, <2>1, <2>2
<1>11. \A j \in Clients : \A x : /\ Ending(toClient'[j], x) <=> Ending(toClient[j], x)
                                 /\ Opening(toClient'[j], x) <=> Opening(toClient[j], x) \/ (j = k /\ x = i)
  <2>1. \A x : /\ Ending(toClient'[k], x) <=> Ending(toClient[k], x)
               /\ Opening(toClient'[k], x) <=> Opening(toClient[k], x) \/ x = i
    BY <1>8, <1>10 DEF Ending, Opening
  <2>. QED
    BY <1>9, <2>1
<1>12. ClientFramesGiven'
  <2>1. \A x \in StreamIds : Given(x) => Given(x)'
    BY <1>2, IdsPositive DEF Given
  <2>2. Given(i)'
    BY <1>2 DEF Given
  <2>3. \A j \in Clients : /\ \A f \in Range(toClient[j]) : f.id \in StreamIds
                           /\ \A f \in Range(fromClient[j]) : f.id \in StreamIds
    <3>1. \A j \in Clients : toClient[j] \in Seq(ToClientFrames) /\ fromClient[j] \in Seq(FromClientFrames)
      BY <1>9 DEF TypesInv, TunnelTypeOK
    <3>2. \A j \in Clients : Range(toClient[j]) \subseteq ToClientFrames
                             /\ Range(fromClient[j]) \subseteq FromClientFrames
      BY <3>1 DEF Range
    <3>3. \A f \in FromClientFrames : f.id \in StreamIds
      BY DEF FromClientFrames
    <3>. QED
      BY <3>2, <3>3, ClientFrameKinds
  <2>4. \A j \in Clients : \A f \in Range(toClient'[j]) : Given(f.id)'
    BY <1>8, <1>9, <1>10, <2>1, <2>2, <2>3 DEF ClientFramesGiven
  <2>5. \A j \in Clients : \A f \in Range(fromClient'[j]) : Given(f.id)' /\ f.type # "RES_ABORT"
    BY <2>1, <2>3 DEF ClientFramesGiven, PeersKept
  <2>. QED
    BY <2>4, <2>5 DEF ClientFramesGiven, Given
<1>13. OpensAhead'
  <2> SUFFICES ASSUME NEW j \in Clients, NEW m \in DOMAIN toClient'[j], NEW n \in DOMAIN toClient'[j],
                      toClient'[j][m].type = "TCP_OPEN", toClient'[j][n].id = toClient'[j][m].id
               PROVE  m <= n
    BY DEF OpensAhead
  <2>1. CASE j # k
    BY <1>9, <2>1 DEF OpensAhead
  <2>2. CASE j = k
    <3>1. ASSUME NEW l \in DOMAIN toClient'[k]
          PROVE  /\ l \in Nat
                 /\ \/ l \in DOMAIN toClient[k] /\ toClient'[k][l] = toClient[k][l]
                    \/ (\A x \in DOMAIN toClient[k] : x < l) /\ toClient'[k][l] = g
      <4>1. toClient[k] \in Seq(ToClientFrames) /\ toClient'[k] = toClient[k] \o <<g>>
        BY <1>0, <1>9
      <4>2. <<g>> \in Seq(ToClientFrames) /\ Range(<<g>>) = {g}
        BY <1>10
      <4>3. l \in DOMAIN (toClient[k] \o <<g>>)
        BY <4>1
      <4>4. /\ l \in Nat
            /\ \/ l \in DOMAIN toClient[k] /\ (toClient[k] \o <<g>>)[l] = toClient[k][l]
               \/ (\A x \in DOMAIN toClient[k] : x < l) /\ (toClient[k] \o <<g>>)[l] \in Range(<<g>>)
        BY <4>1, <4>2, <4>3, Places
      <4>. QED
        BY <4>1, <4>2, <4>4
    <3>2. DOMAIN toClient[k] = 1..Len(toClient[k]) /\ Len(toClient[k]) \in Nat
      BY <1>0, <1>9
    <3>3. DOMAIN toClient'[k] = 1..(Len(toClient[k]) + 1)
      BY <1>0, <1>9, <1>8
    <3>4. CASE m \in DOMAIN toClient[k] /\ toClient'[k][m] = toClient[k][m]
      BY <2>2, <3>1, <3>4 DEF OpensAhead
    <3>5. CASE (\A x \in DOMAIN toClient[k] : x < m) /\ toClient'[k][m] = g
      <4>1. ~(n \in DOMAIN toClient[k] /\ toClient'[k][n] = toClient[k][n])
        BY <1>0, <1>7, <1>8, <2>2, <3>5 DEF Range
      <4>2. \A x \in DOMAIN toClient[k] : x < n
        BY <2>2, <3>1, <4>1
      <4>3. m = Len(toClient[k]) + 1 /\ n = Len(toClient[k]) + 1
        BY <2>2, <3>2, <3>3, <3>5, <4>2
      <4>. QED
        BY <3>2, <4>3
    <3>. QED
      BY <2>2, <3>1, <3>4, <3>5
  <2>. QED
    BY <2>1, <2>2
<1>14. ClientLinks'
  <2> SUFFICES ASSUME NEW j \in Clients, NEW x \in StreamIds
               PROVE  /\ ClientUp(j)' /\ Held(j, x)' =>
                            x \in clientStreams[j] \/ Opening(toClient'[j], x) \/ Ending(fromClient'[j], x)
                      /\ ClientUp(j)' /\ ~Held(j, x)' /\ (x \in clientStreams[j] \/ Opening(toClient'[j], x)) =>
                            Ending(toClient'[j], x)
                      /\ Ending(toClient'[j], x) => ~Held(j, x)'
                      /\ Ending(fromClient'[j], x) => x \notin clientStreams[j] /\ ~Opening(toClient'[j], x)
    BY <1>3 DEF ClientLinks, Ending, Opening
  <2>1. CASE j = k /\ x = i
    <3>1. ~Ending(toClient[k], i) /\ ~Ending(fromClient[k], i)
      BY <1>0, <1>7 DEF Ending
    <3>. QED
      BY <1>4, <1>6, <1>7, <1>11, <2>1, <3>1
  <2>2. CASE ~(j = k /\ x = i)
    <3>1. /\ Held(j, x)' <=> Held(j, x)
          /\ Opening(toClient'[j], x) <=> Opening(toClient[j], x)
          /\ Ending(toClient'[j], x) <=> Ending(toClient[j], x)
      BY <1>6, <1>11, <2>2
    <3>. QED
      BY <1>4, <3>1 DEF ClientLinks, FramesTaken
  <2>. QED
    BY <2>1, <2>2
<1>15. AcksAhead'
  BY <1>0 DEF AcksAhead
<1>16. EndsPast'
  <2>1. \A x \in StreamIds : Past(x) => Past(x)'
    BY <1>2, <1>5, IdsPositive DEF Past
  <2>2. \A b \in Agents : \A x : Ending(toAgent[b], x)' <=> Ending(toAgent[b], x)
    BY <1>0 DEF Ending
  <2>. QED
    BY <2>1, <2>2 DEF EndsPast
<1>17. AppsTold'
  <2> SUFFICES ASSUME NEW d \in Conns, NEW b \in Agents, st'[d].agent = b, AgentUp(b)', ~Live(d)',
                      \/ app[d] = "joined"
                      \/ app[d] = "waiting" /\ AckFrame(st[d].id, d)' \in Range(toAgent[b])
               PROVE  Ending(toAgent[b], st'[d].id)
    BY <1>0, <1>3 DEF AppsTold, Ending
  <2>1. d # c
    BY <1>5
  <2>2. st'[d] = st[d] /\ ~Live(d)
    BY <1>2, <1>5, <2>1
  <2>3. AckFrame(st[d].id, d)' = AckFrame(st[d].id, d)
    BY <2>2 DEF AckFrame
  <2>. QED
    BY <1>4, <2>2, <2>3 DEF AppsTold
<1>. QED
  BY <1>4, <1>12, <1>13, <1>14, <1>15, <1>16, <1>17

\* A stream is confirmed: no end of it has been sent to its agent yet.
LEMMA ConfirmServes ==
  ASSUME TypesInv, EndsInv, ServedInv, PeersKept, WsFall, FramesTaken, NEW c \in Conns, Confirms(c)
  PROVE  ServedInv'
<1> USE DEF ServedInv, ClientsInv, AppsInv
<1>0. TypeOK /\ st[c] \in StreamStates /\ Live(c) /\ st[c].id \in StreamIds /\ toClient' = toClient
  BY DEF TypesInv, TunnelTypeOK, TypeOK, Confirms, IInv, LiveNamed, LiveConns
<1> DEFINE s == [st[c] EXCEPT !.awaiting = FALSE]
<1>1. /\ s.id = st[c].id /\ s.port = st[c].port /\ s.client = st[c].client
      /\ s.agent = st[c].agent /\ s.phase = st[c].phase /\ ~s.awaiting
  BY <1>0 DEF StreamStates
<1>2. \A d \in Conns : st'[d] = IF d = c THEN s ELSE st[d]
  BY <1>0 DEF Confirms, TypeOK
<1> HIDE DEF s
<1>3. /\ \A d \in Conns : /\ st'[d].id = st[d].id /\ st'[d].port = st[d].port
                          /\ st'[d].client = st[d].client /\ st'[d].agent = st[d].agent
                          /\ ~st[d].awaiting => ~st'[d].awaiting
      /\ \A d \in Conns : Live(d)' <=> Live(d)
  BY <1>1, <1>2 DEF Live
<1>4. UNCHANGED <<app, clientStreams>>
  BY DEF PeersKept
<1>5. /\ PeersGone' /\ SocketsHeld' /\ JoinedKept' /\ AgentFramesJoined'
      /\ \A j \in Clients : ClientUp(j)' => ClientUp(j) /\ wsClient'[j] = "open"
      /\ \A b \in Agents : AgentUp(b)' => AgentUp(b) /\ wsAgent'[b] = "open"
      /\ \A j \in Clients, x \in StreamIds : Ending(fromClient'[j], x) => Ending(fromClient[j], x)
  <2>1. StreamsGrow
    BY <1>3 DEF StreamsGrow
  <2>. QED
    BY <1>3, <2>1, RelaySideServed
<1>6. /\ \A x : (Given(x)' <=> Given(x)) /\ (Past(x) => Past(x)')
      /\ \A j, x : Held(j, x)' <=> Held(j, x)
  BY <1>3 DEF Given, Held, Past
<1>7. ClientFramesGiven' /\ OpensAhead'
  BY <1>0, <1>6 DEF ClientFramesGiven, OpensAhead, PeersKept
<1>8. ClientLinks'
  <2> SUFFICES ASSUME NEW j \in Clients, NEW x \in StreamIds
               PROVE  /\ ClientUp(j)' /\ Held(j, x)' =>
                            x \in clientStreams[j] \/ Opening(toClient[j], x) \/ Ending(fromClient'[j], x)
                      /\ ClientUp(j)' /\ ~Held(j, x)' /\ (x \in clientStreams[j] \/ Opening(toClient[j], x)) =>
                            Ending(toClient[j], x)
                      /\ Ending(toClient[j], x) => ~Held(j, x)'
                      /\ Ending(fromClient'[j], x) => x \notin clientStreams[j] /\ ~Opening(toClient[j], x)
    BY <1>0, <1>4 DEF ClientLinks, Ending, Opening
  <2>. QED
    BY <1>5, <1>6 DEF ClientLinks, FramesTaken
<1> DEFINE g == AckFrame(st[c].id, c)
<1>9. g \in ToAgentFrames /\ g.type = "TCP_CONNECT_ACK" /\ g.type \notin EndTypes
      /\ g.id = st[c].id /\ g.req = c
  BY <1>0 DEF AckFrame, ToAgentFrames, EndTypes
<1>10. \A b \in Agents : /\ toAgent[b] \in Seq(ToAgentFrames)
                         /\ toAgent'[b] = toAgent[b] \/ toAgent'[b] = toAgent[b] \o <<g>>
  BY <1>0 DEF Confirms, ToAgent, TypeOK
<1> HIDE DEF g
<1>11. <<g>> \in Seq(ToAgentFrames) /\ Range(<<g>>) = {g}
  BY <1>9 DEF Range
<1>12. \A b \in Agents : \/ Range(toAgent'[b]) = Range(toAgent[b])
                         \/ Range(toAgent'[b]) = Range(toAgent[b]) \cup {g}
  <2>1. ASSUME NEW b \in Agents
        PROVE  Range(toAgent[b] \o <<g>>) = Range(toAgent[b]) \cup Range(<<g>>)
    <3>1. toAgent[b] \in Seq(ToAgentFrames)
      BY <1>10
    <3>2. <<g>> \in Seq(ToAgentFrames)
      BY <1>11
    <3>. QED
      BY <3>1, <3>2, RangeOfBoth
  <2>. QED
    BY <1>10, <1>11, <2>1
<1>13. \A b \in Agents : \A x : Ending(toAgent'[b], x) <=> Ending(toAgent[b], x)
  BY <1>9, <1>12 DEF Ending
<1>14. AcksAhead'
  <2> SUFFICES ASSUME NEW b \in Agents, NEW m \in DOMAIN toAgent'[b], NEW n \in DOMAIN toAgent'[b],
                      toAgent'[b][m].type = "TCP_CONNECT_ACK", toAgent'[b][n].type \in EndTypes,
                      toAgent'[b][n].id = toAgent'[b][m].id
               PROVE  m < n
    BY DEF AcksAhead
  <2>1. CASE toAgent'[b] = toAgent[b]
    BY <2>1 DEF AcksAhead
  <2>2. CASE toAgent'[b] = toAgent[b] \o <<g>>
    <3>1. n \in DOMAIN toAgent[b] /\ toAgent'[b][n] = toAgent[b][n]
      BY <1>9, <1>10, <1>11, <2>2, Places
    <3>2. CASE m \in DOMAIN toAgent[b] /\ toAgent'[b][m] = toAgent[b][m]
      BY <3>1, <3>2 DEF AcksAhead
    <3>3. CASE toAgent'[b][m] = g
      <4>1. Ending(toAgent[b], st[c].id)
        BY <1>9, <3>1, <3>3 DEF Ending, Range
      <4>2. PICK d \in Conns : st[d].id = st[c].id /\ (Live(d) => ~st[d].awaiting)
        BY <1>0, <4>1 DEF EndsPast, Past
      <4>3. d = c
        BY <1>0, <4>2, IdsPositive DEF EndsInv, IdsOnce, Numbered
      <4>. QED
        BY <1>0, <4>2, <4>3 DEF Confirms
    <3>. QED
      BY <1>10, <1>11, <2>2, <3>2, <3>3, Places
  <2>. QED
    BY <1>10, <2>1, <2>2
<1>15. EndsPast'
  <2> SUFFICES ASSUME NEW b \in Agents, NEW x \in StreamIds, Ending(toAgent'[b], x)
               PROVE  Past(x)'
    BY DEF EndsPast, Ending
  <2>. QED
    BY <1>6, <1>13 DEF EndsPast
<1>16. AppsTold'
  <2> SUFFICES ASSUME NEW d \in Conns, NEW b \in Agents, st[d].agent = b, AgentUp(b)', ~Live(d),
                      \/ app[d] = "joined"
                      \/ app[d] = "waiting" /\ AckFrame(st[d].id, d) \in Range(toAgent'[b])
               PROVE  Ending(toAgent'[b], st[d].id)
    BY <1>3, <1>4 DEF AppsTold, AckFrame, Ending
  <2>1. AckFrame(st[d].id, d).req = d
    BY DEF AckFrame
  <2>2. d # c
    BY <1>0
  <2>3. AckFrame(st[d].id, d) \in Range(toAgent'[b]) => AckFrame(st[d].id, d) \in Range(toAgent[b])
    BY <1>9, <1>12, <2>1, <2>2
  <2>4. Ending(toAgent[b], st[d].id)
    BY <1>5, <2>3 DEF AppsTold
  <2>. QED
    BY <1>13, <2>4
<1>. QED
  BY <1>5, <1>7, <1>8, <1>14, <1>15, <1>16

LEMMA RelayServed ==
  ASSUME TypesInv, EndsInv, ServedInv, RelayWorks
  PROVE  ServedInv'
<1>1. PeersKept /\ WsFall /\ FramesTaken
  BY DEF RelayWorks
<1>2. CASE RelayTells /\ AllTold
  BY <1>1, <1>2, TellingServes
<1>3. ASSUME NEW c, NEW p, NEW k, NEW a, Started(c, p, k, a), a # NoAgent => wsAgent[a] # "none"
      PROVE  ServedInv'
  BY <1>1, <1>3, StartServes
<1>4. ASSUME NEW c \in Conns, Confirms(c) PROVE ServedInv'
  BY <1>1, <1>4, ConfirmServes
<1>. QED
  BY <1>2, <1>3, <1>4 DEF RelayWorks

-----------------------------------------------------------------------------
(* Nobody is left talking to nobody.                                       *)

LEMMA ServedStep ==
  ASSUME TypesInv, EndsInv, ServedInv, ~IdleTimeouts, [Next]_vars
  PROVE  ServedInv'
<1>1. \/ \E a \in Agents : AgentMoves(a)
      \/ \E k \in Clients : ClientMoves(k)
      \/ RelayWorks \/ Upgrades
  BY WhoseServed
<1>. QED
  BY <1>1, AgentServes, ClientServes, RelayServed, UpgradeServes

\* Without idle timers, the frames on their way make up for whatever the relay
\* and its peers hold differently: what one of them has dropped, the others
\* have dropped too or are being told to, behind the frame that opened it.
THEOREM StreamsAreServed == Spec => [](~IdleTimeouts => ServedInv)
<1>1. TunnelInit => (~IdleTimeouts => ServedInv)
  BY ServedInit
<1>2. TypesInv /\ EndsInv /\ (~IdleTimeouts => ServedInv) /\ [Next]_vars => (~IdleTimeouts => ServedInv)'
  BY ServedStep
<1>. QED
  BY <1>1, <1>2, TypesHold, EndsStayTied, PTL DEF Spec

\* A queue with nothing in it neither ends nor opens a stream.
LEMMA EmptyIsSilent ==
  ASSUME NEW q, q = <<>>, NEW i
  PROVE  ~Ending(q, i) /\ ~Opening(q, i)
BY DEF Ending, Opening, Range

\* With everything delivered, the client and the relay hold the same streams.
LEMMA SameStreamsHeld ==
  ASSUME TypesInv, ServedInv, AllDelivered, NEW k \in Clients, NEW i \in StreamIds
  PROVE  i \in clientStreams[k] <=> Held(k, i)
<1> USE DEF ServedInv, ClientsInv
<1>1. /\ ~Ending(toClient[k], i) /\ ~Opening(toClient[k], i) /\ ~Ending(fromClient[k], i)
      /\ endClient[k] = "open" <=> wsClient[k] = "open"
  BY EmptyIsSilent DEF AllDelivered
<1>2. CASE endClient[k] = "open"
  BY <1>1, <1>2 DEF ClientLinks, ClientUp
<1>3. CASE endClient[k] # "open"
  <2>1. i \notin clientStreams[k]
    BY <1>3 DEF PeersGone
  <2>2. wsClient[k] # "open" /\ wsClient[k] # "closing"
    BY <1>1, <1>3 DEF AllDelivered
  <2>3. ~Held(k, i)
    BY <2>2 DEF Held, TypesInv, IInv, LiveStreamsHaveEnds, LiveConns
  <2>. QED
    BY <2>1, <2>3
<1>. QED
  BY <1>2, <1>3

LEMMA ClientsServed ==
  ASSUME TypesInv, ServedInv
  PROVE  ClientStreamsServed
<1> SUFFICES ASSUME AllDelivered, NEW k \in Clients, NEW i \in StreamIds
             PROVE  /\ i \in clientStreams[k] <=> streams[i] # NoConn /\ st[streams[i]].client = k
                    /\ local[i].state = "open" => \E j \in Clients : i \in clientStreams[j]
  BY DEF ClientStreamsServed
<1>1. i \in clientStreams[k] <=> Held(k, i)
  BY SameStreamsHeld
<1>2. Held(k, i) <=> streams[i] # NoConn /\ st[streams[i]].client = k
  <2>1. IInv
    BY DEF TypesInv
  <2>2. streams[i] # NoConn => streams[i] \in LiveConns /\ st[streams[i]].id = i
    BY <2>1, TableEntryLive
  <2>3. \A c \in LiveConns : st[c].id = i => streams[i] = c
    BY <2>1 DEF IInv, TableConsistent, LiveConns
  <2>4. NoConn \notin Conns
    BY RelayAssumption
  <2>. QED
    BY <2>2, <2>3, <2>4 DEF Held, LiveConns
<1>3. local[i].state = "open" => \E j \in Clients : i \in clientStreams[j]
  BY DEF ServedInv, ClientsInv, SocketsHeld
<1>. QED
  BY <1>1, <1>2, <1>3

LEMMA AppsServed ==
  ASSUME TypesInv, EndsInv, ServedInv
  PROVE  JoinedAppsServed
<1> SUFFICES ASSUME AllDelivered, NEW c \in Conns, app[c] = "joined"
             PROVE  /\ Live(c) /\ ~st[c].awaiting
                    /\ st[c].id \in clientStreams[st[c].client]
                    /\ local[st[c].id].state = "open"
  BY DEF JoinedAppsServed
<1> USE DEF ServedInv, AppsInv, ClientsInv
<1>1. PICK a \in Agents, i \in StreamIds : Joinable(c, a, i)
  BY DEF EndsInv, JoinedConfirmed
<1>2. st[c].id = i /\ st[c].agent = a /\ ~st[c].awaiting
  BY <1>1 DEF Joinable
<1>3. AgentUp(a) /\ ~Ending(toAgent[a], i)
  <2>1. endAgent[a] = "open"
    BY <1>2 DEF JoinedKept
  <2>2. wsAgent[a] = "open" /\ toAgent[a] = <<>>
    BY <2>1 DEF AllDelivered
  <2>. QED
    BY <2>1, <2>2, EmptyIsSilent DEF AgentUp
<1>4. Live(c)
  BY <1>2, <1>3 DEF AppsTold
<1>5. st[c].client \in Clients /\ Held(st[c].client, i)
  <2>1. i # 0
    BY IdsPositive
  <2>. QED
    BY <1>2, <1>4, <2>1 DEF PeersGone, Held
<1>6. i \in clientStreams[st[c].client]
  BY <1>5, SameStreamsHeld
<1>7. local[i].state \in {"dialing", "open"}
  BY <1>5, <1>6 DEF SocketsHeld
<1>8. local[i].state \in {"open", "closed"}
  <2>1. c \in Numbered /\ IsAgent(c)
    BY <1>2, IdsPositive, RelayAssumption DEF Numbered, IsAgent
  <2>. QED
    BY <1>2, <2>1 DEF EndsInv, ConfirmedReached, Reached
<1>. QED
  BY <1>2, <1>4, <1>6, <1>7, <1>8

\* Without idle timers, once everything sent has been delivered, the client
\* process holds a stream exactly when the relay does, and a socket to the
\* service exactly for the streams it holds.
THEOREM ClientsStayServed == Spec => [](~IdleTimeouts => ClientStreamsServed)
<1>1. TypesInv /\ (~IdleTimeouts => ServedInv) => (~IdleTimeouts => ClientStreamsServed)
  BY ClientsServed
<1>. QED
  BY <1>1, TypesHold, StreamsAreServed, PTL

\* Without idle timers, once everything sent has been delivered, a joined
\* application has its stream at the relay and at the client and an open socket
\* to the service, whatever closes, aborts and disconnects raced.
THEOREM AppsStayServed == Spec => [](~IdleTimeouts => JoinedAppsServed)
<1>1. TypesInv /\ EndsInv /\ (~IdleTimeouts => ServedInv) => (~IdleTimeouts => JoinedAppsServed)
  BY AppsServed
<1>. QED
  BY <1>1, TypesHold, EndsStayTied, StreamsAreServed, PTL
=============================================================================
