# Formal model of the WSS service bridge

The bridge lets an application reach a service behind a firewall. Three Node
processes take part:

- the **relay** (`src/index.js`, `src/server`, `src/tcp`), a public server. It
  accepts HTTP requests, direct TCP connections, *tunnel clients* on the
  WebSocket path `/tunnel` and *TCP agents* on `/tcp`, and multiplexes streams
  over the WebSockets;
- the **client** (`serve/client.js`, with `src/tcp/TcpClientHandler.js`) next to
  the services. It dials a local socket or a local HTTP server per stream;
- the **agent** (`serve/tcp-agent.js`) next to the applications. It listens on
  local ports and asks the relay for a stream per accepted connection.

```
 application -- agent ==/tcp==> relay <==/tunnel== client -- service
                     direct TCP --^  ^-- HTTP
```

This directory holds TLA+ modules for the TCP path through all three processes (the
life of a stream and the flow of its data), for the HTTP path, and for the life of
the client's and the agent's processes (reconnects, readiness, heartbeat, shutdown);
TLC configurations for them; and proofs checked by TLAPS. Paths below are those
of the repository, without the leading `src/` of `PROJECT.json`.

## Inventory

Every process is single threaded: a handler (a WebSocket message, a socket
event, a timer) runs to completion before the next. One action of a model is
one handler. Concurrency is between processes, and between the handlers of one
process, in any order the event loop may choose.

| Component | State | Operations | Talks to |
|---|---|---|---|
| `StreamManager` | `streams` (id -> state object), `_nextStreamId`, idle timers | `allocateStreamId`, `createTcpStream`, `cleanupTcpStream`, `abortTcpStream`, `handleClientFrame`, HTTP `createStream`/`abortStream` | calls the sockets and closures its state objects hold |
| `TcpRouter` | `_connCountByPort`, one socket per direct connection | `_handleConnection`, `createAgentStream`, `_wireStream` (data/close/error) | `ClientManager.getActiveClient`, `StreamManager` |
| `TcpAgentServer` | `_agentStreams` (WebSocket -> stream ids), `_connCountByPort` | `handleConnection`, `_handleTcpConnect`, `_handleFrame`, `cleanupAgent`, heartbeat, `close` | `ClientManager.resolveTargetClient`, `TcpRouter.createAgentStream` |
| `VirtualSocket`, `TcpFlowControl` | destroyed, paused, pending chunks | `write`, `pause`, `resume`, `pushInbound`, `endFromAgent`, `abortFromAgent`, `destroy`, `abort` | stands for the agent's end of a stream in the relay |
| `ClientManager` | `clients`, `clientsByTunnelId`, `isAlive` per WebSocket | `addClient`, `cleanupClient`, `resolveTargetClient`, heartbeat, `close` | `StreamManager` on messages and on loss |
| Agent process | WebSocket, `pendingConnects`, `streamedSockets`, listener readiness, reconnect timer | listener accept, `handleConnectAck`, `handleConnectReject`, `handleServerFrame`, `cleanupAll`, `shutdown` | relay over `/tcp`, applications over local ports |
| Client process, TCP | `streams`, a local socket per stream, idle timers | `handleTcpOpen`, local socket events, `cleanupTcpState`, `cleanupAllStreams` | relay over `/tunnel`, services |
| Client process, HTTP | local request per stream | `handleReqMeta`, `handleReqData`, `handleReqEnd`, response events, idle timer | relay, local HTTP server |
| `HttpRouter`, HTTP streams | response object and timers per stream | `handleRequest`, response events | `StreamManager`, `WsFrameWriter` |
| `WsFrameWriter` | one per HTTP body: the chunk in hand, `_peerPaused`, what the Writable holds | `_write`, `_sendChunk`, `waitDrain`, `setPeerPaused`, `_destroy` | the WebSocket's `bufferedAmount` |
| `TunnelServer` | the components, shutdown flag | start, `shutdown` with timeouts | all of the relay |
| Frame codec, configuration, parsers | none | pure | all |

### What is hard here

- **Deferred ACK.** An agent connection is known under three names in turn:
  a request id at the agent, a stream id at relay and client, and both in the
  ACK. Every party may end it in every phase, and messages about it cross.
- **Two WebSockets per stream.** Either may be lost at any time, each end
  notices on its own, and frames in flight are lost. The state at three
  processes must still come together.
- **Shared table and counters.** Ids wrap; a stream ends through many paths
  (socket events, frames, timers, loss of a WebSocket), each of which owes the
  table entry, the per-port count and the agent's slot exactly once.
- **Reconnects.** A tunnel id may be registered by a successor before the
  `close` of its half-open predecessor is handled.
- **Backpressure** over a WebSocket that many streams share, in both processes
  and through `VirtualSocket`.
- **HTTP** bodies, aborts and timeouts, in the same table as TCP streams: a response
  passes through two Writables with states of their own, and the user, the local
  server, two timers and the WebSocket may each end it.
- **Processes** that crash, reconnect and shut down, with a ready file that others
  read, against a relay that does the same.

### What makes each component correct

- `StreamManager`: a table entry is exactly a live stream, and no id has two owners.
- `TcpRouter`, `TcpAgentServer`: counters equal the connections that hold a
  count; no limit is exceeded; an agent's slots cover its live streams; an ACK
  follows a confirmation.
- `ClientManager`: the registry names open, registered clients only, and each
  client under its own tunnel id.
- Agent and client processes: an application is joined to its own service and to
  no other; the end of one side reaches the other; nothing is left behind.
- Flow control: a paused reader is resumed; no byte is dropped, reordered or
  delivered after the end.
- HTTP: one status line per request, a body without gaps and an end; a stream leaves
  the table on every path, and nobody waits for an end that is gone.
- Peers: the ready file tells the truth; one connection at a time; a process that
  runs is connected again when nothing goes wrong any more; the relay forgets who is gone.

## Modules

| Module | Models |
|---|---|
| `TcpRelay` | the relay's TCP half, open to any TCP frame from its peers and to a client's `RES_ABORT` |
| `TcpTunnel` | `TcpRelay` composed with the agent and client processes and the WebSockets between them |
| `TunnelPromise` | the abstract promise to an application, implemented by `TcpTunnel` |
| `TcpUpFlow` | data and backpressure of established streams, application to service |
| `TcpDownFlow` | the same, service to application |
| `WsSender` | the sending side of a WebSocket: write batches, send callbacks, `bufferedAmount` (external) |
| `Pipe` | the abstract promise of one direction, implemented by both flow modules |
| `HttpStream` | an HTTP request through relay and client over one WebSocket |
| `FrameWriter` | `WsFrameWriter`, as operators on a record; used by `HttpStream` in both directions |
| `HttpPromise` | the abstract promise to an end user, implemented by `HttpStream` |
| `PeerLife` | a client or an agent as a process, and what the relay knows of it |
| `TcpRelayProofs` | the inductive invariants of `TcpRelay` (table and ends, counters and limits, registry, deferred ACK) and its theorems |
| `TcpTunnelProofs` | proof that `TcpTunnel` is `TcpRelay` between its real peers, so that its theorems carry over; the inductive invariant of `TcpTunnel`, `EndsMatch`, and the proof that it implements `TunnelPromise` |
| `TcpTunnelServed` | who holds which stream while frames are on their way: `ClientStreamsServed` and `JoinedAppsServed`, without idle timers |
| `PeerLifeProofs` | the inductive invariants of `PeerLife` and its theorems |
| `HttpStreamProofs` | the inductive invariant of `HttpStream`, its theorems, and the proof that it implements `HttpPromise` |
| `WsSenderProofs` | lemmas about the queues of `WsSender`, and about streams that share them, for the proofs of the flow modules |
| `TcpDownFlowProofs` | the inductive invariant of `TcpDownFlow`, its theorems, and the proof that it implements `Pipe` |
| `TcpUpFlowProofs` | the same for `TcpUpFlow` |
| `MCTcpRelay`, `MCTcpTunnel` | instances for TLC; the other modules are instantiated by their `.cfg` alone |

### TcpRelay

A connection is an element of `Conns`, used at most once. `st[c]` is the stream's
state object together with the socket and closure it holds:

| TLA+ | Code |
|---|---|
| `streams`, `nextStreamId` | `StreamManager.streams`, `_nextStreamId` |
| `st[c].phase` | in the table (`live`), `state.cleaned` (`cleaned`), never created (`refused`) |
| `st[c].agent` | `NoAgent`: a `net.Socket` of `TcpRouter`; otherwise a `VirtualSocket` |
| `st[c].awaiting` | `state.awaitingClientAck` |
| `st[c].counted` | the `onCleanup` closure is installed and has not run |
| `portCount`, `agentPortCount` | the two `_connCountByPort` maps |
| `agentStreams`, `agents` | `TcpAgentServer._agentStreams` and its keys |
| `clients`, `byTunnelId`, `tunnelId` | `ClientManager.clients`, `clientsByTunnelId`, `ws.tunnelId` |
| `wsClient`, `wsAgent` | `readyState` at the relay's end |
| `toClient`, `toAgent` | frames sent and not yet received |

`CleanupTcpStreams(S)` is `cleanupTcpStream` applied to every stream of `S`, so
the loss of a WebSocket, one handler in the code, is one step here. The code
decrements `count` only when it is positive; so does `Lowered`.
`TcpAbortFromClient` shows the order the code sends in: the rejection by request
id first, then `TCP_ABORT` by stream id. `ResAbortFromClient` is what the code
does with a `RES_ABORT` for a TCP stream: the entry goes, the socket, the count and
the slot stay. The frames of an HTTP response (`RES_META`, `RES_DATA`, `RES_END`) on a TCP stream are left
out: `serve/client.js` never sends them for one.

A WebSocket whose close has begun (`closing`) no longer takes frames, as in
`sendFrame`, but stays registered until its `close` event. Frames that arrive in
that state are not handled: `ws` delivers none after a close frame, and a
terminated WebSocket's remaining input is dropped.

### TcpTunnel

Each WebSocket gets a far end: `endAgent` with `pending` (`pendingConnects`) and
`entries` (`streamedSockets`), `endClient` with `clientStreams` (the `streams`
map of `serve/client.js`). Both processes drop all of this in their `close`
handler before they reconnect, so a reconnected process goes on as another
element of `Agents` or `Clients`. `local[i]` is the socket the client dialled
for stream id `i`; ids do not wrap in this module (`TunnelAssumption`), so a stream
id names one stream for good. The request id is the connection itself: an agent counts its request ids up
(serve/tcp-agent.js:184) and matches an answer by id and port.

Frames are lost only with their WebSocket, each end of which closes in its own
step; they are never reordered or duplicated, since TCP carries them.

`handleConnectReject` answers, with `stream id 0`, only a connect that is still
pending; a `TCP_ABORT` with a stream id the agent does not know is dropped. This
difference leaves connects unanswered, see Findings.

### TunnelPromise

An application is `waiting`, then `joined` or `left`, and `closed` after having been
joined. It is joined only when its service connection exists or has existed
(the confirmation may be overtaken by the end), and the service is dialled at
most once. `TcpTunnel!ImplementsPromise` is the refinement, with `service` mapped
to the socket the client dialled for the connection's stream.

### TcpUpFlow and TcpDownFlow

`TcpTunnel` follows the life of a stream and abstracts its data to one frame in
flight. The flow modules do the opposite: the streams are established, both
WebSockets stay up, and every chunk is counted.

| TLA+ | Code |
|---|---|
| `agent[s].peerPaused`, `.wsPaused`, `.pending` | `peerPausedRead`, `pausedForWs`, `pendingSends` of the agent's entry |
| `relay[s].paused`, `.buffered`, `.pendingDrain` | closure variables of the `VirtualSocket`; `paused` of a direct `net.Socket` |
| `relay[s].peerPaused`, `.wsPaused`, `.pending` | `peerPausedRead`, `localPausedForWs`, `pendingSends` of the state object |
| `relay[s].agentPaused`, `.wsBackpressured`, `.clientPausedForAgent` | the fields of that name |
| `client[s].queue`, `socket[s].queue` | the write buffer of a `net.Socket` |
| `agentOut`, `relayOut`, `clientOut` | what `ws` and Node hold of a WebSocket's outgoing frames |
| `agentWire`, `relayWire`, `clientWire` | frames in the kernels, at most `MaxWire` of them before writing blocks |

A relay handler of `TcpUpFlow` is a function of a record `x` of the relay's state,
since `Resume`, `OnData` and `Pause` call each other: `socket.resume()` emits the
buffered chunks as `'data'` events, whose handler may call `socket.pause()`, and only
then sends `RESUME`. The send callbacks run one after the other in the same way
(`RelayWritten`).

`WsSender` is the model of `ws` on a Node stream the code relies on: the frames
written while a batch is with the kernel form the next batch; when a batch is
done `bufferedAmount` drops by all of it, the next batch starts, and then the
callbacks of the finished one run. All frames are written in the order of the
`send` calls.

A chunk is one `'data'` event; control frames are some bytes and count for nothing
in `bufferedAmount`. The unit of the marks is the chunk, so `WsLow = 0` stands for
any low-water mark smaller than a chunk. The two directions are separate modules
because they meet only in the WebSockets, where frames of the one delay those of
the other; any such delay is a behaviour of a module already.

### HttpStream, FrameWriter and HttpPromise

A request is an element of `Requests`. There are records of it at four places:

| TLA+ | Code |
|---|---|
| `user[r]` | the end user's connection: what was sent, what came back |
| `relay[r].phase` | in `streams` (`live`), or how the entry left: `done`, `aborted`, or `silent` (aborted without telling the client) |
| `relay[r].head`, `.queue`, `.resEnded`, `.broken`, `.closed` | `res`: the status line, what is written and not flushed, `end()`, `destroy()`, `'close'` |
| `relay[r].responseStarted`, `.responseEnded`, `.responsePaused` | the fields of the state object |
| `relay[r].reqRead`, `.writer` | `req` has emitted `'end'`; the `requestWriter` |
| `client[r]` | the client's entry with `localReq` and `localRes`; `.writer` is its `responseWriter` |
| `client[r].half`, `.active` | history for `IdleMeansIdle` only: half of the idle period has passed, and a frame was sent since |
| `wsRelay`, `wsClient`, `toClient`, `toRelay` | the two ends of the WebSocket and the frames between |

The entry and its response are one record because each outlives the other: `res` flushes what it
holds after the entry is gone, and the entry waits for `'finish'`. The handlers of
`StreamManager` are functions of that record (`AbortStream`, `CleanupStream`), so that
`ClientManager.cleanupClient` can apply them to every stream in one step (`RelayClosed`). A relay's end that
is closing sends nothing and handles frames until its `close` event, as `handleClientFrame` does.

`FrameWriter` gives for each turn of a writer the set of its outcomes: the writer
afterwards and the slices sent. How many slices go out before the
WebSocket is above `WS_HIGH_WATER` depends on all other streams, so it is open: a
turn stops for a drain before any slice, or after any. The wait for the drain ends by
the drain or by its timeout, which is an error of the writer.

`HttpPromise` is what a user may rely on: at most one status line; slices
1, 2, ... of the local server's body, one after the other; one end, nothing after it; and no
complete response without a status line. `HttpStream!ImplementsPromise` is the
refinement, a projection of `user` and `relay[r].head`.

### PeerLife

| TLA+ | Code |
|---|---|
| `proc.state`, `.authFailed`, `.timer`, `.ready` | the process; `authFailed`, the reconnect timer, `ready` |
| `listening` | `listeningPorts` of the agent |
| `cur` | the connection that `ws` is, or was |
| `conn[c].process`, `.relay` | `readyState` at the two ends |
| `conn[c].link` | whether anything passes: on a `dead` link neither end is told |
| `conn[c].isAlive` | the flag of the relay's heartbeat |
| `reg` | `ClientManager.clients`, or the agents of `TcpAgentServer` |
| `file` | the ready file: absent, with the pid of the process, or of one that is gone |
| `relay` | the relay's process: `up`, `closing` after SIGTERM, `down` |

The process has one WebSocket, but the relay may still hold earlier ones whose
loss it has not noticed: that is what the numbers of connections are for. A number
is used again when both ends are done with it. What goes wrong (a crash, a signal,
a dead link, a failed handshake, a rejected login, a listener's error, the end of the relay) counts
against `MaxFaults`. One module stands for the client and for the agent (`kind`), whose
connection code is the same in `serve/client.js` and `serve/tcp-agent.js` but for readiness.

## Runs

| Run | Instance | States | Checks |
|---|---|---|---|
| `relay` | 3 connections, 2 clients, 2 agents (3 WebSockets in all), 1 tunnel id, 2 table entries, ids that wrap | 347 k | `TypeOK`, `LimitsRespected`, `CountsExact`, `RegistryConsistent`, `TableConsistent`, `LiveStreamsHaveEnds`, `AckOnlyConfirmed` |
| `tunnel_ends` | 2 connections end to end, idle timers on both sides, 2 frames in flight | 1.0 M | `TunnelTypeOK`, `EndsMatch`, `ImplementsPromise` |
| `tunnel_live` | 1 connection, a client and a successor that refuses the host, no idle timers, fairness | 61 k | `JoinedAppsServed`, `ClientStreamsServed`, `EndReachesApp`, `EndReachesService`, `EndReachesRelay`, `ConnectAnswered` |
| `up_flow` | an agent stream and a direct one, 2 chunks each, all marks 1 | 465 k | `TypeOK`, `PausesJustified` |
| `up_live` | one agent stream, 5 chunks, a `VirtualSocket` of 3, fairness | 29 k | `BuffersBounded`, `ImplementsPipe`, `SentArrives`, `ReadersResume` |
| `down_flow` | an agent stream and a direct one, 2 chunks each, fairness | 404 k | `TypeOK`, `ClientBounded`, `PausesAgree`, `AgentCloseKeepsData`, `ImplementsPipe`, `PausedClientsResume` |
| `http` | 1 request with a body of at most one chunk, a response of 3 slices, all marks and limits 1 | 766 k | `TypeOK`, `CompleteIsWhole`, `UsersServed`, `LocalRequestsOwned`, `PausesAgree`, `ImplementsPromise`, `NobodyWaits` |
| `peer_life` | a client or an agent, 4 connections, 1 listener, `MAX_TUNNEL_CLIENTS` 2, 3 faults | 163 k | `TypeOK`, `ReadyMeansOpen`, `OneConnection`, `RegistryHonest`, `Recovers` |
| `slot_leak` | 1 connection, fairness | - | `SlotsReleased`, violated |
| `up_stuck` | 2 streams | - | `ThrottledReadersResume`, violated |
| `http_body` | as `http` | - | `RequestForwarded`, violated |
| `http_idle` | as `http` | - | `IdleMeansIdle`, violated |

`tunnel_ends` and `down_flow` take two to three minutes, `relay`, `tunnel_live`, `http` and `peer_life` about one, the
others less than half a minute.

Deadlock is not checked (`CHECK_DEADLOCK FALSE`): every connection, request and WebSocket of the
stream modules is used once and every application sends `Chunks` chunks, so a behaviour ends when
all are used up; in `PeerLife` it ends when the faults are.

### Bounds, and why they are enough

- **Three connections** are the least with which two streams hold the table full
  while a third is refused or takes a freed id; **two** are enough for ACKs, aborts
  and closes of different streams to cross. There is one allowed port with one connection in these runs, so the
  limit per agent never binds before it, and no agent has two live streams: that part of `LimitsRespected`
  and `EndsMatch` is left to the theorems `LimitsNeverExceeded` and `EndsStayMatched`.
- **Ids** wrap after 2 or 3 in the relay runs, so an id is reused while others are
  held. `TcpTunnel` has no wrap: 2^32 streams do not fit between a frame's sending
  and its arrival.
- **WebSockets** are used once; two clients are a client and its successor. `relay` opens
  three at most (`MaxWebSockets`): a client, its successor and an agent, or a client
  and two agents.
- **Frames.** In the runs of `TcpRelay` the queues are read before the next event
  (`MCNext`): the relay never reads them back, so nothing else depends on how
  long they are. In `TcpTunnel`, at most one `TCP_DATA` per stream and direction is
  in flight, and no data is sent by an agent that is about to be told to abort the
  stream. `tunnel_ends` has at most two frames in flight at once, which is what it takes for
  two messages to cross; `tunnel_live` has no limit. Longer queues add
  data frames, which change no lifecycle state.
- **Chunks and marks.** With marks of one chunk every pause, resume and drain happens
  with two chunks per stream, and the two streams of `up_flow` and `down_flow`
  throttle each other on the client's WebSocket. In `down_flow` the WebSocket of the agent is that of one stream, so
  that `PausesAgree` and `PausedClientsResume` promise its `drain`; with two they except it. A flush that pauses the socket
  again needs two buffered chunks on top of those in the sender, the wire and the
  service: five chunks and a buffer of three in `up_live`. `MaxWire = 1` makes the
  kernel block as early as it can; longer wires only delay.
- **One request** in `HttpStream`. Handlers look at no stream but their own, except
  for the size of the two tables and for the WebSocket they share. Both tables are
  full with one request (`MaxStreams`, `ClientMaxStreams`), the WebSocket may be full at
  any turn of a writer, and its loss is one step for all. What one request does not
  reach is a `RES_ABORT` for the limit of the client; two requests exceed what can be checked in minutes. **Three
  slices** with marks of one: one flushed, one queued, one held by the client's
  writer. A **body** of one chunk meets every state of the local request. A second
  chunk would wait in the request writer, as the response's slices do.
- **Four connections** and **three faults** in `PeerLife`: two half-open predecessors fill a
  registry of 2 when the third connection arrives, and one number is left. (The default
  of `MAX_TUNNEL_CLIENTS` is 1, where one predecessor is enough.) One
  listener is up or not; the second would only delay readiness.
- **Symmetry** is used in the safety runs only.

### Fairness

In `TcpTunnel`, `FairSpec` assumes that a process goes on reading a WebSocket that delivers; that
the relay notices the loss of a peer (a FIN, or the 30 s heartbeat of
`ClientManager` and `TcpAgentServer`), and the client the loss of its relay (a FIN, or its own ping);
and that a dial ends (`connect`, `error`, or
the connect timeout of `TcpClientHandler`). Each is weak fairness of one handler,
enabled until taken. Nothing is assumed of the application or of the service, and a
working WebSocket need never be lost. Nor is anything assumed of an agent whose WebSocket the relay has
closed: it sends no pings, so that it may never hear of it when the link is dead. `EndReachesApp` and
`ConnectAnswered` therefore promise nothing to the applications of an agent that the relay has lost. In the flow modules the kernels go on sending, the three processes go on
reading, and the end that receives data takes it. `SentArrives` and `ReadersResume`
are checked with one stream on the WebSockets only: with two they fail, see `up_stuck` under
Findings. `PausedClientsResume` is checked with two streams on the client's WebSocket, and says nothing of a client that
throttles itself for it.

In `HttpStream` no behaviour goes on for ever (every request ends once, a body has
an end), so weak fairness of the disjunction `Progress` amounts to fairness of
each handler in it: frames are read; the user reads or leaves; the local server
answers or fails; a full WebSocket drains or the wait for it times out; a WebSocket closed at one
end closes at the other. That the local server answers or fails is an
assumption about that server, or about `LOCAL_REQUEST_TIMEOUT_MS`: with its default, 0, a server that accepts a request
and never answers leaves the user waiting, unless an idle timer is on, and `NobodyWaits` does not see it. The idle timers are not in it, since
`STREAM_IDLE_TIMEOUT_MS=0` turns them off. In `PeerLife` timers fire and events are
delivered, each by weak fairness of its own, listeners that can come up do, and somebody starts the relay
again. Nothing is assumed of faults. That a client finds out about a dead link is its ping
(serve/client.js); an agent sends none, so fairness does not cover it.

`tunnel_live` sets
`STREAM_IDLE_TIMEOUT_MS=0`, a legal setting, so no timer does what the close frames
should.

## Findings

Where the code does something else than a comment or a document of the repository says, with the run that
shows it:

1. `slot_leak`: `RES_ABORT` for a TCP stream, which the client's idle timer sends,
   runs the HTTP cleanup: the agent's slot, the per-port count and the relay's socket
   are never released.
2. `up_stuck`: a reader throttled for a shared WebSocket is resumed only by a send
   callback of its own stream at the low-water mark. If its last callback finds the
   WebSocket full of another stream's data, nothing ever resumes it. The agent has a
   handler for a `drain` event of the WebSocket, which `ws` does not emit.
3. `http_body`: the relay never sends `bodyLength`, so the client ends the local
   request at once. The local server sees an empty body, and the first `REQ_DATA` is a
   write after end, which aborts the stream unless the answer came first.
4. `http_idle`: frames that a client sends do not restart its idle timer, so a download
   of more than `STREAM_IDLE_TIMEOUT_MS` during which nobody pauses is aborted while it is busy.

Behaviours of the models that a reader of the code may not expect, without a run of their own:

- TCP, life of a stream (`TcpTunnel`). A connect that still waits for its ACK when the tunnel client
  is lost is aborted by a stream id its agent has never heard of, and waits until its
  application gives up (ClientManager.js:135; `ConnectAnswered` excepts the case). An application that closes
  before its ACK is forgotten: relay and client keep the stream (tcp-agent.js:197). For direct connections the
  relay forwards data before `TCP_OPEN_ACK` (`TcpRelay!DirectData`), which
  docs/tcp-tunnel.md:52 excludes.
- TCP, data. `VirtualSocket.resume()` sends `RESUME` after a flush that may have
  sent `PAUSE` (VirtualSocket.js:61); `endFromAgent` drops what is buffered when an application sends and closes
  (VirtualSocket.js:84), while an agent ends its socket and loses nothing (`AgentCloseKeepsData`); the `drain` of a
  `VirtualSocket` is missed as in finding 2, with two agent streams on the WebSocket of an agent (`TcpDownFlow!Drained`;
  `PausesAgree` and `PausedClientsResume` except it as `SharesAgent`); `TCP_CLOSE`
  destroys the socket of a direct connection with what it has not written
  (`TcpDownFlow!RelayClose`).
- HTTP. An error of the request writer and headers that `writeHead` refuses drop
  the stream without a `REQ_ABORT`, and the local request goes on for nobody
  (StreamManager.js:295, :343; the `silent` streams that `LocalRequestsOwned` and `NobodyWaits` except). A
  `RES_ABORT` in the middle of a response ends it as if it were whole
  (StreamManager.js:435); without a `Content-Length` the user cannot tell. A user who
  leaves between `RES_END` and `'finish'` leaves an entry to the idle timer
  (HttpRouter.js:446).
- Peers. An agent sends no pings, so on a dead link it stays ready until an application makes it send,
  and those it has joined are not told that the relay has ended their streams
  (`Recovers`, `EndReachesApp` and `ConnectAnswered` except it). A client writes its ready file on `'open'`, before the
  relay may refuse it at `MAX_TUNNEL_CLIENTS` or for its id. A listener's error after readiness takes the ready
  file away until the next reconnect, and a second one ends the process. An agent whose login
  is rejected keeps its listeners and never reconnects.

What holds nevertheless: no direction reorders, repeats or skips a chunk
(`ImplementsPipe`), so a stream that ends early ends at a prefix; memory is bounded by
the marks, with one exception to "the high-water mark plus a chunk per stream": a flush
writes a whole `VirtualSocket` buffer to the client's WebSocket (`BuffersBounded`).

## Proofs

Proved for every number of connections, clients, agents and ports
and every value of the limits (under `RelayAssumption`: finite sets, and "none"
values outside them), in `TcpRelayProofs`:

- `TypeCorrect`: `RelaySpec => []TypeOK`;
- `TableStaysConsistent`: `RelaySpec => []TableConsistent`;
- `LiveStreamsKeepEnds`: `RelaySpec => []LiveStreamsHaveEnds`;
- `CountsStayExact`: `RelaySpec => []CountsExact`;
- `LimitsNeverExceeded`: `RelaySpec => []LimitsRespected`;
- `RegistryStaysConsistent`: `RelaySpec => []RegistryConsistent`;
- `AcksStayConfirmed`: `RelaySpec => []AckOnlyConfirmed`.

Together they cover every invariant of the run `relay`. For the composition (under
`TunnelAssumption` as well: no more connections than stream ids, so that none is
used twice), `TcpTunnelProofs` has

- `TunnelTypes`: `Spec => []TunnelTypeOK`;
- `RelayIsRefined`: `Spec => RelaySpec`;
- `RelayKeepsItsWord`: the six invariants above besides `TypeOK` (which is part of `TunnelTypeOK`);
- `EndsStayMatched`: `Spec => []EndsMatch`;
- `PromiseOfTunnel`: `Spec => ImplementsPromise`, the refinement of `TunnelPromise`,

which are all the properties of the run `tunnel_ends`, and `TcpTunnelServed` has

- `StreamsAreServed`: `Spec => [](~IdleTimeouts => ServedInv)`, the inductive invariant of who holds which stream;
- `ClientsStayServed`: `Spec => [](~IdleTimeouts => ClientStreamsServed)`;
- `AppsStayServed`: `Spec => [](~IdleTimeouts => JoinedAppsServed)`,

the last two for the invariants of the run `tunnel_live`, which has no idle timers
either (`STREAM_IDLE_TIMEOUT_MS` 0): with them both are false (below). For every number of
connections and listeners, every limit and every number of faults (under
`LifeAssumption`), `PeerLifeProofs` has

- `LifeType`: `Spec => []TypeOK`;
- `ReadyFile`: `Spec => []ReadyMeansOpen`;
- `OneWebSocket`: `Spec => []OneConnection`;
- `HonestRegistry`: `Spec => []RegistryHonest`,

which are the invariants of the run `peer_life`. For every number of requests on
the WebSocket, every length of their bodies and every limit (under `HttpAssumption`),
`HttpStreamProofs` has

- `HttpTypes`: `Spec => []TypeOK`;
- `WholeResponses`: `Spec => []CompleteIsWhole`;
- `PromiseIsKept`: `Spec => ImplementsPromise`, the refinement of `HttpPromise`;
- `UsersStayServed`: `Spec => []UsersServed`;
- `LocalRequestsStayOwned`: `Spec => []LocalRequestsOwned`;
- `HttpPausesStayAgreed`: `Spec => []PausesAgree`.

For every number of streams on the two WebSockets, with and without agents, every
number of chunks and every mark (under `DownFlowAssumption`), `TcpDownFlowProofs` has

- `DownTypes`: `Spec => []TypeOK`;
- `ClientStaysBounded`: `Spec => []ClientBounded`;
- `ReasonsStay`: `Spec => []ReasonsHold`, the invariant that no client is left paused;
- `PausesStayAgreed`: `Spec => []PausesAgree`;
- `AgentClosesAfterData`: `Spec => []AgentCloseKeepsData`;
- `DownImplementsPipe`: `Spec => ImplementsPipe`, the refinement of `Pipe`,

which between them state all the safety properties of the run `down_flow`. The other direction (under
`UpFlowAssumption`) has in `TcpUpFlowProofs`

- `UpHolds`: `Spec => []UpInv`, the inductive invariant;
- `UpTypes`: `Spec => []TypeOK`;
- `UpBuffersBounded`: `Spec => []BuffersBounded`;
- `UpPausesJustified`: `Spec => []PausesJustified`;
- `UpImplementsPipe`: `Spec => ImplementsPipe`, the refinement of `Pipe`,

which are all the properties of the run `up_flow` and the safety properties of `up_live`.

None of the first three theorems' properties is inductive alone. `IInv` adds `LiveNamed` (a live stream has an id
of the table, without which its entry could not be found when it ends) and
`OpenRegistered` (an open `/tunnel` WebSocket is registered, without which a stream
could be started for a client whose loss would not be cleaned up after).
`LiveStreamsHaveEnds` needs `TableConsistent`: slots are given back by stream id,
and only because no two live streams share an id does every other live stream keep
its slot. Conversely `CleanupAgent` finds the agent's streams by those slots. The lemmas follow
the code: `CleanupEffect` and `SlotsAfterEffect` for bulk cleanup, `EndOneStream` for
the paths that end one stream, `StartOneStream`, `PeersOnly` and `FramesOnly` for
what leaves streams alone, then one lemma per handler.

The part about limits looks at a step only as far as counting goes. `StepKinds` shows that
every step ends a set of live streams, starts one stream after the checks of
`_handleConnection` or `_handleTcpConnect`, or keeps what is counted (`RES_ABORT`
is of the last kind: that is the leak of `slot_leak`). Each kind keeps
`CInv`, which adds to `IInv` that a connection not started or refused holds no count, so that a start
adds one to a counter and to its set of connections alike; and `LInv`, which adds
`WithinLimits`, the limits on the quantities the code compares: the counters, the
agent's slots, the table. `LimitsRespected` is about live streams, and follows
because each of them holds a count and, by `TableConsistent`, a slot of its own.

The part about the registry needs only the types besides `RegistryConsistent` itself: four actions
touch the registry. The case that matters is `RegistryRemove`, where the mapping of
a tunnel id is removed only if it is still that of the WebSocket that closes.

The part about the deferred ACK splits the steps in two. One that puts no ACK on its way (`Quiet`) keeps
`AckOnlyConfirmed` because a stream that is confirmed stays so under its id, cleaned or
not (`Confirmed`). The other is `TCP_OPEN_ACK` itself, whose ACK names a live stream
by the id it has.

`TcpTunnelProofs` takes the steps of the composition one by one: each is a step of the open
relay whose input is the frame at the head of a queue, or it is none of the relay's. What
it takes to see that is the type of those queues (`TunnelTypeOK`): an agent sends nothing
but what `FromAgentFrames` and `ConnectFrames` allow. The relay's theorems then hold of
`Spec` without a second proof.

The second part of `TcpTunnelProofs` has to show that two processes which share nothing but a stream id speak of
the same connection. `EndsInv` follows the id around. Ids are handed out in order and once
(`IdsOnce`), so the id of a new stream was never dialled. The `TCP_OPEN` on its way is the only one of its
stream (`OpensOnce`), so what the client dials (`Dialled`) is the port of that stream. A `TCP_OPEN_ACK` on its way,
and a stream the relay has confirmed, are for a service that was reached (`OpenAcksReached`,
`ConfirmedReached`); an ACK on its way and an entry at an agent are for a confirmed stream
of a connection of that agent (`AcksJoin`, `EntriesJoin`). An application waits at one agent only (`PendingWait`),
and those joined have such a stream (`JoinedConfirmed`). `HeldDialled` keeps a client from closing what was never dialled. The
invariant was checked by TLC on the instances of `tunnel_ends` and `tunnel_live` first. `WhoseSteps` splits the
steps in three: an agent's or a client's, which leave the streams alone, and the relay's, which leave both
peers alone and are quiet, start a stream or confirm one (`RelayMoves`). The last case of the refinement
is the start: the service of a connection stays "none" when it gets its id, since nobody has dialled that id.

`TcpTunnelServed` is about what relay, agents and clients hold while frames cross. With an idle timer they may
differ for good: the client forgets a stream and sends `RES_ABORT`, which the relay does not
pass on to the agent, and which leaves the local socket open; with `IdleTimeouts` TLC finds both
invariants violated, so `~IdleTimeouts` is the hypothesis of all three theorems. `ServedInv` says that every difference is on its
way. `ClientsInv` is the part about clients: a stream that
the relay has and the client has not is in a `TCP_OPEN` to it, or its end is on its way back, and a stream that only
the client has is about to be ended by a frame from the relay (`ClientLinks`); the end of a stream
never comes before its `TCP_OPEN` (`OpensAhead`); a frame from a client is for a stream that was
given to it (`ClientFramesGiven`); sockets are open for the streams the client holds (`SocketsHeld`), and nothing is held by
a process whose WebSocket is gone (`PeersGone`). `AppsInv` is the part about agents: an
application that is joined keeps its stream at the relay or is being told of its end (`AppsTold`), an ACK on its way precedes that
end (`AcksAhead`), no end of a stream still waiting for its confirmation is on its way to an
agent (`EndsPast`), and what an agent sends of a stream is for one it joined (`JoinedKept`, `AgentFramesJoined`). TLC
checked it first, on the instance of `tunnel_live` and on larger ones with more frames in flight. The proof splits the steps by
whom they belong to (`WhoseServed`); a step of the relay tells peers of the end of some streams and
drops them (`RelayTells`), starts a stream or confirms one. Whatever handler ended a stream, what
the proof needs of it is that everyone who holds the stream is told (`AllTold`).

`PeerLifeProofs` has two inductive invariants. `ProcessInv` joins `ReadyMeansOpen` and `OneConnection`,
which need each other: the ready file is written when `cur` opens, and is true of the process
only because an older connection cannot be open any more, so that its `close` handler never runs late; and a reconnect
starts only when no connection is left, because the timer is set by the `close` of the
only one. A process that is down has no connection at all, which lets it start. `RegistryInv`
is `RegistryHonest` with the types. The case that matters is `Accepts`: a
connection is registered after `Refused` was evaluated in the same handler, so
the limit and the uniqueness of a `TUNNEL_ID` hold after it.

`HttpStreamProofs` has to know where every slice of a response is. `CompleteIsWhole`
compares what the user got with the length of the body, and between the two lie four
places: the client's writer, the wire, the queue of `res`, and what the user has.
`HttpInv` says request by request that they join up: the
writer holds the last slices that were read (`ClientInv`); as long as
the relay still takes slices for a user who stays, the wire carries just those between what the relay took and what
the client sent, in order, with `RES_END` behind the last (`Carries`, `WireInv`); the
queue continues what the user has (`RelayInv`). `Carries` is kept under a condition (`Expects`): after an
abort at either end the wire may hold anything. That `REQ_META` arrives once, at a client that has not heard of the
request (`MetaInv`), and that nothing of a request exists before it (`FreshInv`), is needed for the
first slice. The lemmas on `Carries` say what a frame read or sent does to it; those on `IsTurn`
what a turn of a `FrameWriter` does; `RelayStep` and `ClientStep` then reduce a handler to its
effect on the records of one request, `OthersKeep` does the others. The same case split shows that each step is one of
`HttpPromise` (`PromiseStep`).

The three invariants of `HttpStream` about a stream with no frame under way are about ends and
flags instead of slices. `HttpTalk` says, while both ends of the WebSocket are open, what the two records
of a request and the frames between them amount to (`TalkInv`): a live request has an entry
at the client, or its `REQ_META` is on the way, or the end of its response is; an entry has a
request at the relay, or a `REQ_ABORT` is on the way, or the relay forgot it silently; the
last `PAUSE` or `RESUME` on the way is what the relay wants, or, with none there, the writer already does it
(`LastWord`). It is inductive only with what orders the frames: `REQ_META` is the first of its request, an end is sent by a
client that drops the entry with it, and a `PAUSE` follows an answer, so that it never meets an entry without a writer, where
the client would ignore it. `RelayTalks` and `ClientTalks` keep `TalkInv` for anything a step of one side
may say (`RelaySays`, `ClientSays`); each handler is then shown to say no more than that.

`TcpDownFlowProofs` looks at the frames between two processes as one path: what `ws` waits
to write, what it is writing, and what is in the kernel (`Up`, `Down`). The end of a batch moves frames
along a path and changes nothing else (`PathWrite`, `PathWritten`,
`PathTail` in `WsSenderProofs`). `DownInv` then says of each stream: its data frames on the path carry
chunk after chunk from what arrived to what was sent (`Carries`); the frame that closes it is
its last (`EndsOnce`); the last `PAUSE` or `RESUME` on the path is what the sender wants, or, with
none there, the receiver already does it (`LastWord`, the reason why the flags in `PausesAgree` agree when the paths are
empty); `pendingSends` is the number of its data frames in both batches (`Counted`, without
which the counter might fall below zero); and `bufferedAmount` is above the mark by no more than
the number of streams that are paused for it (`Throttled`, from which `ClientBounded` follows). The frames of other
streams between those of one are the difficulty: the lemmas ending in `Other` say that they do not
matter. A batch end calls many streams back at once; the frames it sends to the client go in one of
several orders (`InCallbackOrder`), and `LastWordConcat` with `TellsFollow` shows that any of them will do.
That no client is left paused is a second invariant, `ReasonsHold`: a reason of the relay to pause a client comes with
what will end it. A socket that is throttled holds something, so that its `drain` is to come; and an agent stream alone on
its WebSocket that waits for it has `pendingDrain` set and data of its own in the batches, so that a send
callback is to come, the last of which sees the low-water mark (`AloneBuffers`: all that is buffered is its own). With other streams on the
WebSocket the last part is false, and `PausesAgree` excepts the case.

`TcpUpFlowProofs` uses the same lemmas about paths, and `UpInv` says of each stream
what `DownInv` does, with two differences. What has been sent may also be in a
`VirtualSocket` (`HandedOn`: the buffer continues the frames to the client and the agent's
frames continue the buffer), and the agent's flag need not be exact: after a flush that throttles the
stream again the last frame to the agent is the `RESUME` of the `resume()` that ran it, so `Tells` promises
only that no agent is left paused by a relay that reads. The hard part is that handlers call
each other. `RelayStates` are the states a handler passes through, and the lemmas on `Pause`, `OnData`,
`Resume` and `SyncSocketReadState` compare the state before a call with the one after:
`Follows` (the stream's chunks, its end and its flag go on), `OthersKeep` (the other streams notice
nothing), `Good` (counts, pauses and room). A loop over a buffer or over the callbacks of a batch (`FlushedEffect`,
`CalledEffect`) is proved by a least counterexample (`InductionUpTo`), with the callbacks that have not
run yet as a parameter (`Based`: `pendingSends` counts them too). `Fits` bounds `bufferedAmount` by
the room of the throttled streams (`RoomOf`): the chunks of one flush share the pause the first of them causes, so a stream
with an agent may go over the mark by a whole buffer.

Only model-checked: liveness under fairness (among it `SentArrives`, `ReadersResume` and
`PausedClientsResume` of the flow modules), which is outside what TLAPS 1.4.5 proves. Every invariant and every refinement that a
passing run checks is stated by a theorem, two of them (`JoinedAppsServed`, `ClientStreamsServed`) without idle timers only.

## Not modelled

- HTTP and TCP streams in one table. They share ids and `MAX_CONCURRENT_STREAMS`, and the handlers of one kind
  look at no entry of the other, with the exception of `RES_ABORT` (finding 1), which `TcpRelay` has.
- `HttpRouter`'s other answers (health, metrics, installer pages, authentication, path routes): stateless.
- `TcpRouter.close`, end users and listening sockets of the relay at shutdown: the process
  exits right after them.
- `createStream` failing to send `REQ_META`: it runs in the tick that found the WebSocket
  open, so only an exception of `ws` gets there.
- Flow control of a stream whose WebSocket is lost, or which is aborted by a timer, while
  paused: the end is in `TcpTunnel`, which has no pauses.
- The byte layout of frames and its length checks: frames are records. Header rewriting likewise.
- Installers, shell scripts, logging, static pages: no state of the tunnel.
- Configuration, ports, routes, tunnel ids and allow lists: strings parsed at start-up, whose results are the `CONSTANTS`.

## What could follow

Every component with state is modelled, and every invariant that is checked is proved. What is left is to join what
is modelled apart: HTTP and TCP streams in one table, and the pauses of an established stream with its loss or abort.
