------------------------------ MODULE HttpStream ------------------------------
(***************************************************************************)
(* HTTP requests through the tunnel, over one WebSocket:                   *)
(*                                                                         *)
(*   end user -> relay (HttpRouter, StreamManager) -> client -> local      *)
(*   server, and the response back.                                        *)
(*                                                                         *)
(* A request is a stream: the relay opens it with REQ_META, the body goes  *)
(* out as REQ_DATA and REQ_END, the response comes back as RES_META,       *)
(* RES_DATA and RES_END; either side may abort, and the relay pauses the   *)
(* client while the user is slow.  Each end sees the WebSocket open and    *)
(* then closed, in its own time, the relay's closing in between: no frame  *)
(* goes out any more, and what comes in before 'close' is handled still.   *)
(* Frames that arrive at an end that is closed are lost.  A client that    *)
(* reconnects does so on a new WebSocket, which shares nothing with this   *)
(* one but the stream table (see TcpRelay).                                *)
(*                                                                         *)
(* Bodies are slices of at most MAX_FRAME_PAYLOAD bytes.  Headers are left *)
(* out, except that the relay's metadata has no bodyLength.                *)
(***************************************************************************)
EXTENDS FrameWriter, FiniteSets

CONSTANTS
    Requests,
    Slices,             \* bound: slices of every response of the local server
    BodyChunks,         \* bound: chunks of a request's body
    MaxStreams,         \* MAX_CONCURRENT_STREAMS of the relay
    ClientMaxStreams,   \* MAX_CONCURRENT_STREAMS of the client
    ResHigh,            \* highWaterMark of the user's socket
    MaxDest,            \* MAX_DEST_BUFFER_BYTES
    WriterHigh          \* highWaterMark of a WsFrameWriter

ASSUME HttpAssumption ==
    /\ IsFiniteSet(Requests)
    /\ Slices \in Nat /\ BodyChunks \in Nat
    /\ MaxStreams \in Nat \ {0} /\ ClientMaxStreams \in Nat \ {0}    \* config.js: min 1
    /\ ResHigh \in Nat \ {0} /\ MaxDest \in Nat \ {0} /\ WriterHigh \in Nat \ {0}

VARIABLES
    user,       \* each request as its user sees it
    relay,      \* the relay's state object, request and response of each request
    client,     \* the client's state object of each request, and its local request
    wsRelay,    \* readyState of the WebSocket at the relay
    wsClient,   \* readyState of the WebSocket at the client
    toClient,   \* frames on their way to the client
    toRelay     \* frames on their way to the relay

vars == <<user, relay, client, wsRelay, wsClient, toClient, toRelay>>

Signals(types) == [type : types, stream : Requests]
ToClient == Signals({"REQ_META", "REQ_DATA", "REQ_END", "REQ_ABORT", "PAUSE", "RESUME"})
ResData == [type : {"RES_DATA"}, stream : Requests, slice : 1..Slices]
ToRelay == Signals({"RES_META", "RES_END", "RES_ABORT"}) \cup ResData

\* user:   body = chunks the user still has to send
\* relay:  phase "live" while the entry is in streams, then how it left: "done",
\*         "aborted", or "silent" (aborted, and the client was not told);
\*         head = the status line written, reqRead = req has emitted 'end',
\*         queue, resEnded, broken = what res holds, end(), destroy();
\*         closed = res has emitted 'close'
\* client: phase "open" while the entry is in streams, then "sent" (RES_END),
\*         "idle" (the idle timer) or "dropped";
\*         localBody and localEnded = chunks written to localReq, end() called;
\*         half and active = half of the idle period has passed, and a frame of
\*         the stream was sent since
UserView == [end : {"none", "open", "complete", "cut", "left"}, got : Seq(1..Slices),
             body : 0..BodyChunks, size : 0..BodyChunks]
RelayStream == [phase : {"none", "live", "done", "aborted", "silent"},
                head : {"none", "local", "error"}, responseStarted : BOOLEAN,
                responseEnded : BOOLEAN, responsePaused : BOOLEAN, reqRead : BOOLEAN,
                queue : Seq(1..Slices), resEnded : BOOLEAN, broken : BOOLEAN,
                closed : BOOLEAN, writer : Writers({"chunk"})]
LocalRequest == [phase : {"none", "open", "sent", "dropped", "idle"}, started : BOOLEAN,
                 read : 0..Slices, localBody : 0..BodyChunks, localEnded : BOOLEAN,
                 half : BOOLEAN, active : BOOLEAN, writer : Writers(1..Slices)]

TypeOK ==
    /\ user \in [Requests -> UserView]
    /\ relay \in [Requests -> RelayStream]
    /\ client \in [Requests -> LocalRequest]
    /\ wsRelay \in {"open", "closing", "closed"}
    /\ wsClient \in {"open", "closed"}
    /\ toClient \in Seq(ToClient)
    /\ toRelay \in Seq(ToRelay)

NewStream == [phase |-> "none", head |-> "none", responseStarted |-> FALSE,
              responseEnded |-> FALSE, responsePaused |-> FALSE, reqRead |-> FALSE,
              queue |-> <<>>, resEnded |-> FALSE, broken |-> FALSE, closed |-> FALSE,
              writer |-> NewWriter]

NewLocal == [phase |-> "none", started |-> FALSE, read |-> 0, localBody |-> 0,
             localEnded |-> FALSE, half |-> FALSE, active |-> FALSE, writer |-> NewWriter]

Init ==
    /\ user = [r \in Requests |-> [end |-> "none", got |-> <<>>, body |-> 0, size |-> 0]]
    /\ relay = [r \in Requests |-> NewStream]
    /\ client = [r \in Requests |-> NewLocal]
    /\ wsRelay = "open"
    /\ wsClient = "open"
    /\ toClient = <<>>
    /\ toRelay = <<>>

Signal(t, r) == [type |-> t, stream |-> r]

\* sendFrame: nothing is sent on a WebSocket that is not OPEN
SendFrames(ws, wire, frames) == IF ws = "open" THEN wire \o frames ELSE wire

Live(r) == relay[r].phase = "live"
Open(r) == client[r].phase = "open"

-----------------------------------------------------------------------------
(* StreamManager and HttpRouter: handlers as functions of the relay's      *)
(* record of one request.                                                  *)

\* the relay's record of r becomes s, and frames go to the client
RelayBecomes(r, s, frames) ==
    /\ relay' = [relay EXCEPT ![r] = s]
    /\ toClient' = SendFrames(wsRelay, toClient, frames)

\* cleanupStream: the entry is gone, what is left is the response; destroying a
\* request that was not read to its end destroys the user's socket
CleanupStream(s, how) ==
    IF s.phase # "live" THEN s
    ELSE [NewStream EXCEPT !.phase = how, !.head = s.head, !.queue = s.queue,
                           !.resEnded = s.resEnded, !.closed = s.closed,
                           !.broken = s.broken \/ ~s.resEnded \/ ~s.reqRead]

\* abortStream: a 502, or an end and a destroyed socket
AbortStream(s, how) ==
    LET t == IF s.phase # "live" THEN s
             ELSE IF ~s.responseStarted THEN [s EXCEPT !.head = "error", !.resEnded = TRUE]
             ELSE IF ~s.responseEnded THEN [s EXCEPT !.resEnded = TRUE, !.broken = TRUE]
             ELSE s
    IN  CleanupStream(t, how)

\* abortStream(state, reason, true); abortSent never matters, for a second call finds
\* the entry cleaned
AbortAndNotify(r, s) == RelayBecomes(r, AbortStream(s, "aborted"), <<Signal("REQ_ABORT", r)>>)

\* what a turn of the request writer leads to: 'error', 'finish' or neither
RequestWriterBecomes(r, s, o) ==
    LET t == [s EXCEPT !.writer = o.writer]
        data == [i \in 1..Len(o.sent) |-> Signal("REQ_DATA", r)]
    IN  CASE o.writer.at = "failed" -> RelayBecomes(r, AbortStream(t, "silent"), data)
          [] Finished(o.writer)     -> RelayBecomes(r, t, Append(data, Signal("REQ_END", r)))
          [] OTHER                  -> RelayBecomes(r, t, data)

Size == Cardinality({r \in Requests : Live(r)})

\* _proxyHttpRequest and createStream for a request with a body of size chunks
Ask(r) ==
    /\ user[r].end = "none" /\ wsRelay = "open" /\ Size < MaxStreams
    /\ \E size \in 0..BodyChunks :
           user' = [user EXCEPT ![r].end = "open", ![r].body = size, ![r].size = size]
    /\ RelayBecomes(r, [relay[r] EXCEPT !.phase = "live"], <<Signal("REQ_META", r)>>)
    /\ UNCHANGED <<client, wsRelay, wsClient, toRelay>>

\* 503 at the limit or without a client, and 501 for an upgrade whatever the state
Refuse(r) ==
    /\ user[r].end = "none"
    /\ user' = [user EXCEPT ![r].end = "complete"]
    /\ relay' = [relay EXCEPT ![r].head = "error"]
    /\ UNCHANGED <<client, wsRelay, wsClient, toClient, toRelay>>

\* pipeline(req, requestWriter): the next chunk of the body
BodyChunk(r) ==
    /\ Live(r) /\ user[r].end = "open" /\ user[r].body > 0
    /\ Len(relay[r].writer.queue) < WriterHigh
    /\ user' = [user EXCEPT ![r].body = @ - 1]
    /\ \E o \in Write(relay[r].writer, "chunk", wsRelay = "open") :
           RequestWriterBecomes(r, relay[r], o)
    /\ UNCHANGED <<client, wsRelay, wsClient, toRelay>>

\* 'end' of req: the pipeline ends the writer
BodyEnd(r) ==
    /\ Live(r) /\ user[r].end = "open" /\ user[r].body = 0 /\ ~relay[r].reqRead
    /\ RequestWriterBecomes(r, [relay[r] EXCEPT !.reqRead = TRUE],
                            Outcome(End(relay[r].writer), <<>>))
    /\ UNCHANGED <<user, client, wsRelay, wsClient, toRelay>>

\* waitDrain of the request writer: the drain, or after DRAIN_TIMEOUT_MS the error
RequestDrained(r) ==
    /\ Live(r) /\ relay[r].writer.at = "drain"
    /\ \E o \in Drained(relay[r].writer, wsRelay = "open")
                    \cup {Outcome(Failed(relay[r].writer), <<>>)} :
           RequestWriterBecomes(r, relay[r], o)
    /\ UNCHANGED <<user, client, wsRelay, wsClient, toRelay>>

\* RES_META: the headers may be ones that writeHead refuses
ResMeta(r, s) ==
    IF s.responseStarted THEN RelayBecomes(r, AbortStream(s, "silent"), <<>>)
    ELSE \/ RelayBecomes(r, [s EXCEPT !.responseStarted = TRUE, !.head = "local"], <<>>)
         \/ RelayBecomes(r, AbortStream(s, "silent"), <<>>)

\* mutant: a slice that makes write() return false is taken for one not written
ResDataDropped(r, s, slice) ==
    LET t == [s EXCEPT !.queue = Append(@, slice)]
        pause == Len(t.queue) >= ResHigh /\ ~s.responsePaused
    IN  IF ~s.responseStarted THEN RelayBecomes(r, AbortStream(s, "silent"), <<>>)
        ELSE IF s.responseEnded THEN RelayBecomes(r, s, <<>>)
        ELSE IF Len(s.queue) > MaxDest THEN AbortAndNotify(r, s)
        ELSE IF pause THEN RelayBecomes(r, [s EXCEPT !.responsePaused = TRUE], <<Signal("PAUSE", r)>>)
        ELSE RelayBecomes(r, t, <<>>)

\* RES_DATA: write() returns false at the high-water mark of the user's socket
ResDataFrame(r, s, slice) ==
    LET t == [s EXCEPT !.queue = Append(@, slice)]
        pause == Len(t.queue) >= ResHigh /\ ~s.responsePaused
    IN  IF ~s.responseStarted THEN RelayBecomes(r, AbortStream(s, "silent"), <<>>)
        ELSE IF s.responseEnded THEN RelayBecomes(r, s, <<>>)
        ELSE IF Len(s.queue) > MaxDest THEN AbortAndNotify(r, s)
        ELSE IF pause THEN RelayBecomes(r, [t EXCEPT !.responsePaused = TRUE], <<Signal("PAUSE", r)>>)
        ELSE RelayBecomes(r, t, <<>>)

ResEnd(r, s) ==
    IF ~s.responseStarted THEN RelayBecomes(r, AbortStream(s, "silent"), <<>>)
    ELSE RelayBecomes(r, [s EXCEPT !.responseEnded = TRUE, !.resEnded = TRUE], <<>>)

\* RES_ABORT: a 502; a response under way is only ended, and its user sees an end
ResAbort(r, s) ==
    LET t == IF ~s.responseStarted THEN [s EXCEPT !.head = "error", !.responseEnded = TRUE,
                                                  !.resEnded = TRUE]
             ELSE [s EXCEPT !.resEnded = TRUE]
    IN  RelayBecomes(r, CleanupStream(t, "aborted"), <<>>)

\* 'message', until 'close', and handleClientFrame; frames of entries that are gone
\* are ignored
RelayFrame ==
    /\ toRelay # <<>> /\ wsRelay # "closed"
    /\ toRelay' = Tail(toRelay)
    /\ LET f == Head(toRelay)  r == f.stream  s == relay[r]
       IN  \/ ~Live(r) /\ UNCHANGED <<relay, toClient>>
           \/ Live(r) /\ f.type = "RES_META" /\ ResMeta(r, s)
           \/ Live(r) /\ f.type = "RES_DATA" /\ ResDataFrame(r, s, f.slice)
           \/ Live(r) /\ f.type = "RES_END" /\ ResEnd(r, s)
           \/ Live(r) /\ f.type = "RES_ABORT" /\ ResAbort(r, s)
    /\ UNCHANGED <<user, client, wsRelay, wsClient>>

-----------------------------------------------------------------------------
(* The user's connection at the relay.                                     *)

\* mutant: 'drain' clears the relay's flag and RESUME is not sent
FlushSilently(r) ==
    LET s == relay[r]
        drain == Len(s.queue) = 1 /\ s.responsePaused /\ ~s.resEnded /\ s.phase = "live"
    IN  /\ s.queue # <<>> /\ ~s.closed
        /\ RelayBecomes(r, [s EXCEPT !.queue = Tail(@), !.responsePaused = @ /\ ~drain], <<>>)
        /\ user' = IF user[r].end = "open"
                     THEN [user EXCEPT ![r].got = Append(@, Head(s.queue))] ELSE user
        /\ UNCHANGED <<client, wsRelay, wsClient, toRelay>>

\* the kernel takes a slice; 'drain' comes when nothing is left, unless end() was called
Flush(r) ==
    LET s == relay[r]
        drain == Len(s.queue) = 1 /\ s.responsePaused /\ ~s.resEnded /\ s.phase = "live"
    IN  /\ s.queue # <<>> /\ ~s.closed
        /\ RelayBecomes(r, [s EXCEPT !.queue = Tail(@), !.responsePaused = @ /\ ~drain],
                        IF drain THEN <<Signal("RESUME", r)>> ELSE <<>>)
        /\ user' = IF user[r].end = "open"
                     THEN [user EXCEPT ![r].got = Append(@, Head(s.queue))] ELSE user
        /\ UNCHANGED <<client, wsRelay, wsClient, toRelay>>

\* 'finish' of res; what was flushed before a destroy() may have finished too
Finish(r) ==
    LET s == relay[r]
    IN  /\ s.resEnded /\ s.queue = <<>> /\ ~s.closed
        /\ s.phase = "live" \/ user[r].end = "open"
        /\ RelayBecomes(r, CleanupStream([s EXCEPT !.responseEnded = TRUE], "done"), <<>>)
        /\ user' = IF user[r].end = "open" THEN [user EXCEPT ![r].end = "complete"] ELSE user
        /\ UNCHANGED <<client, wsRelay, wsClient, toRelay>>

\* the user sees that its connection was destroyed
Cut(r) ==
    /\ relay[r].broken /\ user[r].end = "open"
    /\ user' = [user EXCEPT ![r].end = "cut"]
    /\ relay' = [relay EXCEPT ![r].queue = <<>>, ![r].closed = TRUE]
    /\ UNCHANGED <<client, wsRelay, wsClient, toClient, toRelay>>

\* the user disconnects
Leave(r) ==
    /\ user[r].end = "open"
    /\ user' = [user EXCEPT ![r].end = "left"]
    /\ UNCHANGED <<relay, client, wsRelay, wsClient, toClient, toRelay>>

\* mutant: the client is not told
UserClosedSilently(r) ==
    LET s == [relay[r] EXCEPT !.closed = TRUE, !.queue = <<>>, !.broken = TRUE]
    IN  /\ Live(r) /\ user[r].end = "left" /\ ~relay[r].closed
        /\ \/ RelayBecomes(r, AbortStream(s, "aborted"), <<>>)
           \/ s.responseEnded /\ s.reqRead /\ RelayBecomes(r, s, <<>>)
        /\ UNCHANGED <<user, client, wsRelay, wsClient, toRelay>>

\* 'close' of the user's socket: 'error' of req unless it was read to its end, 'close'
\* of res; after RES_END the entry goes if 'finish' comes too, and stays if it does not
UserClosed(r) ==
    LET s == [relay[r] EXCEPT !.closed = TRUE, !.queue = <<>>, !.broken = TRUE]
    IN  /\ Live(r) /\ user[r].end = "left" /\ ~relay[r].closed
        /\ IF ~s.reqRead \/ ~s.responseEnded THEN AbortAndNotify(r, s)
           ELSE \/ RelayBecomes(r, CleanupStream(s, "done"), <<>>)
                \/ RelayBecomes(r, s, <<>>)
        /\ UNCHANGED <<user, client, wsRelay, wsClient, toRelay>>

\* STREAM_IDLE_TIMEOUT_MS without a frame from the client
RelayIdle(r) ==
    /\ Live(r)
    /\ AbortAndNotify(r, relay[r])
    /\ UNCHANGED <<user, client, wsRelay, wsClient, toRelay>>

-----------------------------------------------------------------------------
(* Client process: handlers as functions of its record of one request.     *)

\* cleanupStream: the entry is gone
Drop(how) == [NewLocal EXCEPT !.phase = how]

\* the client's record of r becomes c, and frames go to the relay
ClientBecomes(r, c, frames) ==
    LET busy == c.half /\ frames # <<>> /\ c.phase = "open"
    IN  /\ client' = [client EXCEPT ![r] = [c EXCEPT !.active = @ \/ busy]]
        /\ toRelay' = SendFrames(wsClient, toRelay, frames)

\* mutant: the frame type of the other direction
SendReqAbort(r) == ClientBecomes(r, Drop("dropped"), <<Signal("REQ_ABORT", r)>>)

SendResAbort(r) == ClientBecomes(r, Drop("dropped"), <<Signal("RES_ABORT", r)>>)

\* the RES_DATA frames of these slices
DataFrames(r, slices) ==
    [i \in 1..Len(slices) |-> [type |-> "RES_DATA", stream |-> r, slice |-> slices[i]]]

\* mutant: an error of the response writer drops the entry and tells nobody
ResponseWriterSilent(r, c, o) ==
    LET d == [c EXCEPT !.writer = o.writer]
        data == DataFrames(r, o.sent)
    IN  CASE o.writer.at = "failed" -> ClientBecomes(r, Drop("dropped"), data)
          [] Finished(o.writer)     -> ClientBecomes(r, Drop("sent"),
                                                     Append(data, Signal("RES_END", r)))
          [] OTHER                  -> ClientBecomes(r, d, data)

\* what a turn of the response writer leads to: 'error', 'finish' or neither
ResponseWriterBecomes(r, c, o) ==
    LET d == [c EXCEPT !.writer = o.writer]
        data == DataFrames(r, o.sent)
    IN  CASE o.writer.at = "failed" -> ClientBecomes(r, Drop("dropped"),
                                                     Append(data, Signal("RES_ABORT", r)))
          [] Finished(o.writer)     -> ClientBecomes(r, Drop("sent"),
                                                     Append(data, Signal("RES_END", r)))
          [] OTHER                  -> ClientBecomes(r, d, data)

\* HttpRouter's metadata is the method, the URL and the headers
MetaHasBodyLength == FALSE

\* handleReqMeta: the local request is ended at once unless a body is announced
ReqMeta(r) ==
    IF Cardinality({q \in Requests : Open(q)}) >= ClientMaxStreams
      THEN ClientBecomes(r, client[r], <<Signal("RES_ABORT", r)>>)
      ELSE ClientBecomes(r, [client[r] EXCEPT !.phase = "open",
                                              !.localEnded = ~MetaHasBodyLength], <<>>)

\* handleReqData: a write after end() is an 'error' of localReq; once the local
\* response has ended localReq may be destroyed, and the write is nothing
ReqData(r, c) ==
    IF ~c.localEnded THEN ClientBecomes(r, [c EXCEPT !.localBody = @ + 1], <<>>)
    ELSE \/ SendResAbort(r)
         \/ c.writer.ended /\ ClientBecomes(r, c, <<>>)

\* handleServerFrame; every frame of an open stream restarts its idle timer
ClientFrame ==
    /\ toClient # <<>> /\ wsClient = "open"
    /\ toClient' = Tail(toClient)
    /\ LET f == Head(toClient)  r == f.stream
           c == [client[r] EXCEPT !.half = FALSE, !.active = FALSE]
       IN  \/ f.type = "REQ_META" /\ ReqMeta(r)
           \/ f.type # "REQ_META" /\ ~Open(r) /\ UNCHANGED <<client, toRelay>>
           \/ f.type = "REQ_DATA" /\ Open(r) /\ ReqData(r, c)
           \/ f.type = "REQ_END" /\ Open(r)
                  /\ ClientBecomes(r, [c EXCEPT !.localEnded = TRUE], <<>>)
           \/ f.type = "REQ_ABORT" /\ Open(r) /\ ClientBecomes(r, Drop("dropped"), <<>>)
           \/ f.type \in {"PAUSE", "RESUME"} /\ Open(r) /\ ~c.started /\ ClientBecomes(r, c, <<>>)
           \/ f.type \in {"PAUSE", "RESUME"} /\ Open(r) /\ c.started
                  /\ \E o \in SetPeerPaused(c.writer, f.type = "PAUSE", TRUE) :
                         ResponseWriterBecomes(r, c, o)
    /\ UNCHANGED <<user, relay, wsRelay, wsClient>>

\* the local server answers
LocalResponse(r) ==
    /\ Open(r) /\ client[r].localEnded /\ ~client[r].started
    /\ ClientBecomes(r, [client[r] EXCEPT !.started = TRUE], <<Signal("RES_META", r)>>)
    /\ UNCHANGED <<user, relay, wsRelay, wsClient, toClient>>

\* pipeline(localRes, responseWriter): the next slice
LocalData(r) ==
    LET c == client[r]
    IN  /\ Open(r) /\ c.started /\ c.read < Slices /\ Len(c.writer.queue) < WriterHigh
        /\ \E o \in Write(c.writer, c.read + 1, wsClient = "open") :
               ResponseWriterBecomes(r, [c EXCEPT !.read = @ + 1], o)
        /\ UNCHANGED <<user, relay, wsRelay, wsClient, toClient>>

\* mutant: RES_END when the local response ends, whatever the writer holds
LocalEndAtOnce(r) ==
    LET c == client[r]
    IN  /\ Open(r) /\ c.started /\ c.read = Slices /\ ~c.writer.ended
        /\ ClientBecomes(r, Drop("sent"), <<Signal("RES_END", r)>>)
        /\ UNCHANGED <<user, relay, wsRelay, wsClient, toClient>>

\* 'end' of localRes: the pipeline ends the writer
LocalEnd(r) ==
    LET c == client[r]
    IN  /\ Open(r) /\ c.started /\ c.read = Slices /\ ~c.writer.ended
        /\ ResponseWriterBecomes(r, c, Outcome(End(c.writer), <<>>))
        /\ UNCHANGED <<user, relay, wsRelay, wsClient, toClient>>

\* 'error' or 'timeout' of localReq, an error of localRes before its end, or
\* an exception in handleReqMeta
LocalFails(r) ==
    /\ Open(r) /\ ~client[r].writer.ended
    /\ SendResAbort(r)
    /\ UNCHANGED <<user, relay, wsRelay, wsClient, toClient>>

\* waitDrain of the response writer: the drain, or after DRAIN_TIMEOUT_MS the error
ResponseDrained(r) ==
    LET c == client[r]
    IN  /\ Open(r) /\ c.writer.at = "drain"
        /\ \E o \in Drained(c.writer, wsClient = "open") \cup {Outcome(Failed(c.writer), <<>>)} :
               ResponseWriterBecomes(r, c, o)
        /\ UNCHANGED <<user, relay, wsRelay, wsClient, toClient>>

\* half of STREAM_IDLE_TIMEOUT_MS has passed since the timer was set
HalfIdle(r) ==
    /\ Open(r) /\ ~client[r].half
    /\ client' = [client EXCEPT ![r].half = TRUE]
    /\ UNCHANGED <<user, relay, wsRelay, wsClient, toClient, toRelay>>

\* the idle timer of the client's entry
ClientIdle(r) ==
    /\ Open(r) /\ client[r].half
    /\ ClientBecomes(r, Drop("idle"), <<Signal("RES_ABORT", r)>>)
    /\ UNCHANGED <<user, relay, wsRelay, wsClient, toClient>>

-----------------------------------------------------------------------------
(* The WebSocket.                                                          *)

\* the relay's end starts to close: a lost connection, a close frame or terminate()
RelayClosing ==
    /\ wsRelay = "open" /\ wsRelay' = "closing"
    /\ UNCHANGED <<user, relay, client, wsClient, toClient, toRelay>>

\* mutant: only the streams that have not answered are aborted
RelayClosedHalf ==
    /\ wsRelay = "closing" /\ wsRelay' = "closed" /\ toRelay' = <<>>
    /\ relay' = [r \in Requests |-> IF relay[r].responseStarted THEN relay[r]
                                    ELSE AbortStream(relay[r], "aborted")]
    /\ UNCHANGED <<user, client, wsClient, toClient>>

\* 'close' at the relay: cleanupClient; what was still to be read is lost
RelayClosed ==
    /\ wsRelay = "closing" /\ wsRelay' = "closed" /\ toRelay' = <<>>
    /\ relay' = [r \in Requests |-> AbortStream(relay[r], "aborted")]
    /\ UNCHANGED <<user, client, wsClient, toClient>>

\* 'close' at the client: cleanupAllStreams; while it was CLOSING its sends failed, and
\* all that it did then ends here with the entries: that time is left out
ClientClosed ==
    /\ wsClient = "open" /\ wsClient' = "closed" /\ toClient' = <<>>
    /\ client' = [r \in Requests |-> IF Open(r) THEN Drop("dropped") ELSE client[r]]
    /\ UNCHANGED <<user, relay, wsRelay, toRelay>>

-----------------------------------------------------------------------------
RequestStep(r) ==
    \/ Ask(r) \/ Refuse(r) \/ BodyChunk(r) \/ BodyEnd(r) \/ RequestDrained(r)
    \/ Flush(r) \/ Finish(r) \/ Cut(r) \/ Leave(r) \/ UserClosed(r) \/ RelayIdle(r)
    \/ LocalResponse(r) \/ LocalData(r) \/ LocalEnd(r) \/ LocalFails(r)
    \/ ResponseDrained(r) \/ HalfIdle(r) \/ ClientIdle(r)

Next ==
    \/ \E r \in Requests : RequestStep(r)
    \/ RelayFrame \/ ClientFrame
    \/ RelayClosing \/ RelayClosed \/ ClientClosed

\* Frames are read.  The user sends its request and reads the answer, or leaves, and
\* the relay sees that.  The local server answers or fails.  A full WebSocket drains,
\* or the wait for it ends.  When one end closes so does the other.  Not in here: the
\* idle timers, which STREAM_IDLE_TIMEOUT_MS = 0 turns off, what the user decides,
\* and the loss of the connection.
Progress ==
    \/ RelayFrame \/ ClientFrame \/ RelayClosed
    \/ RelayClosing /\ wsClient # "open"
    \/ ClientClosed /\ wsRelay # "open"
    \/ \E r \in Requests :
          \/ BodyChunk(r) \/ BodyEnd(r) \/ RequestDrained(r)
          \/ Flush(r) \/ Finish(r) \/ Cut(r) \/ UserClosed(r)
          \/ LocalResponse(r) \/ LocalData(r) \/ LocalEnd(r) \/ LocalFails(r)
          \/ ResponseDrained(r)

\* No behaviour goes on for ever, so that fairness to these actions together is
\* fairness to each of them
Fairness == WF_vars(Progress)

Spec == Init /\ [][Next]_vars /\ Fairness

-----------------------------------------------------------------------------
(* Properties.                                                             *)

\* What the user is promised holds whatever the two ends, the WebSocket and the
\* timers do: one status line, the local server's body in order and without gaps,
\* nothing after the end.
Promise == INSTANCE HttpPromise WITH
    status <- [r \in Requests |-> relay[r].head],
    got <- [r \in Requests |-> user[r].got],
    end <- [r \in Requests |-> user[r].end]
ImplementsPromise == Promise!Spec

\* A response of the local server that came to its end without an abort is whole: the
\* end is never sent, or acted on, before the last slice.
CompleteIsWhole ==
    \A r \in Requests :
        user[r].end = "complete" /\ relay[r].phase = "done" => Len(user[r].got) = Slices

InFlight(r) == {i \in 1..Len(toClient) : toClient[i].stream = r} # {}
               \/ {i \in 1..Len(toRelay) : toRelay[i].stream = r} # {}
Settled(r) == wsRelay = "open" /\ wsClient = "open" /\ ~InFlight(r)

\* No user waits for nobody: with no frame of a stream under way, a request whose
\* response has not ended at the relay has an entry at the client.
UsersServed ==
    \A r \in Requests : Settled(r) /\ Live(r) /\ ~relay[r].responseEnded => Open(r)

\* No local request works for nobody: with no frame under way, an entry at the client
\* has one at the relay, unless the relay aborted the stream without telling the
\* client (an error of the request writer, or headers that it refuses).
LocalRequestsOwned ==
    \A r \in Requests : Settled(r) /\ Open(r) => relay[r].phase \in {"live", "silent"}

\* Pause and resume agree: with no frame under way the client's writer is paused just
\* when the relay waits for the user's socket to drain.
PausesAgree ==
    \A r \in Requests :
        Settled(r) /\ Live(r) /\ Open(r) /\ client[r].started
        => client[r].writer.paused = relay[r].responsePaused

\* In the end nobody waits: every user that stays has an answer with an end; every
\* entry has left the relay's table, unless the user left between RES_END and 'finish'
\* (that one is left to the idle timer); every local request is released, unless the
\* relay dropped the stream silently.
NobodyWaits ==
    <>[] \A r \in Requests :
            /\ user[r].end # "open"
            /\ Live(r) => relay[r].closed /\ relay[r].responseEnded
            /\ Open(r) => relay[r].phase = "silent"

\* HttpRouter and the client's header comment say that requests are forwarded: a local
\* request that is ended has the whole body of the user's request.
RequestForwarded ==
    \A r \in Requests : Open(r) /\ client[r].localEnded => client[r].localBody = user[r].size

\* The idle timeout is for idle streams: when it fires at the client, the stream has
\* sent no frame for at least half of the period.
IdleMeansIdle ==
    [][\A r \in Requests : Open(r) /\ client'[r].phase = "idle" => ~client[r].active]_vars
=============================================================================
