----------------------------- MODULE FrameWriter -----------------------------
(***************************************************************************)
(* WsFrameWriter: the Writable that turns one HTTP body into DATA frames.  *)
(* A writer is a record: queue is what it holds, in slices of at most      *)
(* MAX_FRAME_PAYLOAD; at is where its write stands: "idle", waiting for    *)
(* the WebSocket's 'drain' ("drain"), put aside because the peer paused it *)
(* ("held"), or ended by an error ("failed").  destroy() is the end of the *)
(* stream it belongs to, and the record goes with that.                    *)
(*                                                                         *)
(* Whether bufferedAmount is above WS_HIGH_WATER depends on every stream   *)
(* of the WebSocket, so a turn may stop for a drain before any slice.  A   *)
(* turn is a set of outcomes: the writer after it and the slices it sent.  *)
(* A waiter whose writer was destroyed meanwhile sends nothing; it is left *)
(* out.                                                                    *)
(***************************************************************************)
EXTENDS Naturals, Sequences

NewWriter == [queue |-> <<>>, at |-> "idle", paused |-> FALSE, ended |-> FALSE]

Writers(Slice) == [queue : Seq(Slice), at : {"idle", "drain", "held", "failed"},
                   paused : BOOLEAN, ended : BOOLEAN]

\* 'finish': end() was called and every chunk has been called back
Finished(w) == w.ended /\ w.queue = <<>> /\ w.at = "idle"

\* callback(err): the stream machinery destroys the writer and emits 'error'
Failed(w) == [w EXCEPT !.queue = <<>>, !.at = "failed"]

Outcome(w, slices) == [writer |-> w, sent |-> slices]

\* a turn of _write and _sendChunk that sends at least "least" slices if it
\* sends any: one that has waited for the drain does not look at the buffer again
Pump(w, least, open) ==
    IF w.queue = <<>> THEN {Outcome([w EXCEPT !.at = "idle"], <<>>)}
    ELSE IF w.paused THEN {Outcome([w EXCEPT !.at = "held"], <<>>)}
    ELSE IF ~open THEN {Outcome(Failed(w), <<>>)}
    ELSE {Outcome([w EXCEPT !.queue = SubSeq(@, n + 1, Len(@)),
                            !.at = IF n = Len(w.queue) THEN "idle" ELSE "drain"],
                  SubSeq(w.queue, 1, n)) : n \in least..Len(w.queue)}

\* write(): a chunk waits for the one before it
Write(w, slice, open) ==
    LET v == [w EXCEPT !.queue = Append(@, slice)]
    IN  IF w.at = "idle" THEN Pump(v, 0, open) ELSE {Outcome(v, <<>>)}

\* end()
End(w) == [w EXCEPT !.ended = TRUE]

\* the 'drain' event, or its timeout
Drained(w, open) == Pump(w, 1, open)

\* setPeerPaused: only a chunk that was put aside is taken up again
SetPeerPaused(w, paused, open) ==
    LET v == [w EXCEPT !.paused = paused]
    IN  IF ~paused /\ w.at = "held" THEN Pump(v, 0, open) ELSE {Outcome(v, <<>>)}
=============================================================================
