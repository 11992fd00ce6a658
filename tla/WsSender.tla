------------------------------ MODULE WsSender ------------------------------
(***************************************************************************)
(* The sending side of one WebSocket as the code sees it: what Node's      *)
(* stream writer holds for the `ws` library.  The writer hands a batch to  *)
(* the kernel and collects what is written meanwhile into the next batch;  *)
(* when a batch is done the send callbacks of its frames run, in order, in *)
(* one go.  bufferedAmount is what is in both batches.                     *)
(***************************************************************************)
EXTENDS Integers, Sequences, FiniteSets

Idle == [sending |-> <<>>, waiting |-> <<>>]

Write(out, f) ==
    IF out.sending = <<>> THEN [out EXCEPT !.sending = <<f>>]
                          ELSE [out EXCEPT !.waiting = Append(@, f)]

\* the batch in hand is done: out.sending goes to the kernel
Written(out) == [sending |-> out.waiting, waiting |-> <<>>]

\* the places of the data frames in a sequence of frames
IsData(f) == f.type = "TCP_DATA"
DataIn(frames) == {i \in 1..Len(frames) : IsData(frames[i])}
DataOf(frames, s) == {i \in DataIn(frames) : frames[i].stream = s}

\* in chunks: a control frame is some bytes and counts for nothing
BufferedAmount(out) == Cardinality(DataIn(out.sending)) + Cardinality(DataIn(out.waiting))

Data(s, n)    == [type |-> "TCP_DATA", stream |-> s, chunk |-> n]
Control(t, s) == [type |-> t, stream |-> s]
=============================================================================
