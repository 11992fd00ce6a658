-------------------------------- MODULE Pipe --------------------------------
(***************************************************************************)
(* What a stream promises of its data in one direction, "a TCP byte        *)
(* stream" (docs/use-case-tcp.md): chunks come out in the order they went  *)
(* in, none twice and none left out.  Nothing is said of the last ones: a  *)
(* stream may end early.                                                   *)
(***************************************************************************)
EXTENDS Naturals, Sequences

CONSTANT Streams

VARIABLES
    sent,   \* how many chunks went in
    got     \* the chunks that came out

Init == sent = [s \in Streams |-> 0] /\ got = [s \in Streams |-> <<>>]

Send(s) == sent' = [sent EXCEPT ![s] = @ + 1] /\ UNCHANGED got

Deliver(s) ==
    /\ Len(got[s]) < sent[s]
    /\ got' = [got EXCEPT ![s] = Append(@, Len(@) + 1)]
    /\ UNCHANGED sent

Next == \E s \in Streams : Send(s) \/ Deliver(s)

Spec == Init /\ [][Next]_<<sent, got>>
=============================================================================
