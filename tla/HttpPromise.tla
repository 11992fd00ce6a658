----------------------------- MODULE HttpPromise -----------------------------
(***************************************************************************)
(* What the end user of the HTTP tunnel is promised about each request:    *)
(* at most one status line, either the local server's or an error of the   *)
(* tunnel; the local server's body in order, nothing twice and nothing     *)
(* left out in between; one end, and nothing after it.  A response that is *)
(* complete has a status line.                                             *)
(***************************************************************************)
EXTENDS Naturals, Sequences

CONSTANTS Requests, Slices

VARIABLES
    status,     \* "none", "local" (the local server's) or "error" (the tunnel's)
    got,        \* the slices of the local server's body the user received
    end         \* "none" (not asked), "open", "complete", "cut" or "left"

Init ==
    /\ status = [r \in Requests |-> "none"]
    /\ got = [r \in Requests |-> <<>>]
    /\ end = [r \in Requests |-> "none"]

\* the steps of one request; one event may answer or end several requests at once
Ask(r) == end[r] = "none" /\ end'[r] = "open" /\ UNCHANGED <<status[r], got[r]>>

Answer(r) ==
    /\ status[r] = "none" /\ end[r] # "none"
    /\ status'[r] \in {"local", "error"}
    /\ UNCHANGED <<got[r], end[r]>>

Receive(r) ==
    /\ status[r] = "local" /\ end[r] = "open" /\ Len(got[r]) < Slices
    /\ got'[r] = Append(got[r], Len(got[r]) + 1)
    /\ UNCHANGED <<status[r], end[r]>>

End(r) ==
    /\ end[r] = "open"
    /\ end'[r] \in {"complete", "cut", "left"}
    /\ end'[r] = "complete" => status[r] # "none"
    /\ UNCHANGED <<status[r], got[r]>>

\* a request refused at once
Refuse(r) ==
    /\ end[r] = "none" /\ status[r] = "none"
    /\ status'[r] = "error" /\ end'[r] = "complete"
    /\ UNCHANGED got[r]

Unchanged(r) == UNCHANGED <<status[r], got[r], end[r]>>

Step(r) == Ask(r) \/ Answer(r) \/ Receive(r) \/ End(r) \/ Refuse(r) \/ Unchanged(r)
Next == \A r \in Requests : Step(r)

Spec == Init /\ [][Next]_<<status, got, end>>
=============================================================================
