--------------------------- MODULE TunnelPromise ---------------------------
(***************************************************************************)
(* What the tunnel promises an application that connects to one of an      *)
(* agent's local ports, whatever happens to WebSockets and frames: it is   *)
(* joined to at most one service connection, only after that connection    *)
(* exists (the deferred TCP_CONNECT_ACK of docs/tcp-tunnel.md), and what   *)
(* has ended never starts again.  TcpTunnel implements it.                 *)
(***************************************************************************)
CONSTANT Conns

VARIABLES
    app,        \* the application's socket
    service     \* the socket to the service

Init ==
    /\ app = [c \in Conns |-> "none"]
    /\ service = [c \in Conns |-> "none"]

\* accepted by the listener, or closed at once
AppArrives(c) == app[c] = "none" /\ app'[c] \in {"waiting", "left"}

\* rejected, or ended by the application or a lost WebSocket, before it is joined
AppLeaves(c) == app[c] = "waiting" /\ app'[c] = "left"

AppJoins(c) ==
    /\ app[c] = "waiting" /\ app'[c] = "joined"
    /\ service[c] \in {"open", "closed"} /\ service'[c] = service[c]

AppEnds(c) == app[c] = "joined" /\ app'[c] = "closed"

AppStep(c) ==
    \/ app'[c] = app[c]
    \/ AppArrives(c) \/ AppLeaves(c) \/ AppJoins(c) \/ AppEnds(c)

\* the service is dialled once, and only for a connection that was asked for
ServiceStep(c) ==
    \/ service'[c] = service[c]
    \/ service[c] = "none" /\ service'[c] = "dialing" /\ app[c] # "joined"
    \/ service[c] = "dialing" /\ service'[c] \in {"open", "closed"}
    \/ service[c] = "open" /\ service'[c] = "closed"

\* one event may end many connections at once (a WebSocket that closes)
Next ==
    /\ app' \in [Conns -> {"none", "waiting", "joined", "left", "closed"}]
    /\ service' \in [Conns -> {"none", "dialing", "open", "closed"}]
    /\ \A c \in Conns : AppStep(c) /\ ServiceStep(c)

Spec == Init /\ [][Next]_<<app, service>>
=============================================================================
