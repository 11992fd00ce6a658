---------------------------- MODULE MCTcpTunnel ----------------------------
(* TcpTunnel on small instances.                                           *)
EXTENDS TcpTunnel, TLC

CONSTANT MaxInFlight    \* bound: frames on the WebSockets at any time

MCRoutes == {<<22, NoTunnelId>>}

InFlight ==
    SumFunction([a \in Agents |-> Len(toAgent[a]) + Len(fromAgent[a])])
    + SumFunction([k \in Clients |-> Len(toClient[k]) + Len(fromClient[k])])

FewInFlight == InFlight <= MaxInFlight

Symmetry == Permutations(Conns) \cup Permutations(Clients) \cup Permutations(Agents)
=============================================================================
