----------------------------- MODULE MCTcpRelay -----------------------------
(* TcpRelay on a small instance.  The relay never reads the frames it has  *)
(* sent, so its peers may as well read them at once: the next event comes  *)
(* when no frame is left unread.                                           *)
EXTENDS TcpRelay, TLC

CONSTANT MaxWebSockets      \* bound: WebSockets ever opened, of clients and agents

AllRead ==
    /\ \A k \in Clients : toClient[k] = <<>>
    /\ \A a \in Agents : toAgent[a] = <<>>

MCNext ==
    \/ \E k \in Clients : ReceivedByClient(k)
    \/ \E a \in Agents : ReceivedByAgent(a)
    \/ \E k \in Clients : AllRead /\ ClientEvent(k)
    \/ \E a \in Agents : AllRead /\ AgentEvent(a)
    \/ \E c \in Conns : AllRead /\ ConnEvent(c)

MCSpec == RelayInit /\ [][MCNext]_relayVars

FewWebSockets ==
    Cardinality({k \in Clients : wsClient[k] # "none"})
    + Cardinality({a \in Agents : wsAgent[a] # "none"}) <= MaxWebSockets

Symmetry == Permutations(Conns) \cup Permutations(Clients) \cup Permutations(Agents)
=============================================================================
