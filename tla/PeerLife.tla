------------------------------ MODULE PeerLife -------------------------------
(***************************************************************************)
(* The life of one peer of the relay, a tunnel client or a TCP agent: its  *)
(* process, its WebSocket and reconnects, its ready file, and what the     *)
(* relay knows of it: registration, heartbeat, shutdown.                   *)
(*                                                                         *)
(* A peer has one WebSocket at a time, but the relay may still hold        *)
(* earlier ones whose loss it has not noticed.  Connections are numbered,  *)
(* and a number is used again when both ends are done with it.  What goes  *)
(* wrong (a crash, a signal, a lost connection, a failed handshake, a      *)
(* rejected login, a listener's error, the relay's end) is counted in      *)
(* faults and bounded by MaxFaults.                                        *)
(***************************************************************************)
EXTENDS Naturals, FiniteSets

CONSTANTS
    Conns,              \* numbers of connections
    Listeners,          \* the local ports of the agent
    MaxTunnelClients,   \* MAX_TUNNEL_CLIENTS
    MaxFaults           \* bound: things that go wrong

ASSUME LifeAssumption ==
    /\ Conns \subseteq Nat \ {0} /\ Conns # {} /\ IsFiniteSet(Conns)
    /\ IsFiniteSet(Listeners)
    /\ MaxTunnelClients \in Nat \ {0}    \* config.js: min 1
    /\ MaxFaults \in Nat

VARIABLES
    kind,       \* "client" or "agent"
    named,      \* the client has a TUNNEL_ID
    proc,       \* the process
    listening,  \* the ports whose listener has emitted 'listening'
    cur,        \* the connection that the process's ws is, or was; 0 for none
    conn,       \* each connection, as its two ends see it
    reg,        \* the connections the relay has registered
    file,       \* the ready file: "none", "live" (the pid of the process) or "stale"
    relay,      \* the relay's process: "up", "closing" or "down"
    faults

vars == <<kind, named, proc, listening, cur, conn, reg, file, relay, faults>>

\* proc: state "stopping" after shutdown(), timer = a reconnect is scheduled,
\*       ready = the agent's flag
\* conn: process and relay = readyState at the two ends ("none": no WebSocket),
\*       link "dead": nothing passes any more and neither end is told,
\*       isAlive = the relay's heartbeat flag
Process == [state : {"down", "up", "stopping"}, authFailed : BOOLEAN, timer : BOOLEAN,
            ready : BOOLEAN]
Connection == [process : {"connecting", "open", "closing", "closed"},
               relay : {"none", "open", "closing", "closed"},
               link : {"up", "dead"}, isAlive : BOOLEAN]

TypeOK ==
    /\ kind \in {"client", "agent"}
    /\ named \in BOOLEAN
    /\ proc \in Process
    /\ listening \subseteq Listeners
    /\ cur \in Conns \cup {0}
    /\ conn \in [Conns -> Connection]
    /\ reg \subseteq Conns
    /\ file \in {"none", "live", "stale"}
    /\ relay \in {"up", "closing", "down"}
    /\ faults \in 0..MaxFaults

NewProcess == [state |-> "up", authFailed |-> FALSE, timer |-> FALSE, ready |-> FALSE]
NoConn == [process |-> "closed", relay |-> "none", link |-> "up", isAlive |-> FALSE]

Init ==
    /\ kind \in {"client", "agent"}
    /\ named \in BOOLEAN /\ (named => kind = "client")
    /\ proc = [NewProcess EXCEPT !.state = "down"]
    /\ listening = {}
    /\ cur = 0
    /\ conn = [c \in Conns |-> NoConn]
    /\ reg = {}
    /\ file = "none"
    /\ relay = "up"
    /\ faults = 0

Fault == faults < MaxFaults /\ faults' = faults + 1

\* wsReady(), for the process's own ws
WsReady(k) == cur # 0 /\ k[cur].process = "open"

-----------------------------------------------------------------------------
(* The process.                                                            *)

\* numbers that neither end uses
Free == {c \in Conns : c # cur /\ conn[c].process = "closed" /\ conn[c].relay \in {"none", "closed"}}
SomeFree == CHOOSE c \in Free : TRUE

\* connect(): the old ws is closed already; a relay that is not up takes no connection
Connect ==
    /\ Free # {}
    /\ cur' = SomeFree
    /\ conn' = [conn EXCEPT ![SomeFree] =
                   [process |-> "connecting", relay |-> "none",
                    link |-> IF relay = "up" THEN "up" ELSE "dead", isAlive |-> FALSE]]

\* the installer removes the ready file and starts the process, which opens its
\* listeners and connects
Start ==
    /\ proc.state = "down"
    /\ proc' = NewProcess
    /\ listening' = {}
    /\ file' = "none"
    /\ Connect
    /\ UNCHANGED <<kind, named, reg, relay, faults>>

\* mutant: a listener that comes up is enough
MarkReadyUnchecked(k, ls) ==
    IF kind = "agent" /\ ~proc.ready /\ proc.state = "up"
      THEN [ready |-> TRUE, file |-> "live"]
      ELSE [ready |-> proc.ready, file |-> file]

\* markReadyIfEligible, when the connections are k and the listening ports ls
MarkReadyIfEligible(k, ls) ==
    IF kind = "agent" /\ ~proc.ready /\ proc.state = "up" /\ WsReady(k) /\ ls = Listeners
      THEN [ready |-> TRUE, file |-> "live"]
      ELSE [ready |-> proc.ready, file |-> file]

\* 'open': the client writes its ready file, the agent if its listeners are up
Opened(c) ==
    /\ c = cur /\ conn[c].process = "connecting"
    /\ conn[c].relay # "none" /\ conn[c].link = "up"
    /\ conn' = [conn EXCEPT ![c].process = "open"]
    /\ LET m == MarkReadyIfEligible(conn', listening)
       IN  /\ proc' = [proc EXCEPT !.authFailed = FALSE, !.ready = m.ready]
           /\ file' = IF kind = "client" THEN "live" ELSE m.file
    /\ UNCHANGED <<kind, named, listening, cur, reg, relay, faults>>

\* mutant: a reconnect is scheduled in any case
ScheduleReconnectAlways(p) == [p EXCEPT !.timer = TRUE]

ScheduleReconnect(p) == IF ~p.authFailed /\ p.state = "up" THEN [p EXCEPT !.timer = TRUE] ELSE p

\* 'close' of the process's ws, after which p is the process with its flags
CloseEvent(c, p) ==
    /\ conn' = [conn EXCEPT ![c].process = "closed"]
    /\ proc' = ScheduleReconnect([p EXCEPT !.ready = FALSE])
    /\ file' = "none"

\* the handshake ends with a network error, a timeout or another answer than 101
HandshakeFails(c) ==
    /\ conn[c].process = "connecting"
    /\ \/ /\ \/ conn[c].link = "dead" \/ conn[c].relay = "closed"
             \/ relay # "up" /\ conn[c].relay = "none"
          /\ UNCHANGED faults
       \/ Fault
    /\ CloseEvent(c, proc)
    /\ UNCHANGED <<kind, named, listening, cur, reg, relay>>

\* the relay answers 401: 'error', then 'close'
AuthFails(c) ==
    /\ conn[c].process = "connecting" /\ conn[c].relay = "none"
    /\ conn[c].link = "up" /\ relay # "down" /\ Fault
    /\ CloseEvent(c, [proc EXCEPT !.authFailed = TRUE])
    /\ UNCHANGED <<kind, named, listening, cur, reg, relay>>

\* the relay's end of the connection is gone, and the process can see it
HungUp(c) ==
    /\ conn[c].process \in {"open", "closing"}
    /\ conn[c].link = "up" /\ conn[c].relay \in {"closing", "closed"}
    /\ CloseEvent(c, proc)
    /\ UNCHANGED <<kind, named, listening, cur, reg, relay, faults>>

\* on a dead link something that was sent is not acknowledged for too long: the client
\* pings; the agent sends nothing of its own, but an application may make it
LinkTimesOut(c) ==
    /\ conn[c].process \in {"open", "closing"} /\ conn[c].link = "dead"
    /\ CloseEvent(c, proc)
    /\ UNCHANGED <<kind, named, listening, cur, reg, relay, faults>>

ReconnectTimer ==
    /\ proc.state = "up" /\ proc.timer
    /\ proc' = [proc EXCEPT !.timer = FALSE]
    /\ Connect
    /\ UNCHANGED <<kind, named, listening, reg, file, relay, faults>>

\* shutdown(): ws.close() of a connection that is being made gives it up
Shutdown(k) ==
    /\ proc' = [proc EXCEPT !.state = "stopping", !.ready = FALSE, !.timer = FALSE]
    /\ listening' = {}
    /\ file' = "none"
    /\ conn' = [c \in Conns |-> [k[c] EXCEPT !.process =
                   IF @ = "open" THEN "closing" ELSE IF @ = "connecting" THEN "closed" ELSE @]]

\* SIGTERM or SIGINT
Sigterm ==
    /\ proc.state = "up" /\ Fault
    /\ Shutdown(conn)
    /\ UNCHANGED <<kind, named, cur, reg, relay>>

\* mutant: the target's port is noted instead of the local one
ListeningTarget(l) ==
    /\ kind = "agent" /\ proc.state = "up" /\ l \notin listening
    /\ listening' = listening \cup {<<"target of", l>>}
    /\ UNCHANGED <<kind, named, proc, cur, conn, reg, file, relay, faults>>

\* a listener of the agent comes up
Listening(l) ==
    /\ kind = "agent" /\ proc.state = "up" /\ l \notin listening
    /\ listening' = listening \cup {l}
    /\ LET m == MarkReadyIfEligible(conn, listening')
       IN  proc' = [proc EXCEPT !.ready = m.ready] /\ file' = m.file
    /\ UNCHANGED <<kind, named, cur, conn, reg, relay, faults>>

\* 'error' of a listener: it cannot bind, or cannot accept.  Unless the agent is ready
\* the process shuts down, whether or not it ever was.
ListenerError ==
    /\ kind = "agent" /\ proc.state = "up" /\ Fault
    /\ IF proc.ready
         THEN /\ proc' = [proc EXCEPT !.ready = FALSE]
              /\ file' = "none"
              /\ UNCHANGED <<listening, conn>>
         ELSE Shutdown(conn)
    /\ UNCHANGED <<kind, named, cur, reg, relay>>

\* the process ends and the system closes its sockets
Ends(f) ==
    /\ proc' = [NewProcess EXCEPT !.state = "down"]
    /\ listening' = {}
    /\ cur' = 0
    /\ conn' = [c \in Conns |-> [conn[c] EXCEPT !.process = "closed"]]
    /\ file' = f

\* the timer of shutdown(), or nothing is left to do for a client that may not log in
Exit ==
    /\ \/ proc.state = "stopping"
       \/ kind = "client" /\ proc.state = "up" /\ proc.authFailed /\ conn[cur].process = "closed"
    /\ Ends(file)
    /\ UNCHANGED <<kind, named, reg, relay, faults>>

\* a crash, or SIGKILL: the file stays, with the pid of a process that is gone
Crash ==
    /\ proc.state # "down" /\ Fault
    /\ Ends(IF file = "live" THEN "stale" ELSE file)
    /\ UNCHANGED <<kind, named, reg, relay>>

-----------------------------------------------------------------------------
(* The relay.                                                              *)

\* mutant: an id in use is not looked up
RefusedBySizeOnly == kind = "client" /\ Cardinality(reg) >= MaxTunnelClients

\* addClient refuses a client at the limit, or when its id belongs to an open WebSocket
Refused ==
    /\ kind = "client"
    /\ \/ Cardinality(reg) >= MaxTunnelClients
       \/ named /\ \E d \in reg : conn[d].relay = "open"

\* the upgrade and the 'connection' handler; a relay that closes answers 503, for it
\* closes its servers in one tick with the connections
Accepts(c) ==
    /\ conn[c].process = "connecting" /\ conn[c].relay = "none" /\ conn[c].link = "up"
    /\ relay = "up"
    /\ IF Refused
         THEN conn' = [conn EXCEPT ![c].relay = "closing"] /\ UNCHANGED reg
         ELSE /\ conn' = [conn EXCEPT ![c].relay = "open", ![c].isAlive = TRUE]
              /\ reg' = reg \cup {c}
    /\ UNCHANGED <<kind, named, proc, listening, cur, file, relay, faults>>

\* 'close' at the relay: cleanupClient, cleanupAgent
Gone(c) ==
    /\ conn' = [conn EXCEPT ![c].relay = "closed"]
    /\ reg' = reg \ {c}

\* the process's end is gone, and the relay can see it; a WebSocket that the relay
\* closes itself ends after a while in any case, by terminate() or ws's own timer
Disconnected(c) ==
    /\ conn[c].relay \in {"open", "closing"}
    /\ conn[c].relay = "closing" \/ (conn[c].link = "up" /\ conn[c].process \in {"closing", "closed"})
    /\ Gone(c)
    /\ UNCHANGED <<kind, named, proc, listening, cur, file, relay, faults>>

Answers(c) == conn[c].link = "up" /\ conn[c].process \in {"connecting", "open"}

\* mutant: the ping is sent and nobody looks for the answer
HeartbeatPingsOnly(c) ==
    /\ relay = "up" /\ c \in reg /\ conn[c].relay = "open" /\ conn[c].isAlive
    /\ conn' = [conn EXCEPT ![c].isAlive = FALSE] /\ UNCHANGED reg
    /\ UNCHANGED <<kind, named, proc, listening, cur, file, relay, faults>>

\* a beat: a ping, or terminate() if the last one was not answered; 30 s are enough
\* for an answer
Heartbeat(c) ==
    /\ relay = "up" /\ c \in reg /\ conn[c].relay = "open"
    /\ IF conn[c].isAlive THEN conn' = [conn EXCEPT ![c].isAlive = FALSE] /\ UNCHANGED reg
                          ELSE ~Answers(c) /\ Gone(c)
    /\ UNCHANGED <<kind, named, proc, listening, cur, file, relay, faults>>

Pong(c) ==
    /\ conn[c].relay = "open" /\ ~conn[c].isAlive /\ Answers(c)
    /\ conn' = [conn EXCEPT ![c].isAlive = TRUE]
    /\ UNCHANGED <<kind, named, proc, listening, cur, reg, file, relay, faults>>

\* SIGTERM: the clients that are registered, and the agents, are closed
RelayStops ==
    /\ relay = "up" /\ Fault
    /\ relay' = "closing"
    /\ conn' = [c \in Conns |-> IF c \in reg /\ conn[c].relay = "open"
                                  THEN [conn[c] EXCEPT !.relay = "closing"] ELSE conn[c]]
    /\ reg' = IF kind = "agent" THEN {} ELSE reg
    /\ UNCHANGED <<kind, named, proc, listening, cur, file>>

\* the relay's process ends and the system closes its sockets
RelayEnds ==
    /\ relay' = "down"
    /\ conn' = [c \in Conns |-> IF conn[c].relay = "none" /\ conn[c].process # "connecting"
                                  THEN conn[c] ELSE [conn[c] EXCEPT !.relay = "closed"]]
    /\ reg' = {}
    /\ UNCHANGED <<kind, named, proc, listening, cur, file>>

\* exit when everything is closed, or after GRACEFUL_TIMEOUT_MS whatever is left
RelayExits ==
    /\ relay = "closing"
    /\ RelayEnds
    /\ UNCHANGED faults

RelayCrash == relay # "down" /\ Fault /\ RelayEnds

RelayStarts ==
    /\ relay = "down" /\ relay' = "up"
    /\ UNCHANGED <<kind, named, proc, listening, cur, conn, reg, file, faults>>

\* the connection is lost and neither end is told
LinkDies(c) ==
    /\ conn[c].link = "up" /\ Fault
    /\ conn[c].process # "closed" /\ conn[c].relay \in {"open", "closing"}
    /\ conn' = [conn EXCEPT ![c].link = "dead"]
    /\ UNCHANGED <<kind, named, proc, listening, cur, reg, file, relay>>

-----------------------------------------------------------------------------
ConnStep(c) ==
    \/ Opened(c) \/ HandshakeFails(c) \/ AuthFails(c) \/ HungUp(c) \/ LinkTimesOut(c)
    \/ Accepts(c) \/ Disconnected(c) \/ Heartbeat(c) \/ Pong(c) \/ LinkDies(c)

Next ==
    \/ Start \/ ReconnectTimer \/ Sigterm \/ ListenerError \/ Exit \/ Crash
    \/ \E l \in Listeners : Listening(l)
    \/ \E c \in Conns : ConnStep(c)
    \/ RelayStops \/ RelayExits \/ RelayCrash \/ RelayStarts

\* Timers fire, events are delivered, a listener that can come up does, and the relay is
\* started again.  A client on a dead link finds out, by its pings; an agent need not.
Fairness ==
    /\ WF_vars(ReconnectTimer) /\ WF_vars(Exit)
    /\ WF_vars(RelayExits) /\ WF_vars(RelayStarts)
    /\ \A l \in Listeners : WF_vars(Listening(l))
    /\ \A c \in Conns :
          /\ WF_vars(Opened(c)) /\ WF_vars(HungUp(c)) /\ WF_vars(Accepts(c))
          /\ WF_vars(HandshakeFails(c) /\ UNCHANGED faults)
          /\ WF_vars(LinkTimesOut(c) /\ kind = "client")
          /\ WF_vars(Disconnected(c)) /\ WF_vars(Heartbeat(c)) /\ WF_vars(Pong(c))

Spec == Init /\ [][Next]_vars /\ Fairness

-----------------------------------------------------------------------------
(* Properties.                                                             *)

\* "The ready file must never outlive the state that made it true" (tcp-agent.js): a
\* file with the pid of the process means that the process runs and is not stopping,
\* that its WebSocket is open and, for an agent, that it calls itself ready and every
\* port listens.
ReadyMeansOpen ==
    file = "live" => /\ proc.state = "up" /\ WsReady(conn)
                     /\ kind = "agent" => (proc.ready /\ listening = Listeners)

\* A process never has two connections: when a reconnect is scheduled none is left,
\* and none is scheduled or made after shutdown or a rejected login.
OneConnection ==
    /\ \A c \in Conns : conn[c].process # "closed" => c = cur
    /\ proc.timer => /\ proc.state = "up" /\ ~proc.authFailed
                     /\ \A c \in Conns : conn[c].process = "closed"
    /\ proc.state = "stopping" => \A c \in Conns : conn[c].process \in {"closing", "closed"}

\* The relay registers only what is open or closing, no more clients than allowed, and
\* a TUNNEL_ID once.
RegistryHonest ==
    /\ \A c \in reg : conn[c].relay \in {"open", "closing"}
    /\ kind = "client" => Cardinality(reg) <= MaxTunnelClients
    /\ kind = "client" /\ named =>
          \A c, d \in reg : conn[c].relay = "open" /\ conn[d].relay = "open" => c = d

\* When nothing goes wrong any more, a process that runs and may log in is connected,
\* the relay has it registered and, if it is a client, its ready file says so: no
\* half-open predecessor keeps it out for ever.  Except for an agent whose link died:
\* it sends nothing and does not find out.  And the relay has forgotten every peer that
\* is gone, also where the link died first and no FIN came.
Recovers ==
    <>[](/\ proc.state = "up" /\ ~proc.authFailed
            => /\ WsReady(conn)
               /\ kind = "client" => file = "live"
               /\ cur \in reg \/ (kind = "agent" /\ conn[cur].link = "dead")
         /\ \A c \in reg : conn[c].process # "closed")
=============================================================================
