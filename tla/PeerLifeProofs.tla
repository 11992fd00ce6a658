--------------------------- MODULE PeerLifeProofs ----------------------------
(***************************************************************************)
(* Proofs about PeerLife, for every number of connections, listeners,      *)
(* clients and faults.                                                     *)
(***************************************************************************)
EXTENDS PeerLife, FiniteSetTheorems, TLAPS

\* what a mark of readiness leaves
LEMMA MarkType ==
    ASSUME TypeOK, NEW k, NEW ls
    PROVE  /\ MarkReadyIfEligible(k, ls).ready \in BOOLEAN
           /\ MarkReadyIfEligible(k, ls).file \in {"none", "live", "stale"}
BY DEF Process, MarkReadyIfEligible, TypeOK

\* connect() takes a number that neither end uses
LEMMA FreeConn ==
    ASSUME Connect
    PROVE  SomeFree \in Free /\ SomeFree \in Conns /\ SomeFree # cur
BY DEF Process, Connection, Connect, SomeFree, Free

LEMMA ConnectType ==
    ASSUME TypeOK, Connect
    PROVE  cur' \in Conns /\ conn' \in [Conns -> Connection]
<1>1. PICK l \in {"up", "dead"} : conn' = [conn EXCEPT ![SomeFree] =
             [process |-> "connecting", relay |-> "none", link |-> l, isAlive |-> FALSE]]
  <2>1. CASE relay = "up"
    BY <2>1 DEF Connect
  <2>2. CASE relay # "up"
    BY <2>2 DEF Connect
  <2> QED
    BY <2>1, <2>2
<1>2. conn' \in [Conns -> Connection]
  BY <1>1, FreeConn DEF Connection, TypeOK
<1> QED
  BY <1>2, FreeConn DEF Connect

LEMMA CloseEventType ==
    ASSUME TypeOK, NEW c \in Conns, NEW p \in Process, CloseEvent(c, p)
    PROVE  proc' \in Process /\ file' = "none" /\ conn' \in [Conns -> Connection]
<1>1. [p EXCEPT !.ready = FALSE] \in Process
  BY DEF Process
<1>2. \A q \in Process : ScheduleReconnect(q) \in Process
  BY DEF ScheduleReconnect, Process
<1>3. conn' \in [Conns -> Connection]
  BY DEF CloseEvent, Connection, TypeOK
<1> QED
  BY <1>1, <1>2, <1>3 DEF CloseEvent

\* The counter of faults stays in its bound, and MaxFaults is a number.
LEMMA FaultType ==
    ASSUME TypeOK, Fault
    PROVE  faults' \in 0..MaxFaults
BY LifeAssumption DEF TypeOK, Fault

LEMMA ConnStepType ==
    ASSUME TypeOK, NEW c \in Conns, ConnStep(c)
    PROVE  TypeOK'
<1> USE LifeAssumption
<1>1. CASE Opened(c)
  <2>1. PICK k, ls : LET m == MarkReadyIfEligible(k, ls)
                     IN  /\ proc' = [proc EXCEPT !.authFailed = FALSE, !.ready = m.ready]
                         /\ file' = IF kind = "client" THEN "live" ELSE m.file
    BY <1>1 DEF Opened
  <2>2. proc' \in Process /\ file' \in {"none", "live", "stale"}
    BY <2>1, MarkType DEF Process, TypeOK
  <2> QED
    BY <1>1, <2>2 DEF Connection, Opened, TypeOK
<1>2. CASE HandshakeFails(c)
  <2>1. faults' \in 0..MaxFaults
    BY <1>2, FaultType DEF HandshakeFails, TypeOK
  <2>2. CloseEvent(c, proc)
    BY <1>2 DEF HandshakeFails
  <2> QED
    BY <1>2, <2>1, <2>2, CloseEventType DEF HandshakeFails, TypeOK
<1>3. CASE AuthFails(c)
  <2>1. faults' \in 0..MaxFaults
    BY <1>3, FaultType DEF AuthFails
  <2>2. CloseEvent(c, [proc EXCEPT !.authFailed = TRUE])
    BY <1>3 DEF AuthFails
  <2>3. [proc EXCEPT !.authFailed = TRUE] \in Process
    BY DEF Process, TypeOK
  <2> QED
    BY <1>3, <2>1, <2>2, <2>3, CloseEventType DEF AuthFails, TypeOK
<1>4. CASE HungUp(c)
  <2>1. CloseEvent(c, proc)
    BY <1>4 DEF HungUp
  <2> QED
    BY <1>4, <2>1, CloseEventType DEF HungUp, TypeOK
<1>5. CASE LinkTimesOut(c)
  <2>1. CloseEvent(c, proc)
    BY <1>5 DEF LinkTimesOut
  <2> QED
    BY <1>5, <2>1, CloseEventType DEF LinkTimesOut, TypeOK
<1>6. CASE Accepts(c)
  BY <1>6 DEF Connection, Accepts, TypeOK
<1>7. CASE Disconnected(c)
  BY <1>7 DEF Connection, Disconnected, Gone, TypeOK
<1>8. CASE Heartbeat(c)
  <2>1. CASE conn[c].isAlive
    <3>1. conn' = [conn EXCEPT ![c].isAlive = FALSE] /\ UNCHANGED reg
      BY <1>8, <2>1 DEF Heartbeat
    <3> QED
      BY <1>8, <3>1 DEF Heartbeat, Connection, TypeOK
  <2>2. CASE ~conn[c].isAlive
    BY <1>8, <2>2 DEF Connection, Heartbeat, Gone, TypeOK
  <2> QED
    BY <2>1, <2>2
<1>9. CASE Pong(c)
  BY <1>9 DEF Connection, Pong, TypeOK
<1>10. CASE LinkDies(c)
  <2>1. faults' \in 0..MaxFaults
    BY <1>10, FaultType DEF LinkDies
  <2>2. conn' = [conn EXCEPT ![c].link = "dead"]
    BY <1>10 DEF LinkDies
  <2> QED
    BY <1>10, <2>1, <2>2 DEF Connection, LinkDies, TypeOK
<1> QED
  BY <1>1, <1>2, <1>3, <1>4, <1>5, <1>6, <1>7, <1>8, <1>9, <1>10 DEF ConnStep

LEMMA ShutdownType ==
    ASSUME TypeOK, Shutdown(conn)
    PROVE  /\ proc' \in Process /\ file' = "none" /\ listening' = {}
           /\ conn' \in [Conns -> Connection]
BY DEF Process, Connection, Shutdown, TypeOK

LEMMA EndsType ==
    ASSUME TypeOK, NEW f \in {"none", "live", "stale"}, Ends(f),
           UNCHANGED <<kind, named, reg, relay>>, faults' \in 0..MaxFaults
    PROVE  TypeOK'
BY DEF Process, Connection, Ends, NewProcess, TypeOK

LEMMA RelayEndsType ==
    ASSUME TypeOK, RelayEnds, faults' \in 0..MaxFaults
    PROVE  TypeOK'
BY DEF Connection, RelayEnds, TypeOK

LEMMA TypeStep ==
    ASSUME TypeOK, [Next]_vars
    PROVE  TypeOK'
<1> USE LifeAssumption
<1>1. CASE Start
  BY <1>1, ConnectType DEF Start, NewProcess, Process, TypeOK
<1>2. CASE ReconnectTimer
  BY <1>2, ConnectType DEF ReconnectTimer, Process, TypeOK
<1>3. CASE Sigterm
  BY <1>3, ShutdownType, FaultType DEF Sigterm, TypeOK
<1>4. CASE ListenerError
  BY <1>4, ShutdownType, FaultType DEF ListenerError, Process, TypeOK
<1>5. CASE Exit
  BY <1>5, EndsType DEF Exit, TypeOK
<1>6. CASE Crash
  <2>1. (IF file = "live" THEN "stale" ELSE file) \in {"none", "live", "stale"}
    BY DEF TypeOK
  <2> QED
    BY <1>6, <2>1, EndsType, FaultType DEF Crash
<1>7. CASE \E l \in Listeners : Listening(l)
  <2>1. PICK l \in Listeners : Listening(l)
    BY <1>7
  <2>2. PICK k, ls : LET m == MarkReadyIfEligible(k, ls)
                     IN  proc' = [proc EXCEPT !.ready = m.ready] /\ file' = m.file
    BY <2>1 DEF Listening
  <2>3. proc' \in Process /\ file' \in {"none", "live", "stale"}
    BY <2>2, MarkType DEF Process, TypeOK
  <2> QED
    BY <2>1, <2>3 DEF Listening, TypeOK
<1>8. CASE \E c \in Conns : ConnStep(c)
  BY <1>8, ConnStepType
<1>9. CASE RelayStops
  BY <1>9, FaultType DEF RelayStops, Connection, TypeOK
<1>10. CASE RelayExits
  BY <1>10, RelayEndsType DEF RelayExits, TypeOK
<1>11. CASE RelayCrash
  BY <1>11, RelayEndsType, FaultType DEF RelayCrash
<1>12. CASE RelayStarts
  BY <1>12 DEF RelayStarts, TypeOK
<1>13. CASE UNCHANGED vars
  BY <1>13 DEF vars, TypeOK
<1> QED
  BY <1>1, <1>2, <1>3, <1>4, <1>5, <1>6, <1>7, <1>8, <1>9, <1>10, <1>11, <1>12, <1>13 DEF Next

LEMMA TypeInit == Init => TypeOK
<1> SUFFICES ASSUME Init PROVE TypeOK
  OBVIOUS
<1>1. proc \in Process
  BY DEF Init, NewProcess, Process
<1>2. NoConn \in Connection
  BY DEF NoConn, Connection
<1>3. conn \in [Conns -> Connection]
  BY <1>2 DEF Init
<1>4. faults \in 0..MaxFaults
  BY LifeAssumption DEF Init
<1> QED
  BY <1>1, <1>3, <1>4 DEF Init, TypeOK

\* Every variable of a peer and of the relay's view of it keeps its type.
THEOREM LifeType == Spec => []TypeOK
BY TypeInit, TypeStep, PTL DEF Spec

-----------------------------------------------------------------------------
(* The process: its ready file and its one connection.                     *)

\* What ReadyMeansOpen and OneConnection need beside each other to be inductive: a
\* process that is not there holds no connection.
ProcessInv ==
    /\ TypeOK
    /\ ReadyMeansOpen
    /\ OneConnection
    /\ proc.state = "down" => \A c \in Conns : conn[c].process = "closed"

\* The relay's steps, and the network's, leave what the process sees as it is.
LEMMA ProcessUntouched ==
    ASSUME ProcessInv, TypeOK', UNCHANGED <<kind, proc, listening, cur, file>>,
           \A c \in Conns : conn'[c].process = conn[c].process
    PROVE  ProcessInv'
<1>1. WsReady(conn)' <=> WsReady(conn)
  BY DEF WsReady, ProcessInv, TypeOK
<1> QED
  BY <1>1 DEF ProcessInv, ReadyMeansOpen, OneConnection

\* connect() when no connection is left
LEMMA ProcessConnects ==
    ASSUME ProcessInv, TypeOK', Connect, \A c \in Conns : conn[c].process = "closed",
           proc'.state = "up", ~proc'.timer, file' # "live"
    PROVE  ProcessInv'
<1>1. \A c \in Conns : c # cur' => conn'[c].process = "closed"
  BY FreeConn DEF Connect, ProcessInv, TypeOK
<1> QED
  BY <1>1 DEF ProcessInv, ReadyMeansOpen, OneConnection

\* 'close' leaves a process without connections
LEMMA ProcessLoses ==
    ASSUME ProcessInv, TypeOK', NEW c \in Conns, NEW p \in Process, CloseEvent(c, p),
           conn[c].process # "closed", p.state = proc.state, p.timer = proc.timer
    PROVE  ProcessInv'
<1>1. \A d \in Conns : conn'[d].process = "closed"
  BY DEF CloseEvent, ProcessInv, OneConnection, TypeOK
<1>2. ~proc.timer
  BY DEF ProcessInv, OneConnection
<1>3. proc'.timer => proc'.state = "up" /\ ~proc'.authFailed
  BY <1>2 DEF CloseEvent, ScheduleReconnect, Process
<1>4. file' # "live"
  BY DEF CloseEvent
<1> QED
  BY <1>1, <1>3, <1>4 DEF ProcessInv, ReadyMeansOpen, OneConnection

\* shutdown() closes what is open and withdraws the ready file first
LEMMA ProcessStops ==
    ASSUME ProcessInv, TypeOK', Shutdown(conn), UNCHANGED cur
    PROVE  ProcessInv'
<1>1. proc'.state = "stopping" /\ ~proc'.timer /\ file' = "none"
  BY DEF Shutdown, ProcessInv, TypeOK, Process
<1>2. \A c \in Conns : /\ conn'[c].process \in {"closing", "closed"}
                       /\ conn'[c].process # "closed" => conn[c].process # "closed"
  BY DEF Shutdown, ProcessInv, TypeOK, Connection
<1> QED
  BY <1>1, <1>2 DEF ProcessInv, ReadyMeansOpen, OneConnection

\* a process that is gone holds nothing
LEMMA ProcessEnds ==
    ASSUME ProcessInv, TypeOK', NEW f, Ends(f), f # "live"
    PROVE  ProcessInv'
<1>1. proc'.state = "down" /\ ~proc'.timer /\ file' # "live"
  BY DEF Ends, NewProcess
<1>2. \A c \in Conns : conn'[c].process = "closed"
  BY DEF Ends, ProcessInv, TypeOK, Connection
<1> QED
  BY <1>1, <1>2 DEF ProcessInv, ReadyMeansOpen, OneConnection

LEMMA ProcessOpens ==
    ASSUME ProcessInv, TypeOK', NEW c \in Conns, Opened(c)
    PROVE  ProcessInv'
<1>1. c = cur /\ cur # 0 /\ conn[c].process = "connecting"
  BY LifeAssumption DEF Opened
<1>2. proc.state = "up" /\ ~proc.timer /\ file # "live"
  BY <1>1 DEF ProcessInv, ReadyMeansOpen, WsReady, OneConnection, TypeOK, Process
<1>3. /\ \A d \in Conns : d # c => conn'[d].process = conn[d].process
      /\ conn'[c].process = "open" /\ cur' = cur /\ kind' = kind /\ listening' = listening
  BY DEF Opened, ProcessInv, TypeOK, Connection
<1>4. PICK m : /\ m = MarkReadyIfEligible(conn', listening)
               /\ proc' = [proc EXCEPT !.authFailed = FALSE, !.ready = m.ready]
               /\ file' = IF kind = "client" THEN "live" ELSE m.file
  BY DEF Opened
<1>5. proc'.state = "up" /\ ~proc'.timer /\ proc'.ready = m.ready
  BY <1>2, <1>4 DEF ProcessInv, TypeOK, Process
<1>6. file' = "live" /\ kind = "agent" => m.ready /\ listening = Listeners
  BY <1>2, <1>4 DEF MarkReadyIfEligible
<1>7. ReadyMeansOpen'
  BY <1>1, <1>3, <1>5, <1>6 DEF ReadyMeansOpen, WsReady
<1> QED
  BY <1>1, <1>3, <1>5, <1>7 DEF ProcessInv, OneConnection

LEMMA ProcessConnStep ==
    ASSUME ProcessInv, TypeOK', NEW c \in Conns, ConnStep(c)
    PROVE  ProcessInv'
<1>0. proc \in Process /\ TypeOK
  BY DEF ProcessInv, TypeOK
<1>1. CASE Opened(c)
  BY <1>1, ProcessOpens
<1>2. CASE HandshakeFails(c)
  BY <1>0, <1>2, ProcessLoses DEF HandshakeFails
<1>3. CASE AuthFails(c)
  <2>1. [proc EXCEPT !.authFailed = TRUE] \in Process
    BY <1>0 DEF Process
  <2>2. /\ [proc EXCEPT !.authFailed = TRUE].state = proc.state
        /\ [proc EXCEPT !.authFailed = TRUE].timer = proc.timer
    BY <1>0 DEF Process
  <2>3. conn[c].process # "closed" /\ CloseEvent(c, [proc EXCEPT !.authFailed = TRUE])
    BY <1>3 DEF AuthFails
  <2> QED
    BY <2>1, <2>2, <2>3, ProcessLoses
<1>4. CASE HungUp(c)
  BY <1>0, <1>4, ProcessLoses DEF HungUp
<1>5. CASE LinkTimesOut(c)
  BY <1>0, <1>5, ProcessLoses DEF LinkTimesOut
<1>6. CASE Accepts(c)
  BY <1>0, <1>6, ProcessUntouched DEF Accepts, TypeOK, Connection
<1>7. CASE Disconnected(c)
  BY <1>0, <1>7, ProcessUntouched DEF Disconnected, Gone, TypeOK, Connection
<1>8. CASE Heartbeat(c)
  <2>1. \/ conn' = [conn EXCEPT ![c].isAlive = FALSE]
        \/ conn' = [conn EXCEPT ![c].relay = "closed"]
    BY <1>8 DEF Heartbeat, Gone
  <2>2. \A d \in Conns : conn'[d].process = conn[d].process
    BY <1>0, <2>1 DEF TypeOK, Connection
  <2> QED
    BY <1>8, <2>2, ProcessUntouched DEF Heartbeat
<1>9. CASE Pong(c)
  BY <1>0, <1>9, ProcessUntouched DEF Pong, TypeOK, Connection
<1>10. CASE LinkDies(c)
  <2>1. conn' = [conn EXCEPT ![c].link = "dead"]
    BY <1>10 DEF LinkDies
  <2>2. \A d \in Conns : conn'[d].process = conn[d].process
    BY <1>0, <2>1 DEF TypeOK, Connection
  <2> QED
    BY <1>10, <2>2, ProcessUntouched DEF LinkDies
<1> QED
  BY <1>1, <1>2, <1>3, <1>4, <1>5, <1>6, <1>7, <1>8, <1>9, <1>10 DEF ConnStep

\* a listener that comes up may make the agent ready, if its WebSocket is open
LEMMA ProcessListens ==
    ASSUME ProcessInv, NEW l \in Listeners, Listening(l)
    PROVE  ProcessInv'
<1>1. TypeOK'
  BY TypeStep DEF ProcessInv, Next
<1>2. PICK m : /\ m = MarkReadyIfEligible(conn, listening')
               /\ proc' = [proc EXCEPT !.ready = m.ready] /\ file' = m.file
  BY DEF Listening
<1>3. /\ proc'.state = proc.state /\ proc'.timer = proc.timer
      /\ proc'.authFailed = proc.authFailed /\ proc'.ready = m.ready
  BY <1>2 DEF ProcessInv, TypeOK, Process
<1>4. UNCHANGED <<kind, conn, cur>> /\ kind = "agent" /\ proc.state = "up" /\ listening # Listeners
  BY DEF Listening
<1>5. file # "live"
  BY <1>4 DEF ProcessInv, ReadyMeansOpen
<1>6. file' = "live" => m.ready /\ listening' = Listeners /\ WsReady(conn)
  BY <1>2, <1>5 DEF MarkReadyIfEligible
<1>7. ReadyMeansOpen'
  BY <1>3, <1>4, <1>6 DEF ReadyMeansOpen, WsReady
<1> QED
  BY <1>1, <1>3, <1>4, <1>7 DEF ProcessInv, OneConnection

\* RelayStops, RelayEnds and RelayStarts are steps of another process
LEMMA ProcessRelayStep ==
    ASSUME ProcessInv, TypeOK', RelayStops \/ RelayEnds \/ RelayStarts
    PROVE  ProcessInv'
<1>1. \A c \in Conns : conn'[c].process = conn[c].process
  <2>1. CASE RelayStops
    BY <2>1 DEF RelayStops, ProcessInv, TypeOK, Connection
  <2>2. CASE RelayEnds
    BY <2>2 DEF RelayEnds, ProcessInv, TypeOK, Connection
  <2>3. CASE RelayStarts
    BY <2>3 DEF RelayStarts
  <2> QED
    BY <2>1, <2>2, <2>3
<1>2. UNCHANGED <<kind, proc, listening, cur, file>>
  BY DEF RelayStops, RelayEnds, RelayStarts
<1> QED
  BY <1>1, <1>2, ProcessUntouched

LEMMA ProcessInit == Init => ProcessInv
<1> SUFFICES ASSUME Init PROVE ProcessInv
  OBVIOUS
<1>1. TypeOK
  BY TypeInit
<1>2. proc.state = "down" /\ ~proc.timer /\ file = "none"
  BY DEF Init, NewProcess
<1>3. \A c \in Conns : conn[c].process = "closed"
  BY DEF Init, NoConn
<1> QED
  BY <1>1, <1>2, <1>3 DEF ProcessInv, ReadyMeansOpen, OneConnection

LEMMA ProcessStep ==
    ASSUME ProcessInv, [Next]_vars
    PROVE  ProcessInv'
<1>0. TypeOK /\ TypeOK'
  BY TypeStep DEF ProcessInv
<1>1. CASE Start
  <2>1. Connect /\ proc'.state = "up" /\ ~proc'.timer /\ file' # "live"
    BY <1>1 DEF Start, NewProcess
  <2>2. \A c \in Conns : conn[c].process = "closed"
    BY <1>1 DEF Start, ProcessInv
  <2> QED
    BY <1>0, <2>1, <2>2, ProcessConnects
<1>2. CASE ReconnectTimer
  <2>1. Connect /\ \A c \in Conns : conn[c].process = "closed"
    BY <1>2 DEF ReconnectTimer, ProcessInv, OneConnection
  <2>2. proc'.state = "up" /\ ~proc'.timer
    BY <1>0, <1>2 DEF ReconnectTimer, TypeOK, Process
  <2>3. file # "live"
    BY <1>0, <2>1 DEF ProcessInv, ReadyMeansOpen, WsReady, TypeOK
  <2> QED
    BY <1>0, <1>2, <2>1, <2>2, <2>3, ProcessConnects DEF ReconnectTimer
<1>3. CASE Sigterm
  BY <1>0, <1>3, ProcessStops DEF Sigterm
<1>4. CASE ListenerError
  <2>1. CASE proc.ready
    <3>1. file' = "none" /\ UNCHANGED <<conn, cur>> /\ proc' = [proc EXCEPT !.ready = FALSE]
      BY <1>4, <2>1 DEF ListenerError
    <3>2. proc'.state = proc.state /\ proc'.timer = proc.timer /\ proc'.authFailed = proc.authFailed
      BY <1>0, <3>1 DEF TypeOK, Process
    <3> QED
      BY <1>0, <3>1, <3>2 DEF ProcessInv, ReadyMeansOpen, OneConnection
  <2>2. CASE ~proc.ready
    BY <1>0, <1>4, <2>2, ProcessStops DEF ListenerError
  <2> QED
    BY <2>1, <2>2
<1>5. CASE Exit
  <2>1. file # "live"
    <3>1. CASE proc.state = "stopping"
      BY <3>1 DEF ProcessInv, ReadyMeansOpen
    <3>2. CASE conn[cur].process = "closed"
      BY <3>2 DEF ProcessInv, ReadyMeansOpen, WsReady
    <3> QED
      BY <1>5, <3>1, <3>2 DEF Exit
  <2> QED
    BY <1>0, <1>5, <2>1, ProcessEnds DEF Exit
<1>6. CASE Crash
  <2>1. (IF file = "live" THEN "stale" ELSE file) # "live"
    OBVIOUS
  <2> QED
    BY <1>0, <1>6, <2>1, ProcessEnds DEF Crash
<1>7. CASE \E l \in Listeners : Listening(l)
  BY <1>7, ProcessListens
<1>8. CASE \E c \in Conns : ConnStep(c)
  BY <1>0, <1>8, ProcessConnStep
<1>9. CASE RelayStops \/ RelayExits \/ RelayCrash \/ RelayStarts
  BY <1>0, <1>9, ProcessRelayStep DEF RelayExits, RelayCrash
<1>10. CASE UNCHANGED vars
  BY <1>0, <1>10, ProcessUntouched DEF vars
<1> QED
  BY <1>1, <1>2, <1>3, <1>4, <1>5, <1>6, <1>7, <1>8, <1>9, <1>10 DEF Next

\* The ready file never outlives the state that made it true: whatever is lost, closed,
\* rejected, restarted or killed, a file with the pid of the process means that its
\* WebSocket is open and, for an agent, that every port listens.
THEOREM ReadyFile == Spec => []ReadyMeansOpen
<1>1. Spec => []ProcessInv
  BY ProcessInit, ProcessStep, PTL DEF Spec
<1>2. ProcessInv => ReadyMeansOpen
  BY DEF ProcessInv
<1> QED
  BY <1>1, <1>2, PTL

\* A process never has two connections, nor a reconnect scheduled while it has one,
\* while it stops or after its login was rejected.
THEOREM OneWebSocket == Spec => []OneConnection
<1>1. Spec => []ProcessInv
  BY ProcessInit, ProcessStep, PTL DEF Spec
<1>2. ProcessInv => OneConnection
  BY DEF ProcessInv
<1> QED
  BY <1>1, <1>2, PTL

-----------------------------------------------------------------------------
(* The relay's registry.                                                   *)

RegistryInv == TypeOK /\ RegistryHonest

\* Cardinality of what is registered: at most one more when one is added, no more when
\* some are removed.
LEMMA Registered ==
    ASSUME TypeOK
    PROVE  /\ IsFiniteSet(reg) /\ Cardinality(reg) \in Nat
           /\ \A c : Cardinality(reg \cup {c}) <= Cardinality(reg) + 1
           /\ \A s : s \subseteq reg => Cardinality(s) <= Cardinality(reg)
<1>1. IsFiniteSet(reg)
  BY LifeAssumption, FS_Subset DEF TypeOK
<1>2. Cardinality(reg) \in Nat
  BY <1>1, FS_CardinalityType
<1>3. \A c : Cardinality(reg \cup {c}) <= Cardinality(reg) + 1
  <2> TAKE c
  <2>1. Cardinality(reg \cup {c}) = IF c \in reg THEN Cardinality(reg) ELSE Cardinality(reg) + 1
    BY <1>1, FS_AddElement
  <2> QED
    BY <1>2, <2>1
<1>4. \A s : s \subseteq reg => Cardinality(s) <= Cardinality(reg)
  BY <1>1, <1>2, FS_Subset
<1> QED
  BY <1>1, <1>2, <1>3, <1>4

\* Steps that leave the relay's ends of what is registered open or closing, that open
\* none and register none.
LEMMA RegistryShrinks ==
    ASSUME RegistryInv, TypeOK', UNCHANGED <<kind, named>>, reg' \subseteq reg,
           \A c \in reg' : /\ conn'[c].relay \in {"open", "closing"}
                           /\ conn'[c].relay = "open" => conn[c].relay = "open"
    PROVE  RegistryInv'
<1>1. Cardinality(reg') \in Nat /\ Cardinality(reg) \in Nat /\ Cardinality(reg') <= Cardinality(reg)
  <2>1. Cardinality(reg) \in Nat /\ Cardinality(reg') <= Cardinality(reg)
    BY Registered DEF RegistryInv
  <2>2. IsFiniteSet(reg')
    BY LifeAssumption, FS_Subset DEF TypeOK
  <2> QED
    BY <2>1, <2>2, FS_CardinalityType
<1>2. kind' = "client" => Cardinality(reg') <= MaxTunnelClients
  BY <1>1, LifeAssumption DEF RegistryInv, RegistryHonest
<1>3. kind' = "client" /\ named' => \A c, d \in reg' :
           conn'[c].relay = "open" /\ conn'[d].relay = "open" => c = d
  BY DEF RegistryInv, RegistryHonest
<1> QED
  BY <1>2, <1>3 DEF RegistryInv, RegistryHonest

\* A client is registered below the limit, and under an id no open WebSocket has.
LEMMA RegistryAccepts ==
    ASSUME RegistryInv, TypeOK', NEW c \in Conns, Accepts(c)
    PROVE  RegistryInv'
<1>1. CASE Refused
  <2>1. \A d \in reg : conn'[d] = conn[d]
    BY <1>1 DEF Accepts, RegistryInv, RegistryHonest, TypeOK
  <2> QED
    BY <1>1, <2>1, RegistryShrinks DEF Accepts, RegistryInv, RegistryHonest
<1>2. CASE ~Refused
  <2>1. /\ reg' = reg \cup {c} /\ UNCHANGED <<kind, named>>
        /\ conn'[c].relay = "open" /\ \A d \in Conns : d # c => conn'[d].relay = conn[d].relay
    BY <1>2 DEF Accepts, RegistryInv, TypeOK, Connection
  <2>2. \A d \in reg' : conn'[d].relay \in {"open", "closing"}
    BY <2>1 DEF RegistryInv, RegistryHonest, TypeOK
  <2>3. kind' = "client" => Cardinality(reg') <= MaxTunnelClients
    <3> SUFFICES ASSUME kind = "client" PROVE Cardinality(reg') <= MaxTunnelClients
      BY <2>1
    <3>1. Cardinality(reg) \in Nat /\ Cardinality(reg') <= Cardinality(reg) + 1
      BY <2>1, Registered DEF RegistryInv
    <3>2. IsFiniteSet(reg')
      BY LifeAssumption, FS_Subset DEF TypeOK
    <3>3. Cardinality(reg') \in Nat
      BY <3>2, FS_CardinalityType
    <3>4. ~(Cardinality(reg) >= MaxTunnelClients)
      BY <1>2 DEF Refused
    <3> QED
      BY <3>1, <3>3, <3>4, LifeAssumption
  <2>4. kind' = "client" /\ named' => \A d, e \in reg' :
           conn'[d].relay = "open" /\ conn'[e].relay = "open" => d = e
    BY <1>2, <2>1 DEF Refused, RegistryInv, RegistryHonest, TypeOK
  <2> QED
    BY <2>2, <2>3, <2>4 DEF RegistryInv, RegistryHonest
<1> QED
  BY <1>1, <1>2

LEMMA RegistryConnects ==
    ASSUME RegistryInv, TypeOK', Connect, UNCHANGED <<kind, named, reg>>
    PROVE  RegistryInv'
<1>1. \A d \in reg : conn'[d] = conn[d]
  BY FreeConn DEF Connect, Free, RegistryInv, RegistryHonest, TypeOK
<1> QED
  BY <1>1, RegistryShrinks DEF RegistryInv, RegistryHonest

\* What the process does to its end changes nothing at the relay's.
LEMMA RegistryUntouched ==
    ASSUME RegistryInv, TypeOK', UNCHANGED <<kind, named, reg>>,
           \A c \in Conns : conn'[c].relay = conn[c].relay
    PROVE  RegistryInv'
BY RegistryShrinks DEF RegistryInv, RegistryHonest, TypeOK

LEMMA RegistryConnStep ==
    ASSUME RegistryInv, TypeOK', NEW c \in Conns, ConnStep(c)
    PROVE  RegistryInv'
<1>0. TypeOK
  BY DEF RegistryInv
<1>1. CASE Opened(c)
  BY <1>0, <1>1, RegistryUntouched DEF Opened, TypeOK, Connection
<1>2. CASE HandshakeFails(c) \/ AuthFails(c) \/ HungUp(c) \/ LinkTimesOut(c)
  <2>1. conn' = [conn EXCEPT ![c].process = "closed"] /\ UNCHANGED <<kind, named, reg>>
    BY <1>2 DEF HandshakeFails, AuthFails, HungUp, LinkTimesOut, CloseEvent
  <2>2. \A d \in Conns : conn'[d].relay = conn[d].relay
    BY <1>0, <2>1 DEF TypeOK, Connection
  <2> QED
    BY <2>1, <2>2, RegistryUntouched
<1>3. CASE Accepts(c)
  BY <1>3, RegistryAccepts
<1>4. CASE Gone(c) /\ UNCHANGED <<kind, named>>
  <2>1. \A d \in reg' : conn'[d] = conn[d]
    BY <1>0, <1>4 DEF Gone, TypeOK
  <2> QED
    BY <1>4, <2>1, RegistryShrinks DEF Gone, RegistryInv, RegistryHonest
<1>5. CASE Disconnected(c)
  BY <1>4, <1>5 DEF Disconnected
<1>6. CASE Heartbeat(c)
  <2>1. CASE conn[c].isAlive
    <3>1. conn' = [conn EXCEPT ![c].isAlive = FALSE] /\ UNCHANGED <<kind, named, reg>>
      BY <1>6, <2>1 DEF Heartbeat
    <3>2. \A d \in Conns : conn'[d].relay = conn[d].relay
      BY <1>0, <3>1 DEF TypeOK, Connection
    <3> QED
      BY <3>1, <3>2, RegistryUntouched
  <2>2. CASE ~conn[c].isAlive
    BY <1>4, <1>6, <2>2 DEF Heartbeat
  <2> QED
    BY <2>1, <2>2
<1>7. CASE Pong(c)
  BY <1>0, <1>7, RegistryUntouched DEF Pong, TypeOK, Connection
<1>8. CASE LinkDies(c)
  <2>1. conn' = [conn EXCEPT ![c].link = "dead"] /\ UNCHANGED <<kind, named, reg>>
    BY <1>8 DEF LinkDies
  <2>2. \A d \in Conns : conn'[d].relay = conn[d].relay
    BY <1>0, <2>1 DEF TypeOK, Connection
  <2> QED
    BY <2>1, <2>2, RegistryUntouched
<1> QED
  BY <1>1, <1>2, <1>3, <1>5, <1>6, <1>7, <1>8 DEF ConnStep

LEMMA RegistryInit == Init => RegistryInv
<1> SUFFICES ASSUME Init PROVE RegistryInv
  OBVIOUS
<1>1. reg = {} /\ Cardinality(reg) = 0
  BY FS_EmptySet DEF Init
<1> QED
  BY <1>1, TypeInit, LifeAssumption DEF RegistryInv, RegistryHonest

LEMMA RegistryStep ==
    ASSUME RegistryInv, [Next]_vars
    PROVE  RegistryInv'
<1>0. TypeOK /\ TypeOK'
  BY TypeStep DEF RegistryInv
<1>1. CASE Start \/ ReconnectTimer
  BY <1>0, <1>1, RegistryConnects DEF Start, ReconnectTimer
<1>2. CASE Sigterm \/ ListenerError
  <2>1. UNCHANGED <<kind, named, reg>>
    BY <1>2 DEF Sigterm, ListenerError
  <2>2. conn' = conn \/ Shutdown(conn)
    BY <1>2 DEF Sigterm, ListenerError
  <2>3. \A d \in Conns : conn'[d].relay = conn[d].relay
    BY <1>0, <2>2 DEF Shutdown, TypeOK, Connection
  <2> QED
    BY <1>0, <2>1, <2>3, RegistryUntouched
<1>3. CASE Exit \/ Crash
  <2>1. UNCHANGED <<kind, named, reg>>
    BY <1>3 DEF Exit, Crash
  <2>2. conn' = [c \in Conns |-> [conn[c] EXCEPT !.process = "closed"]]
    BY <1>3 DEF Exit, Crash, Ends
  <2>3. \A d \in Conns : conn'[d].relay = conn[d].relay
    BY <1>0, <2>2 DEF TypeOK, Connection
  <2> QED
    BY <1>0, <2>1, <2>3, RegistryUntouched
<1>4. CASE \E l \in Listeners : Listening(l)
  BY <1>0, <1>4, RegistryUntouched DEF Listening
<1>5. CASE \E c \in Conns : ConnStep(c)
  BY <1>0, <1>5, RegistryConnStep
<1>6. CASE RelayStops
  <2>1. reg' \subseteq reg /\ UNCHANGED <<kind, named>>
    BY <1>6 DEF RelayStops
  <2>2. \A d \in reg : conn'[d].relay = "closing"
    BY <1>0, <1>6 DEF RelayStops, RegistryInv, RegistryHonest, TypeOK, Connection
  <2> QED
    BY <1>0, <2>1, <2>2, RegistryShrinks
<1>7. CASE RelayExits \/ RelayCrash
  BY <1>0, <1>7, RegistryShrinks DEF RelayExits, RelayCrash, RelayEnds
<1>8. CASE RelayStarts \/ UNCHANGED vars
  BY <1>0, <1>8, RegistryUntouched DEF RelayStarts, vars
<1> QED
  BY <1>1, <1>2, <1>3, <1>4, <1>5, <1>6, <1>7, <1>8 DEF Next

\* Whatever the peer and the relay go through, what is registered is open or closing,
\* clients never exceed MAX_TUNNEL_CLIENTS, and no id has two open WebSockets.
THEOREM HonestRegistry == Spec => []RegistryHonest
<1>1. Spec => []RegistryInv
  BY RegistryInit, RegistryStep, PTL DEF Spec
<1>2. RegistryInv => RegistryHonest
  BY DEF RegistryInv
<1> QED
  BY <1>1, <1>2, PTL
=============================================================================
