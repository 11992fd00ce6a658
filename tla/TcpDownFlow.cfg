SPECIFICATION FairSpec
CONSTANTS
    s1 = s1
    s2 = s2
    Streams = {s1, s2}
    Direct = {s2}
    Chunks = 2
    WsHigh = 1
    WsLow = 0
    SocketHigh = 1
    MaxWire = 1
INVARIANTS
    TypeOK
    ClientBounded
    PausesAgree
    AgentCloseKeepsData
PROPERTIES
    PausedClientsResume
    ImplementsPipe
CHECK_DEADLOCK FALSE
