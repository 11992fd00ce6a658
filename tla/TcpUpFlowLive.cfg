SPECIFICATION FairSpec
CONSTANTS
    s1 = s1
    Streams = {s1}
    Direct = {}
    Chunks = 5
    WsHigh = 1
    WsLow = 0
    SocketHigh = 2
    MaxDestBuffer = 3
    MaxWire = 1
INVARIANTS
    BuffersBounded
PROPERTIES
    ImplementsPipe
    SentArrives
    ReadersResume
CHECK_DEADLOCK FALSE
