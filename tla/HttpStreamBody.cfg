SPECIFICATION Spec
CONSTANTS
    r1 = r1
    Requests = {r1}
    Slices = 3
    BodyChunks = 1
    MaxStreams = 1
    ClientMaxStreams = 1
    ResHigh = 1
    MaxDest = 1
    WriterHigh = 1
INVARIANT RequestForwarded
CHECK_DEADLOCK FALSE
