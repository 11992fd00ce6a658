SPECIFICATION MCSpec
CONSTANTS
    Conns = {c1, c2, c3}
    Clients = {k1, k2}
    Agents = {a1, a2}
    Ports = {p1}
    AllowedPorts = {p1}
    TunnelIds = {t1}
    NoTunnelId = NoTunnelId
    NoConn = NoConn
    NoClient = NoClient
    NoAgent = NoAgent
    MaxStreamId = 2
    MaxStreams = 2
    MaxClients = 2
    MaxPerPort = 1
    MaxPerAgent = 1
    IdleTimeouts = TRUE
    MaxWebSockets = 3
SYMMETRY Symmetry
CONSTRAINT FewWebSockets
INVARIANTS
    TypeOK
    LimitsRespected
    CountsExact
    RegistryConsistent
    TableConsistent
    LiveStreamsHaveEnds
    AckOnlyConfirmed
CHECK_DEADLOCK FALSE
