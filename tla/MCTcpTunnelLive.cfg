SPECIFICATION FairSpec
CONSTANTS
    Conns = {c1}
    Clients = {k1, k2}
    Agents = {a1}
    Ports = {22}
    AllowedPorts = {22}
    TunnelIds = {}
    NoTunnelId = NoTunnelId
    NoConn = NoConn
    NoClient = NoClient
    NoAgent = NoAgent
    MaxStreamId = 2
    MaxStreams = 2
    MaxClients = 1
    MaxPerPort = 0
    MaxPerAgent = 1
    IdleTimeouts = FALSE
    HostAllowedBy = {k1}
    MaxClientStreams = 2
    MaxInFlight = 9
    Routes <- MCRoutes
INVARIANTS
    JoinedAppsServed
    ClientStreamsServed
PROPERTIES
    EndReachesApp
    EndReachesService
    EndReachesRelay
    ConnectAnswered
CHECK_DEADLOCK FALSE
