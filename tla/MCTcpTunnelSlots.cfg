SPECIFICATION Spec
CONSTANTS
    Conns = {c1}
    Clients = {k1}
    Agents = {a1}
    Ports = {22}
    AllowedPorts = {22}
    TunnelIds = {}
    NoTunnelId = NoTunnelId
    NoConn = NoConn
    NoClient = NoClient
    NoAgent = NoAgent
    MaxStreamId = 2
    MaxStreams = 2
    MaxClients = 2
    MaxPerPort = 0
    MaxPerAgent = 1
    IdleTimeouts = TRUE
    HostAllowedBy = {k1}
    MaxClientStreams = 2
    MaxInFlight = 9
    Routes <- MCRoutes
INVARIANTS
    SlotsReleased
CHECK_DEADLOCK FALSE
