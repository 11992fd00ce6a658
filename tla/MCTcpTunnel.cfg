SPECIFICATION Spec
CONSTANTS
    Conns = {c1, c2}
    Clients = {k1}
    Agents = {a1}
    Ports = {22}
    AllowedPorts = {22}
    TunnelIds = {}
    NoTunnelId = NoTunnelId
    NoConn = NoConn
    NoClient = NoClient
    NoAgent = NoAgent
    MaxStreamId = 2
    MaxStreams = 2
    MaxClients = 2
    MaxPerPort = 0
    MaxPerAgent = 1
    IdleTimeouts = TRUE
    HostAllowedBy = {k1}
    MaxClientStreams = 2
    MaxInFlight = 2
    Routes <- MCRoutes
SYMMETRY Symmetry
CONSTRAINT FewInFlight
INVARIANTS
    TunnelTypeOK
    EndsMatch
PROPERTIES
    ImplementsPromise
CHECK_DEADLOCK FALSE
