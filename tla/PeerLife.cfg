SPECIFICATION Spec
CONSTANTS
    l1 = l1
    Conns = {1, 2, 3, 4}
    Listeners = {l1}
    MaxTunnelClients = 2
    MaxFaults = 3
INVARIANTS
    TypeOK
    
    OneConnection
    RegistryHonest
PROPERTIES
    Recovers
CHECK_DEADLOCK FALSE
