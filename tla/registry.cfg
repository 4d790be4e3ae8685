\* One agent with up to three connections alive at the gateway at once.
CONSTANTS
    a1 = a1
    a2 = a2
    c1 = c1
    c2 = c2
    c3 = c3
    None = None
    Ids <- OneAgent
    Conns <- ThreeConns
    Owner <- OwnerOne
    MaxPending = 1
    Origin = "same-host"
SPECIFICATION FairSpec
INVARIANTS
    TypeOK
    NoDanglingEntry
PROPERTIES
    Table
    StableConnectionIsRouted
    DeadConnectionsEnd
    AgentsKeepRegistering
