\* Two agents; the late clean-up of a displaced connection of one of them.
CONSTANTS
    a1 = a1
    a2 = a2
    c1 = c1
    c2 = c2
    c3 = c3
    None = None
    Ids <- TwoAgents
    Conns <- ThreeConns
    Owner <- OwnerTwo
    MaxPending = 1
    Origin = "same-host"
SPECIFICATION Spec
INVARIANT AbsentMeansDisconnected
