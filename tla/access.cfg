CONSTANTS
    k1 = k1
    k2 = k2
    ip = ip
    proxy = proxy
    None = None
    Clients <- TwoClients
    Remote <- RemoteOf
    Private <- BehindProxy
    Forwarded <- ForwardedFor
    Whitelist <- OnlyIp
    Visitors <- Addresses
    Rate = 1
    LoginRate = 1
    Window = 1
    Ttl = 2
    MaxSize = 1
    MaxTime = 4
    MaxLogged = 3
    MaxFresh = 3
    MaxRestarts = 1
    MaxRefused = 1
SPECIFICATION Spec
INVARIANTS
    TypeOK
    Budgets
    AuditTrail
PROPERTIES
    RefusalsAreEarned
