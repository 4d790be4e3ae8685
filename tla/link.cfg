CONSTANTS
    a1 = a1
    a2 = a2
    l1 = l1
    l2 = l2
    None = None
    Agents <- MCAgents
    Links <- MCLinks
    Origin = "same-host"
SPECIFICATION FairSpec
INVARIANTS
    TypeOK
    NoDanglingLink
    KnownAgentsAnnounced
PROPERTIES
    CleanRelinkIsUsable
    HandlersEnd
