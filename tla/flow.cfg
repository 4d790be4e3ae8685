CONSTANTS
    a1 = a1
    a2 = a2
    Agents <- MCAgents
    TargetLists <- MCTargetLists
    MaxSize = 1
    MaxExecs = 2
    MaxJobs = 2
SPECIFICATION FairSpec
INVARIANTS
    TypeOK
PROPERTIES
    Service
    History
    AskedIsStarted
    EndedIsShown
