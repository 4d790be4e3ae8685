CONSTANTS
    a1 = a1
    a2 = a2
    Agents <- MCAgents
    TargetLists <- MCTargetLists
    MaxSize = 3
    PageSize = 2
    MaxExecs = 5
SPECIFICATION Spec
INVARIANTS
    TypeOK
    NewestWindow
    PagingMissesNothing
PROPERTY AnswersAreKept
