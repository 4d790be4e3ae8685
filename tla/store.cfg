CONSTANTS
    a1 = a1
    a2 = a2
    f1 = f1
    f2 = f2
    g1 = g1
    g2 = g2
    t1 = t1
    Agents <- MCAgents
    Facts <- MCFacts
    Blank = Blank
    Groups <- MCGroups
    NoGroup = NoGroup
    Tags <- MCTags
    Threshold = 3
    Period = 2
SPECIFICATION Spec
INVARIANTS
    TypeOK
    SilentGoesOffline
    ReportingStaysOnline
    LabelsAreKept
PROPERTY FactsAreKept
