SPECIFICATION FairSpec
CONSTANTS
    s1 = s1
    Ids = {s1}
    Messages <- MCMessages
    MaxEvents = 3
    MaxDials = 3
CHECK_DEADLOCK FALSE
INVARIANTS
    TypeOK
    CalmMeansSequential
    KeystrokesLand
    UploadsRespectEarlier
    AtMostOneDialAfterStop

    
