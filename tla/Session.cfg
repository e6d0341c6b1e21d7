SPECIFICATION FairSpec
CONSTANTS
    NSessions = 2
    NTopics = 2
    Cap = 1
    MaxFaults = 1
INVARIANTS
    
    NothingLeftBound
PROPERTIES
    SessionEnds
    PublishReturns
    StaysInRing

CHECK_DEADLOCK FALSE
