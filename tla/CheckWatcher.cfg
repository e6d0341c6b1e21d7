SPECIFICATION FairSpec
CONSTANTS
    Configs <- MCConfigs
    ResultCap = 1
    MaxChanges = 3
    MaxBreaks = 1
INVARIANTS
    TypeOK
    NoOrphan
PROPERTIES
    FollowsStore

CHECK_DEADLOCK FALSE
