SPECIFICATION FairSpec
CONSTANTS
    cpu = cpu
    cpu2 = cpu2
    w1 = w1
    b1 = b1
    NoCheck = NoCheck
    Checks <- OneCheck
    Longer <- NoLonger
    Workers <- OneWorker
    Backends <- OneBackend
    Home <- AtOne
    HistoryLimit = 2
    MaxCount = 3
    MaxDeaths = 1
    MaxResults = 2
    MaxIncidents = 1
INVARIANTS
    TypeOK
    CountersAgree
PROPERTIES
    SilenceIsFound
CHECK_DEADLOCK FALSE
