SPECIFICATION Spec
CONSTANTS
    cpu = cpu
    cpu2 = cpu2
    w1 = w1
    b1 = b1
    NoCheck = NoCheck
    Checks <- TwoChecks
    Longer <- CPULonger
    Workers <- OneWorker
    Backends <- OneBackend
    Home <- AtOne
    HistoryLimit = 2
    MaxCount = 3
    MaxDeaths = 1
    MaxResults = 2
    MaxIncidents = 1
PROPERTIES
    OwnHistory
CHECK_DEADLOCK FALSE
