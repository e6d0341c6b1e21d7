SPECIFICATION FairSpec
CONSTANTS
    e1 = e1
    w1 = w1
    Entity = e1
    Workers <- OneWorker
    Warning = 1
    Critical = 2
    MaxDeaths = 1
    MaxIncidents = 1
INVARIANTS
    TypeOK
PROPERTIES
    SilentIsFailing
    ReturnIsResolved
