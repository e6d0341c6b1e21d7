SPECIFICATION FairSpec
CONSTANTS
    e1 = e1
    e2 = e2
    r1 = r1
    r2 = r2
    Events <- MCEvents
    Requests <- MCRequests
    Wanted = {"protobuf"}
    SendCap = 1
    MaxBreaks = 1
    MaxCrashes = 1
INVARIANTS
    TypeOK
    KeptUntilSent
PROPERTIES
    SentInTheEnd

CHECK_DEADLOCK FALSE
