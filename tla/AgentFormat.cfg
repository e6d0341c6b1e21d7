SPECIFICATION Spec
CONSTANTS
    e1 = e1
    e2 = e2
    r1 = r1
    r2 = r2
    Events <- MCEvents
    Requests <- MCRequests
    Wanted = {"protobuf"}
    SendCap = 1
    MaxBreaks = 0
    MaxCrashes = 0
INVARIANTS
    BackendCanDecode

CHECK_DEADLOCK FALSE
