SPECIFICATION FairSpec
CONSTANTS
    b1 = b1
    b2 = b2
    Backends <- TwoBackends
    Items <- ThreeItems
    Values = 2
    MaxOps = 1
    MaxExpiries = 2
    FaultKinds = {"request", "watch", "crash"}
    MaxFaults = 1
INVARIANTS TypeOK SchedulersAgree
PROPERTIES TurnGoesOn TriggerComesBack
