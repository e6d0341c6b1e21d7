SPECIFICATION FairSpec
CONSTANTS
    b1 = b1
    b2 = b2
    c1 = c1
    c2 = c2
    s1 = s1
    Backends <- TwoBackends
    Clients <- TwoClients
    Switches <- OneSwitch
    TTLs <- SmallTTLs
    FallbackTTL = 5
    EventsCap = 1
    MaxOps = 2
    MaxExpiries = 1
    FaultKinds = {"request", "watch", "crash"}
    MaxFaults = 1
INVARIANTS
    TypeOK
    LeadersBounded
    CountdownRuns
    BuriedIsTransient
    AliveIsLast
PROPERTIES
    NeverKillsTheLiving
    ExpiredComesBack
    ImplementsSwitch
