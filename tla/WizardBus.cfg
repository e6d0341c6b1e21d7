SPECIFICATION FairSpec
CONSTANTS
    c1 = c1
    c2 = c2
    p1 = p1
    p2 = p2
    NoOne = NoOne
    Consumers <- TwoConsumers
    Publishers <- TwoPublishers
    ChanCap = 1
    MaxMsgs = 1
INVARIANTS
    TypeOK
    OpenTopicIsCurrent
    MissedOnlyIfClosed
    GoneIsUnbound
PROPERTIES
    CallsReturn
