SPECIFICATION FairSpec
CONSTANTS
    b1 = b1
    b2 = b2
    i1 = i1
    i2 = i2
    Backends <- TwoBackends
    Items <- TwoItems
    NoItem = NoItem
    MaxStamp = 2
    MaxErrors = 1
INVARIANTS TypeOK AtMostOnce NothingLost InFlightIsHeld
PROPERTIES BacklogDrains ReadInOrder
