SPECIFICATION FairSpec
CONSTANTS
    CPU = {c1, c2, c3}
    NRegions = 3
    Base <- TwoBases
    Length <- TwoLengths
    Reserved <- FirstReserved
INVARIANTS
    TypeOK
    NoDoubleAllocation
    Counters
    NoPanic
PROPERTIES
    FullWhenGivingUp
    PoolSpec
    LockReleased
    CallsReturn
