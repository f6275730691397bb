SPECIFICATION FairSpec
CONSTANTS
    Base = 0
    HeapStart = 2
    HeapEnd = 9
    MoreCore = 3
    WordUnits = 64
    Requests <- SmallToHuge
INVARIANTS
    TypeOK
    Tiled
    RingInOrder
    RoomForRequest
PROPERTIES
    NullOnlyWhenFull
    CallsReturn
