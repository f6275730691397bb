SPECIFICATION FairSpec
CONSTANTS
    CPU = {c1, c2, c3}
    Bsp = c1
    SmpFound <- Either
    FaultyPrint <- FaultyAlone
    MaxStack <- DeepAlone
INVARIANTS
    TypeOK
    OnePrinter
    OneCpuInOrder
PROPERTIES
    HaltIsFinalSmp
    ConsoleGoesOn
CHECK_DEADLOCK FALSE
