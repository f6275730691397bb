SPECIFICATION FairSpec
CONSTANTS
    Lines <- ThreeLines
    Numbers <- AlsoFree
    Delays <- OneAp
    Fractions = 2
    MaxContexts = 2
    MaxSpurious = 1
INVARIANTS
    RefusesOnlyReserved
CHECK_DEADLOCK FALSE
