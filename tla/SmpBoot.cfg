SPECIFICATION FairSpec
CONSTANTS
    NumCpus = 4
    LapicId <- FourIds
    HeapBlocks = 2
    FreeFrames <- FewOrEnough
INVARIANTS
    TypeOK
    OwnStack
    OwnNumber
    MappedForKernel
PROPERTIES
    AllStarted
CHECK_DEADLOCK FALSE
