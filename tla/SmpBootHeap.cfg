SPECIFICATION Spec
CONSTANTS
    NumCpus = 3
    LapicId <- ThreeIds
    HeapBlocks = 2
    FreeFrames <- Enough
INVARIANTS
    PerCpuPrivate
CHECK_DEADLOCK FALSE
