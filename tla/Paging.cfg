SPECIFICATION Spec
CONSTANTS
    Frame = {f1, f2, f3, f4, f5, f6}
    NoFrame = NoFrame
    high = high
    heap = heap
    low = low
    Dir = {low, heap, high}
    Slot = {1, 2}
    BootDir = low
    KernelSlot = 1
    BootTable = BootTable
    Ident = Ident
    Device = Device
    Junk = Junk
    StartPages <- APICAndStack
    HeapPages <- HeapAcrossTables
SYMMETRY FrameSymmetry
INVARIANTS
    FramesOwned
    AccessesReachTheirFrame
    HeapOutcome
PROPERTIES
    OthersUntouched
    UsesPool
CHECK_DEADLOCK FALSE
