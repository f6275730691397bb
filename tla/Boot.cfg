SPECIFICATION Spec
CONSTANTS
    BUF_SIZE = 8
    Machines <- AllMachines
INVARIANTS
    BootInfoKept
    ConsoleKeepsAll
    CpusFit
    MemoryFit
PROPERTIES
    Boots
CHECK_DEADLOCK FALSE
