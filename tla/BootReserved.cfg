SPECIFICATION Spec
CONSTANTS
    BUF_SIZE = 8
    Machines <- Memories
INVARIANT AllReserved
CHECK_DEADLOCK FALSE
