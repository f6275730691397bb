SPECIFICATION Spec
CONSTANTS
    CPU = {c1}
    Bsp = c1
    SmpFound <- OnlyOne
    FaultyPrint <- NeverFaulty
    MaxStack <- Shallow
PROPERTIES
    HaltIsFinal
CHECK_DEADLOCK FALSE
