SPECIFICATION FairSpec
CONSTANTS
    Lines <- ThreeLines
    Numbers <- SomeNumbers
    Delays <- OneAp
    Fractions = 2
    MaxContexts = 2
    MaxSpurious = 1
INVARIANTS
    HandlersInOrder
    NoSpuriousCall
    RestoresFirmware
PROPERTIES
    AcknowledgesItsOwn
    DelayLastsFromNextTick
    TimeGoesOn
CHECK_DEADLOCK FALSE
