SPECIFICATION Spec
CONSTANTS
    CPU = {c1}
    NRegions = 3
    Base <- TailBases
    Length <- TailLengths
    Reserved <- TailReserved
PROPERTIES
    FailsOnlyWhenFull
