SPECIFICATION FairSpec
CONSTANTS
    Containers = {c1, c2}
    MaxPieces = 2
    Faults = TRUE
INVARIANTS
    TypeOK
    PrintedInOrder
    NothingLost
PROPERTIES
    LoopEnds
