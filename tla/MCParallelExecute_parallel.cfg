SPECIFICATION FairSpec
CONSTANTS
    N = 4
    ThreadLimit = 3
    Interrupts = TRUE
INVARIANTS
    TypeOK
    Conserved
PROPERTIES
    CallEnds
    ImplementsForEach
