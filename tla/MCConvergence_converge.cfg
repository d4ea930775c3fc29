SPECIFICATION Spec
CONSTANTS
    u1 = u1
    u2 = u2
    u3 = u3
    Ups = {u1, u2, u3}
    Strategies = {"changed", "always", "never"}
    Images = 3
    Exclusive = TRUE
    Faults = TRUE
SYMMETRY MCSymmetry
INVARIANTS
    TypeOK
    NeverRefused
    VolumesKept
PROPERTIES
    Converged
    NameKept
