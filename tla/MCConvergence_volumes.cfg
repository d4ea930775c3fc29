SPECIFICATION Spec
CONSTANTS
    u1 = u1
    u2 = u2
    u3 = u3
    Ups = {u1, u2, u3}
    Strategies = {"changed"}
    Images = 2
    Exclusive = FALSE
    Faults = FALSE
SYMMETRY MCSymmetry
INVARIANTS
    VolumesKept
