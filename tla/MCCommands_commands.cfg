SPECIFICATION CommandsFairSpec
CONSTANTS
    Ups = {u1}
    Strategies = {"always"}
    Images = 1
    Exclusive = FALSE
    Faults = TRUE
    Clients = {c1, c2}
    Desired = {1, 2}
    AtATime = 2
    CallErrors = TRUE
    MaxOneOffs = 2
INVARIANTS
    CommandsTypeOK
    VolumesSurvive
    NothingHalfMade
PROPERTIES
    Scales
    CommandsEnd
