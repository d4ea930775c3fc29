SPECIFICATION FairSpec
CONSTANTS
    main = main
    over = over
    other = other
    a = a
    b = b
    c = c
    Files = {main, over, other}
    Main = main
    Override = over
    Names = {a, b, c}
    RecursionLimit = 7
    Configurations <- MCConfigurations
    Paths = {p1}
    Hosts = {main, elsewhere}
    UserLabels = {"one_off", "number"}
    MaxContainers = 4
INVARIANTS
    TypeOK
    LoadedAsWritten
    CyclesRefused
    SortedByDependency
    FoundByLabels
PROPERTIES
    VolumesCopied
    ComposeEnds
