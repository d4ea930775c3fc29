SPECIFICATION Spec
CONSTANTS
    r1 = r1
    r2 = r2
    r3 = r3
    shop = shop
    blog = blog
    web = web
    db = db
    Requests = {r1, r2, r3}
    Projects <- MCProjects
    Services <- MCServices
    Names <- MCNames
    ServicesOf <- MCServicesOf
    FullName <- MCFullName
    Templates = {shop}
    MachineCount = 2
    Workload <- MCShop
    Exclusive = TRUE
    Resubmit = FALSE
    Faults = {"docker", "cleanup", "crash", "torn"}
SYMMETRY MCSymmetry
INVARIANTS
    TypeOK
    Reachable
PROPERTIES
    SuccessMeansUp
    FailureMeansGone
    DestroyMeansGone
    StaysListed
    ImplementsLifecycle
