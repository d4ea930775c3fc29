SPECIFICATION FairSpec
CONSTANTS
    r1 = r1
    r2 = r2
    r3 = r3
    shop = shop
    blog = blog
    web = web
    db = db
    Requests = {r1, r2}
    Projects <- MCProjects
    Services <- MCServices
    Names <- MCNames
    ServicesOf <- MCOneService
    FullName <- MCFullName
    Templates = {}
    MachineCount = 2
    Workload <- MCTwo
    Exclusive = FALSE
    Resubmit = TRUE
    Faults = {"docker", "cleanup", "crash", "torn"}
PROPERTIES
    Isolation
    RequestsEnd
