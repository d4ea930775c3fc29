SPECIFICATION Spec
CONSTANTS
    r1 = r1
    r2 = r2
    r3 = r3
    shop = shop
    blog = blog
    web = web
    db = db
    Requests = {r1, r2}
    Projects <- MCProjects
    Services <- MCServices
    Names <- MCNames
    ServicesOf <- MCDashServicesOf
    FullName <- MCDashFullName
    Templates = {}
    MachineCount = 2
    Workload <- MCUpload
    Exclusive = FALSE
    Resubmit = FALSE
    Faults = {"docker", "cleanup"}
SYMMETRY MCSymmetry
PROPERTIES
    Isolation
