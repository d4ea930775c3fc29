SPECIFICATION Spec
CONSTANTS
    m1 = m1
    m2 = m2
    host = host
    port = port
    path = path
    ClientList <- MCClientList
    Mounted = TRUE
    Failing = {"ssh", "mysql"}
    Keys = {host, port}
    Path = path
    Text <- MCText
INVARIANTS
    TypeOK
    AccountsWhole
    FilledIn
PROPERTIES
    TextKept
