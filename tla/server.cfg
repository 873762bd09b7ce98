SPECIFICATION FairServerSpec
CONSTANTS
    Connections = {c1, c2}
    Callers = {i1}
    Nobody = Nobody
    Limit = 2
    MaxHits = 4
    MaxFailures = 1
    Processes = {p1, p2}
    MaxStarts = 2
    MaxCrashes = 1
INVARIANTS
    ServerTypeOK
    WithinLimit
    ShutdownCutsNoRequest
PROPERTIES
    CountersExpire
    SignalledExits
CHECK_DEADLOCK FALSE
