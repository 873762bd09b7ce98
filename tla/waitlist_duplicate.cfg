SPECIFICATION WaitlistSpec
CONSTANTS
    u1 = u1
    u2 = u2
    e1 = e1
    unknown = unknown
    Workers = {w1}
    Nobody = Nobody
    Users = {u1, u2}
    Events = {e1}
    EventIds = {e1, unknown}
    Capacity <- MCCapacity
    Keys = {}
    NoKey = NoKey
    Requests <- MCRequests
    Attempts = 3
    MaxStalls = 1
    MaxJobs = 3
    Callers = {c1, c2}
    MaxJoins = 3
    MaxLost = 1
    MaxResends = 1
SYMMETRY CallerSymmetry
INVARIANTS
    OneEntryPerUser
CHECK_DEADLOCK FALSE
