SPECIFICATION Spec
CONSTANTS
    w1 = w1
    w2 = w2
    u1 = u1
    u2 = u2
    e1 = e1
    unknown = unknown
    k1 = k1
    Workers = {w1}
    Nobody = Nobody
    Users = {u1, u2}
    Events = {e1}
    EventIds = {e1, unknown}
    Capacity <- MCCapacity
    Keys = {k1}
    NoKey = NoKey
    Requests <- AllKinds
    Attempts = 2
    MaxStalls = 0
    MaxJobs = 2
    MaxLapses = 0
    MaxRetries = 2
    MaxLostAcks = 1
    Cancellers = {c1, c2}

INVARIANTS
    CounterMatchesBookings
    BookingsPerJob
CHECK_DEADLOCK FALSE
