SPECIFICATION Spec
CONSTANTS
    w1 = w1
    w2 = w2
    u1 = u1
    u2 = u2
    e1 = e1
    unknown = unknown
    k1 = k1
    Workers = {w1, w2}
    Nobody = Nobody
    Users = {u1, u2}
    Events = {e1}
    EventIds = {e1, unknown}
    Capacity <- MCCapacity
    Keys = {k1}
    NoKey = NoKey
    Requests <- GeneralAdmission
    Attempts = 1
    MaxStalls = 1
    MaxJobs = 2
    MaxLapses = 1
    MaxRetries = 2
    MaxLostAcks = 0
    Cancellers = {c1}
SYMMETRY WorkerSymmetry
INVARIANTS
    NeverOversold
CHECK_DEADLOCK FALSE
