SPECIFICATION ReaderSpec
CONSTANTS
    u1 = u1
    u2 = u2
    e1 = e1
    unknown = unknown
    Workers = {w1}
    Nobody = Nobody
    Users = {u1, u2}
    Events = {e1}
    EventIds = {e1, unknown}
    Capacity <- MCCapacity
    Keys = {}
    NoKey = NoKey
    Requests <- MCRequests
    Attempts = 3
    MaxStalls = 1
    MaxJobs = 3
    Callers = {c1, c2, c3}
    MaxJoins = 4
    MaxLost = 1
    MaxResends = 1
    PageSize = 2
SYMMETRY CallerSymmetry
INVARIANTS
    WaitlistTypeOK
    PromotedOnce
    PromotedInOrder
    PromotionsReachQueue
PROPERTIES
    WalkSeesStayers
CHECK_DEADLOCK FALSE
