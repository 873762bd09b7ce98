SPECIFICATION SeatSpec
CONSTANTS
    u1 = u1
    u2 = u2
    e1 = e1
    e2 = e2
    s1 = s1
    s2 = s2
    s3 = s3
    Workers = {r1, r2}
    Nobody = Nobody
    Users = {u1, u2}
    Events = {e1, e2}
    EventIds = {e1, e2}
    Capacity <- MCCapacity
    Keys = {}
    NoKey = NoKey
    Requests = {}
    MaxRetries = 2
    MaxLostAcks = 1
    Cancellers = {c1}
    Seats = {s1, s2, s3}
    SeatEvent <- MCSeatEvent
    Orders <- MCOrders
    MaxCalls = 2
    MaxAborts = 1
SYMMETRY RequestSymmetry
INVARIANTS
    BookingHasItsSeats
CHECK_DEADLOCK FALSE
