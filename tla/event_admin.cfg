SPECIFICATION AdminSpec
CONSTANTS
    u1 = u1
    e1 = e1
    Workers = {w1, w2}
    Nobody = Nobody
    Users = {u1}
    Events = {e1}
    EventIds = {e1}
    Capacity <- MCCapacity
    Keys = {}
    NoKey = NoKey
    Requests <- MCRequests
    MaxRetries = 1
    MaxLostAcks = 0
    Cancellers = {c1}
    Admins = {a1}
    Sizes = {2}
    Numbers <- MCNumbers
    MaxEdits = 2
    MaxBookings = 2
    MaxLapses = 1
SYMMETRY AdminSymmetry
INVARIANTS
    AdminTypeOK
    BookedEventsListed
    CounterFollowsOffers
    SoldFromOffer
PROPERTIES
    StatsNeverOverstate
CHECK_DEADLOCK FALSE
