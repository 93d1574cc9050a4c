SPECIFICATION Spec
CONSTANTS
    s1 = s1
    s2 = s2
    b1 = b1
    b2 = b2
    b3 = b3
    w1 = w1
    w2 = w2
    w3 = w3
    j1 = j1
    Seats = {s1, s2}
    Requests <- SeatLists
    Bookings = {b1, b2, b3}
    Workers = {w1, w2, w3}
    Jobs = {}
    TTL = 2
    MaxDelay = 1
    Env = {}
INVARIANTS
    HoldsAreLocked
    NoOrphanLocks
    SoldSeatsAreConfirmed
    NoDoubleSale
PROPERTIES
    OutcomeIsFinal
    ImplementsLedger
SYMMETRY Interchangeable
