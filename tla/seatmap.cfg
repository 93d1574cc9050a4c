SPECIFICATION SeatMapSpec
CONSTANTS
    s1 = s1
    s2 = s2
    b1 = b1
    b2 = b2
    w1 = w1
    Seats = {s1, s2}
    Requests <- Together
    Bookings = {b1, b2}
    Workers = {w1}
    Jobs = {}
    TTL = 1
    MaxDelay = 0
    Env = {"redisFault", "slow"}
INVARIANTS
    TakenSeatsAreShown
