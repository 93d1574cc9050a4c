SPECIFICATION Spec
CONSTANTS
    s1 = s1
    s2 = s2
    b1 = b1
    b2 = b2
    b3 = b3
    w1 = w1
    w2 = w2
    w3 = w3
    j1 = j1
    Seats = {s1, s2}
    Requests <- Together
    Bookings = {b1, b2}
    Workers = {w1, w2}
    Jobs = {j1}
    TTL = 1
    MaxDelay = 0
    Env = {"gap", "crash","leave","dbFault","duplicate","lateCancel","slow"}
INVARIANTS
    TypeOK
    ConfirmedSeatsAreSold
SYMMETRY Interchangeable
