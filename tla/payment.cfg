SPECIFICATION OutcomeSpec
CONSTANTS
    b1 = b1
    p1 = p1
    p2 = p2
    p3 = p3
    o1 = o1
    o2 = o2
    Bookings = {b1}
    Payments = {p1, p2}
    Others = {o1, o2}
    Env = {"crash", "leave", "timeout", "dbFault", "brokerFault"}
INVARIANTS
    TypeOK
    SuccessMeansConfirmed
    EventMeansSold
    OneSuccessPerBooking
    OnlyFaultsLose
SYMMETRY Interchangeable
CHECK_DEADLOCK FALSE
