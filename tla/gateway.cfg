SPECIFICATION GatewaySpec
CONSTANTS
    c1 = c1
    m1 = m1
    k1 = k1
    s1 = s1
    r1 = r1
    r2 = r2
    Clients = {c1}
    RequestsPerMinute = 1
    TicksPerMinute = 2
    IdleLimit = 2
    Window = 1
    Movies = {m1}
    Cinemas = {k1}
    Showtimes = {s1}
    Requests = {r1, r2}
    TokenLife = 3
SYMMETRY Slots
INVARIANTS
    GatewayTypeOK
    NoOrphanShowtimes
    NoStaleAnswer
    AnswersTellTheTruth
    TypeOK
    WindowIsBounded
    OneDeleteWins
PROPERTIES
    ImplementsTokenBucket
