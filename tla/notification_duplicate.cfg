SPECIFICATION Spec
CONSTANTS
    m1 = m1
    m2 = m2
    p1 = p1
    bad = bad
    c1 = c1
    c2 = c2
    Messages = {m1, m2}
    Payments = {p1}
    PaymentOf <- OneEvent
    Unreadable = bad
    Consumers = {c1}
    Env = {"crash"}
INVARIANTS
    NoDuplicateEmail
