CONSTANTS
    p1 = p1
    p2 = p2
    p3 = p3
    h1 = h1
    Requests = {r1, r2}
    Keys = {k1, k2}
    Payments = {p1, p2, p3}
    Transfers = {t1}
    Hash <- MCHash
    Limit = 2
    None = None
SPECIFICATION Spec
SYMMETRY Symmetry
INVARIANTS
    PaidOnce
    FailedIsFinal
    SpentIsCounted
    PaidUnderLimit
CHECK_DEADLOCK FALSE
