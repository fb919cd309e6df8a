SPECIFICATION Spec
CONSTANTS
    Payments = {p1, p2}
    Drafts = {d1, d2}
    Agreements = {a1, a2}
    Servers = {s1, s2}
    None = None
    PayWindow = 0
    LateWindow = 2
    RowLimit = 1
    MaxParties = 1
    MaxTime = 1
    MaxCrashes = 1
SYMMETRY Symmetry
INVARIANTS
    TypeOK
    OnlyOwedRefunds
    RefundsAreOpenedOncePerServer
PROPERTY StatusFollowsMachine
CHECK_DEADLOCK FALSE
