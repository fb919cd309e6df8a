SPECIFICATION Spec
CONSTANTS
    Users = {u1, u2}
    DraftIds = {d1, d2}
    Handlers = {h1, h2, h3}
    None = None
    FreeTier = 2
    MaxDirect = 1
SYMMETRY Symmetry
INVARIANTS
    TypeOK
    OverdrawBoundedByConcurrency
    PaidDraftsAreCounted
