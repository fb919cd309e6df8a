SPECIFICATION Spec
CONSTANTS
    DraftIds = {d1}
    Slots = {s1}
    InviteIds = {i1, i2}
    Wallets = {w1, w2}
    Requests = {r1, r2, r3}
    None = None
    InviteExpiry = 0
    MaxTime = 1
CHECK_DEADLOCK FALSE
INVARIANT TransactionNamesEveryParty
