SPECIFICATION Spec
CONSTANTS
    Agreements = {a1}
    Parties = {p1}
    Servers = {s1, s2}
    None = None
    MaxVotes = 1
    MaxClaims = 1
    MaxCrashes = 1
SYMMETRY Symmetry
VIEW View
INVARIANTS
    TypeOK
    IndexFollowsChain
    ExpiryLockIsExclusive
PROPERTY ConclusionIsFinal
CHECK_DEADLOCK FALSE
