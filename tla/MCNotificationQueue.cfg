SPECIFICATION FairSpec
CONSTANTS
    Jobs = {j1, j2}
    Pubkeys = {p1}
    Invitations = {i1}
    Workers = {n1}
    Keepers = {k1, k2}
    None = None
    BatchLimit = 1
    MaxTime = 1
    MaxAttempts = 1
    MaxLost = 1
    MaxCrashes = 1
INVARIANTS
    TypeOK
    RemindersAreBounded
PROPERTY OldJobIsToldOrWrittenOff
CHECK_DEADLOCK FALSE
