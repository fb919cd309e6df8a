SPECIFICATION FairSpec
CONSTANTS
    Jobs = {j1, j2}
    Pubkeys = {p1}
    Invitations = {i1}
    Workers = {n1}
    Keepers = {k1}
    None = None
    BatchLimit = 1
    MaxTime = 1
    MaxAttempts = 1
    MaxLost = 0
    MaxCrashes = 0
PROPERTY EveryPendingJobIsTried
CHECK_DEADLOCK FALSE
