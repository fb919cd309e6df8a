SPECIFICATION RestartSpec
CONSTANTS
    Agreements = {a1}
    Parties = {p1}
    Servers = {s1}
    None = None
    MaxVotes = 1
    MaxClaims = 1
    MaxCrashes = 1
PROPERTY MissedExpirationsAreCaughtUp
CHECK_DEADLOCK FALSE
