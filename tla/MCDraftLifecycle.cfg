SPECIFICATION FairSpec
CONSTANTS
    DraftIds = {d1}
    Slots = {s1, s2}
    InviteIds = {i1, i2}
    Wallets = {w1}
    Requests = {r1, r2, r3}
    None = None
    InviteExpiry = 0
    MaxTime = 1
CHECK_DEADLOCK FALSE
INVARIANTS
    TypeOK
    SlotsMatchInvitations
    ReadyIffResolved
    SubmittedOnlyIfPaidAndResolved
    CreatorNotifiedAtMostOnce
PROPERTIES
    ImplementsDraftContract
    ResolvedSlotsAreFinal
    InvitationOutcomeIsFinal
    RequestsFinish
    StaleInvitationsExpire
