SPECIFICATION FairSpec
CONSTANTS
    Loopers = {event_listener}
    Scanners = {expiry_worker, refund_worker}
    Keepers = {keeper}
    Critical = {keeper}
INVARIANTS
    TypeOK
    HealthyMeansNoTrouble
PROPERTIES
    AnswersNeverImprove
    ImplementsHealthReport
CHECK_DEADLOCK FALSE
