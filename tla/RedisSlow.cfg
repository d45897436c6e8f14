CONSTANTS
    Endpoints = {e1}
    Tasks = {t1, t2, t3}
    Free = Free
    Ghost = Ghost
    NoEndpoint = NoEndpoint
    LeasePeriods = 3
    Slow = {t3}
    RenewalErrors = TRUE
SPECIFICATION FairSpec
INVARIANTS TimelyOwnerHolds SharingNeedsFailure
PROPERTIES GhostExpires LostLeaseStops
CHECK_DEADLOCK FALSE
