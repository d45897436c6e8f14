SPECIFICATION FairSpec
CONSTANTS
    Callers = {c1, c2}
    NoCaller = NoCaller
    MaxAttempts = 3
    RowLocks = TRUE
INVARIANTS
    AttemptPostedOnce
    EveryPostIsAccounted
    OutcomeIsReceipted
PROPERTIES
    CancelBeforeBoundary
    CallsReturn
CHECK_DEADLOCK FALSE
