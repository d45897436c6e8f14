\* Two jobs compete for the browser in one process.
CONSTANTS
    Executors = {"local"}
    Jobs = {j1, j2}
    Length <- OneQuestion
    PhaseOne <- First
    Captures = {c1}
    Workers = {w1, w2}
    Faulty = {w2}
    Fragile = {}
    Ghost = Ghost
    NoOwner = NoOwner
    NoJob = NoJob
    NoCapture = NoCapture
    Damaged = Damaged
    MaxCrashes = 1
SPECIFICATION FairSpec
INVARIANTS DriverHoldsLease
PROPERTIES LeaseIsReturned
CHECK_DEADLOCK FALSE
