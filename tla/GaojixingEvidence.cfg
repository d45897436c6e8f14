\* One job with a question in each phase, under either executor.
CONSTANTS
    Executors = {"local", "celery"}
    Jobs = {j1}
    Length <- TwoQuestions
    PhaseOne <- First
    Captures = {c1, c2}
    Workers = {w1, w2}
    Faulty = {w2}
    Fragile = {1}
    Ghost = Ghost
    NoOwner = NoOwner
    NoJob = NoJob
    NoCapture = NoCapture
    Damaged = Damaged
    MaxCrashes = 1
SPECIFICATION Spec
SYMMETRY CaptureSymmetry
INVARIANTS AskedOnce EvidenceStands WaitingIsResumable
PROPERTIES ReviewedIntact
CHECK_DEADLOCK FALSE
