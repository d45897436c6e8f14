\* One request of any kind, one probe, two connections, one break, one restart.
CONSTANTS
    r1 = r1
    p1 = p1
    Requests = {r1}
    Probes = {p1}
    ProbeLimit = 1
    MaxConn = 2
    MaxBreaks = 1
    MaxRestarts = 1
SPECIFICATION Spec
INVARIANTS EvidenceBeforeCleanup
PROPERTIES ImplementsRemoteTask DispatchReturns EdgeStopsAfterLoss
CHECK_DEADLOCK FALSE
