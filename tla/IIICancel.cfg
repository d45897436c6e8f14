CONSTANTS
    Calls = {h1, h2}
    Bodies = {b1}
    Summaries = {c1}
    NoBody = NoBody
    NoSummary = NoSummary
    DispatchLease = 1
    TriggerTimeout = 1
    MaxClaims = 2
SPECIFICATION IIISpec
INVARIANT CertainMeansUnsent
