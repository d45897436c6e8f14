CONSTANTS
    Calls = {h1, h2}
    Bodies = {b1, b2}
    Summaries = {c1, c2}
    NoBody = NoBody
    NoSummary = NoSummary
    DispatchLease = 1
    TriggerTimeout = 1
    MaxClaims = 3
SPECIFICATION IIISpec
SYMMETRY Symmetry
INVARIANTS OneTriggerAtOnce IntentIsCommitted LogMatchesLedger
PROPERTIES OpenCancellationStays ObservationStands
