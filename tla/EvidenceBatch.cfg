CONSTANTS
    k1 = k1
    k2 = k2
    f1 = f1
    Calls = {h1, h2}
    Keys = {k1, k2}
    ForeignKeys = {f1}
    Reports <- SomeReports
    ReceiptIds = {i1, i2}
    Outcomes <- SomeOutcomes
    NoFact = NoFact
    DeadLetters = {k2}
    MaxRevisions = 2
SPECIFICATION Spec
SYMMETRY Symmetry
INVARIANTS FinalityIsBacked AnswerIsFresh
PROPERTY FinalityReplays
