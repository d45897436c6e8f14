\* Two calls of the same or of two messages, two dispatches, one other request.
CONSTANTS
    c1 = c1
    c2 = c2
    m1 = m1
    m2 = m2
    d1 = d1
    d2 = d2
    q1 = q1
    Calls = {c1, c2}
    Messages = {m1, m2}
    Dispatches = {d1, d2}
    Requesters = {q1}
    MaxCrashes = 1
SPECIFICATION Spec
INVARIANTS OneRunningTurn NativeIsLocked
PROPERTIES TurnIsFinal
SYMMETRY Symmetry
CHECK_DEADLOCK FALSE
