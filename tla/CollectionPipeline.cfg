\* Two runs of a source with two versions, under either executor.
CONSTANTS
    i1 = i1
    i2 = i2
    i3 = i3
    i4 = i4
    Runs = {r1, r2}
    Items = {i1, i2, i3, i4}
    Feed <- RevisedFeed
    Window <- RevisedWindow
    Executors = {"local", "celery"}
    MaxRetries = 1
    SaveAttempts = 2
    MaxFaults = 1
SPECIFICATION FairSpec
INVARIANTS CursorIsBacked
PROPERTIES CatchesUp TaskSettles
CHECK_DEADLOCK FALSE
