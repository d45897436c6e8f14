CONSTANTS
    Executions = {e1}
    Tasks = {t1, t2}
    Requests = {r1, r2}
    Submitters = {r1}
    NoTask = NoTask
    NoExecution = NoExecution
    Executors = {"local", "celery"}
    MaxMessages = 1
SPECIFICATION FairSpec
INVARIANTS RunningIsOwned LocalSingleRunner
PROPERTIES LostWorkStops OrphanIsRecovered QueuedSurvivesDowntime
