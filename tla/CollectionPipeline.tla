------------------------- MODULE CollectionPipeline -------------------------
(***************************************************************************)
(* The collection runs of one incremental source (backend/pipeline/,       *)
(* backend/executor/, backend/scheduler.py, backend/worker/tasks.py): the  *)
(* scheduler and the trigger route start runs, each fetches the feed from  *)
(* the persisted cursor, stores the batch and then advances the cursor,    *)
(* while other runs of the same source do the same, workers and the API    *)
(* process die and the source or the database fails.                       *)
(*                                                                         *)
(* The feed is a sequence of versions (what its ETag names).  An item has a *)
(* stable identity, and a version shows one revision of it; two revisions  *)
(* or two items never have the same content hash.  A fetch takes the first *)
(* max_entries entries of a version, and its ETag stands for all of it.    *)
(***************************************************************************)
EXTENDS Naturals, Sequences, Functions

CONSTANTS
    Runs,         \* invocations of the pipeline that exist at once
    Items,        \* identities of the source's items
    Feed,         \* Feed[v][i] is the revision of i in version v, 0 if absent
    Window,       \* Window[v]: the items among the first max_entries of version v
    Executors,    \* the executors to consider: "local", "celery"
    MaxRetries,   \* max_retries of the Celery tasks (3 in the code)
    SaveAttempts, \* attempts of DBCursorStore.save (3 in the code)
    MaxFaults     \* bound on failures and crashes

ASSUME PipelineAssumption ==
    /\ Feed \in Seq([Items -> Nat]) /\ Feed # <<>>
    /\ Window \in Seq(SUBSET Items) /\ Len(Window) = Len(Feed)
    /\ Executors \subseteq {"local", "celery"}
    /\ MaxRetries \in Nat /\ SaveAttempts \in Nat \ {0} /\ MaxFaults \in Nat

VARIABLES
    executor,   \* settings.task_executor
    api,        \* the API process, with scheduler and local runs: "up", "down"
    feed,       \* the version the source serves now
    cursor,     \* source_cursors: the version persisted, 0 without a row
    seen,       \* runs whose copy of the cursor row has its current version
    rows,       \* collected_records: the revisions stored of each identity
    task,       \* status of the CollectionTask a run works on
    run,        \* the invocations and their local variables
    faults      \* failures and crashes so far

vars == <<executor, api, feed, cursor, seen, rows, task, run, faults>>
store == <<feed, cursor, seen, rows>>

Unsettled == {"pending", "running", "ai_processing"}
\* "ended" stands for completed and failed, which nothing here tells apart.
Statuses == Unsettled \cup {"none", "ended"}

InSink == {"matching", "flushing", "inserting"}
Working == InSink \cup {"starting", "loading", "fetching", "saving", "writing",
                        "enriching", "closing", "raising"}
\* "stranded": the run has ended and left its task under way.
Stages == Working \cup {"idle", "triggered", "waiting", "stranded"}

\* The locals of an invocation that has not begun.
Blank(at, scheduled, retries) ==
    [at |-> at, scheduled |-> scheduled, retries |-> retries, base |-> 0, version |-> 0,
     updates |-> {}, inserts |-> {}, fresh |-> FALSE, saves |-> 0]

Init ==
    /\ executor \in Executors
    /\ api = "up"
    /\ feed = 1
    /\ cursor = 0
    /\ seen = {}
    /\ rows = [i \in Items |-> <<>>]
    /\ task = [r \in Runs |-> "none"]
    /\ run = [r \in Runs |-> Blank("idle", FALSE, 0)]
    /\ faults = 0

At(r, stage) == run[r].at = stage

\* An invocation that has ended.  A new one may take its place, and the task that a
\* stranded one has left is then no longer followed.
Over(r) == At(r, "idle") \/ At(r, "stranded")

Goes(r, stage) == run' = [run EXCEPT ![r].at = stage]

\* The run goes on to a stage that uses none of the locals but `fresh`.
GoesOn(r, stage) ==
    run' = [run EXCEPT ![r] = [Blank(stage, run[r].scheduled, run[r].retries)
                               EXCEPT !.fresh = run[r].fresh]]
Marks(r, status) == task' = [task EXCEPT ![r] = status]

\* What a fetch of version v returns.
Entries(v) == {i \in Window[v] : Feed[v][i] # 0}

\* A failure or a crash, while the bound allows one.
Fault == faults < MaxFaults /\ faults' = faults + 1

-----------------------------------------------------------------------------
(* Starting a run *)

\* The scheduler finds the schedule due and dispatches it; the local executor
\* skips a schedule whose previous run has not ended.
ScheduleFires(r) ==
    /\ Over(r)
    /\ executor = "local" =>
          /\ api = "up"
          /\ \A s \in Runs : run[s].scheduled => Over(s)
    /\ run' = [run EXCEPT ![r] = Blank("waiting", TRUE, 0)]
    /\ Marks(r, "none")
    /\ UNCHANGED <<executor, api, store, faults>>

\* The trigger route commits the task ...
Trigger(r) ==
    /\ Over(r) /\ api = "up"
    /\ run' = [run EXCEPT ![r] = Blank("triggered", FALSE, 0)]
    /\ Marks(r, "pending")
    /\ UNCHANGED <<executor, api, store, faults>>

\* ... and dispatches it.
TriggerDispatch(r) ==
    /\ At(r, "triggered")
    /\ Goes(r, "waiting")
    /\ UNCHANGED <<executor, api, store, task, faults>>

\* The broker refuses the message: the request fails, the task stays pending.
TriggerDispatchFails(r) ==
    /\ At(r, "triggered") /\ executor = "celery"
    /\ Fault
    /\ run' = [run EXCEPT ![r] = Blank("idle", FALSE, 0)]
    /\ UNCHANGED <<executor, api, store, task>>

\* A scheduled run creates its task, or finds it after a redelivery or retry.
Occurrence(r) ==
    /\ At(r, "waiting") /\ run[r].scheduled
    /\ Marks(r, IF task[r] = "none" THEN "pending" ELSE task[r])
    /\ Goes(r, "starting")
    /\ UNCHANGED <<executor, api, store, faults>>

\* Phase 1: the task is marked running.
Begin(r) ==
    /\ At(r, "starting") \/ (At(r, "waiting") /\ ~run[r].scheduled)
    /\ Marks(r, "running")
    /\ Goes(r, "loading")
    /\ UNCHANGED <<executor, api, store, faults>>

-----------------------------------------------------------------------------
(* Collecting *)

\* The persisted cursor seeds the staging store.
LoadCursor(r) ==
    /\ At(r, "loading")
    /\ run' = [run EXCEPT ![r].base = cursor, ![r].at = "fetching"]
    /\ UNCHANGED <<executor, api, store, task, faults>>

\* Mutant: the fetch persists the cursor itself instead of staging it.
FetchCommitsCursor(r) ==
    /\ At(r, "fetching")
    /\ cursor' = feed
    /\ seen' = {}
    /\ run' = [run EXCEPT ![r].version = IF run[r].base = feed THEN 0 ELSE feed,
                          ![r].at = IF run[r].base = feed THEN "saving" ELSE "matching"]
    /\ UNCHANGED <<executor, api, feed, rows, task, faults>>

\* A conditional GET: 304 for the version of the cursor, with no items, and the
\* first entries of the current version otherwise.  The new cursor, which names the
\* whole version, is only staged.
Fetch(r) ==
    /\ At(r, "fetching")
    /\ run' = [run EXCEPT ![r].version = IF run[r].base = feed THEN 0 ELSE feed,
                          ![r].at = IF run[r].base = feed THEN "saving" ELSE "matching"]
    /\ UNCHANGED <<executor, api, store, task, faults>>

\* The fetch fails: a retryable error is raised, another one ends the run.
FetchFails(r) ==
    /\ At(r, "fetching")
    /\ Fault
    /\ \E stage \in {"raising", "closing"} : GoesOn(r, stage)
    /\ UNCHANGED <<executor, api, store, task>>

-----------------------------------------------------------------------------
(* Storing: one transaction of store_records *)

Batch(r) == IF run[r].version = 0 THEN {} ELSE Entries(run[r].version)

\* The revision of item i in the batch of run r, and the items of S whose
\* revision is stored.
Revision(r, i) == Feed[run[r].version][i]
Stored(r, S) == {i \in S : Revision(r, i) \in Range(rows[i])}

\* SELECT of the rows with the identities of the batch (of several rows with
\* one identity any may come last): a row with another content is to be
\* updated, an item without a row to be inserted.  The SELECT of the hashes
\* before it finds no more: a row with the hash of an item has its identity.
MatchIdentities(r) ==
    /\ At(r, "matching")
    /\ LET matched == {i \in Batch(r) : rows[i] # <<>>}
       IN  \E row \in [matched -> UNION {DOMAIN rows[i] : i \in Items}] :
              /\ \A i \in matched : row[i] \in DOMAIN rows[i]
              /\ run' = [run EXCEPT
                    ![r].updates = {<<i, row[i]>> : i \in
                        {j \in matched : rows[j][row[j]] # Revision(r, j)}},
                    ![r].inserts = Batch(r) \ matched,
                    ![r].at = "flushing"]
    /\ UNCHANGED <<executor, api, store, task, faults>>

\* UNIQUE(source_id, content_hash) refuses a row with a revision another has.
Collides(r) ==
    \/ \E u \in run[r].updates : \E k \in DOMAIN rows[u[1]] \ {u[2]} :
          rows[u[1]][k] = Revision(r, u[1])
    \/ Stored(r, run[r].inserts) # {}

\* The rows after the updates and inserts of run r, of which `new` are inserted.
Written(r, updates, new) ==
    [i \in Items |->
        LET old == [k \in DOMAIN rows[i] |->
                       IF <<i, k>> \in updates THEN Revision(r, i) ELSE rows[i][k]]
        IN  IF i \in new THEN Append(old, Revision(r, i)) ELSE old]

\* Mutant: a collision loses the rest of the batch.
FlushSkipsCollisions(r) ==
    /\ At(r, "flushing")
    /\ rows' = IF Collides(r) THEN rows ELSE Written(r, run[r].updates, run[r].inserts)
    /\ run' = [run EXCEPT ![r].updates = {}, ![r].inserts = {}, ![r].at = "saving"]
    /\ UNCHANGED <<executor, api, feed, cursor, seen, task, faults>>

\* The flush and the commit, or a collision, which rolls back the inserts and
\* the updates; only the inserts are tried again.
Flush(r) ==
    /\ At(r, "flushing")
    /\ \/ /\ ~Collides(r)
          /\ rows' = Written(r, run[r].updates, run[r].inserts)
          /\ run' = [run EXCEPT ![r].fresh = run[r].updates # {} \/ run[r].inserts # {},
                                ![r].updates = {}, ![r].inserts = {}, ![r].at = "saving"]
       \/ /\ Collides(r)
          /\ rows' = rows
          /\ run' = [run EXCEPT ![r].updates = {}, ![r].at = "inserting"]
    /\ UNCHANGED <<executor, api, feed, cursor, seen, task, faults>>

\* After the rollback the hashes of the new records are looked up again, and
\* each that is not there is inserted under a savepoint of its own.
InsertSurvivors(r) ==
    /\ At(r, "inserting")
    /\ LET survivors == run[r].inserts \ Stored(r, run[r].inserts)
       IN  /\ rows' = Written(r, {}, survivors)
           /\ run' = [run EXCEPT ![r].fresh = survivors # {}, ![r].inserts = {},
                                 ![r].at = "saving"]
    /\ UNCHANGED <<executor, api, feed, cursor, seen, task, faults>>

\* The sink raises and its transaction is rolled back.
SinkFails(r) ==
    /\ run[r].at \in InSink
    /\ Fault
    /\ \E stage \in {"raising", "closing"} : GoesOn(r, stage)
    /\ UNCHANGED <<executor, api, store, task>>

-----------------------------------------------------------------------------
(* Advancing the cursor, once the sink has accepted the batch *)

\* The staged cursor: the version fetched, or after a 304 the one it began from.
Pending(r) == IF run[r].version # 0 THEN run[r].version ELSE run[r].base

\* save reads the row with its version number ...
SaveRead(r) ==
    /\ At(r, "saving")
    /\ seen' = seen \cup {r}
    /\ run' = [run EXCEPT ![r].saves = @ + 1, ![r].at = "writing"]
    /\ UNCHANGED <<executor, api, feed, cursor, rows, task, faults>>

\* ... and inserts or updates it if that is still its version; if not it tries
\* again, and after the last attempt the error is logged and the run goes on.
SaveWrite(r) ==
    /\ At(r, "writing")
    /\ \/ /\ r \in seen
          /\ cursor' = Pending(r)
          /\ seen' = {}
          /\ GoesOn(r, "enriching")
       \/ /\ r \notin seen
          /\ IF run[r].saves < SaveAttempts THEN Goes(r, "saving") ELSE GoesOn(r, "enriching")
          /\ UNCHANGED <<cursor, seen>>
    /\ UNCHANGED <<executor, api, feed, rows, task, faults>>

\* The database fails in save: a warning, and the run goes on.
SaveFails(r) ==
    /\ run[r].at \in {"saving", "writing"}
    /\ Fault
    /\ seen' = seen \ {r}
    /\ GoesOn(r, "enriching")
    /\ UNCHANGED <<executor, api, feed, cursor, rows, task>>

-----------------------------------------------------------------------------
(* Ending a run *)

\* The AI step, if one is configured and the batch had new records, marks the
\* task; what it and the notifications do changes nothing here.
Enrich(r) ==
    /\ At(r, "enriching")
    /\ \/ run[r].fresh /\ Marks(r, "ai_processing")
       \/ task' = task
    /\ Goes(r, "closing")
    /\ UNCHANGED <<executor, api, store, faults>>

\* Phase 4: the final status.
Finish(r) ==
    /\ At(r, "closing")
    /\ Marks(r, "ended")
    /\ run' = [run EXCEPT ![r] = Blank("idle", FALSE, 0)]
    /\ UNCHANGED <<executor, api, store, faults>>

\* A retryable error is recorded and raised: Celery tries the same task again,
\* the local executor logs it.
Raise(r) ==
    /\ At(r, "raising")
    /\ Marks(r, "ended")
    /\ run' = [run EXCEPT ![r] =
                  IF executor = "celery" /\ run[r].retries < MaxRetries
                  THEN Blank("waiting", run[r].scheduled, run[r].retries + 1)
                  ELSE Blank("idle", FALSE, 0)]
    /\ UNCHANGED <<executor, api, store, faults>>

\* The database fails in a phase of run_collection_pipeline or
\* run_scheduled_pipeline, where nothing catches it: the status stays as it is.
\* Celery tries the task again, the local executor logs the error.
DatabaseFails(r) ==
    /\ run[r].at \in {"waiting", "starting", "loading", "closing", "raising"}
    /\ Fault
    /\ run' = [run EXCEPT ![r] =
                  IF executor = "celery" /\ run[r].retries < MaxRetries
                  THEN Blank("waiting", run[r].scheduled, run[r].retries + 1)
                  ELSE Blank("stranded", FALSE, 0)]
    /\ UNCHANGED <<executor, api, store, task>>

-----------------------------------------------------------------------------
(* The source, the workers and the API process *)

FeedChanges ==
    /\ feed < Len(Feed)
    /\ feed' = feed + 1
    /\ UNCHANGED <<executor, api, cursor, seen, rows, task, run, faults>>

\* A Celery worker dies: its message is delivered again (acks_late), or is lost
\* when only the pool process was killed, which acknowledges it.
WorkerDies(r) ==
    /\ executor = "celery" /\ run[r].at \in Working
    /\ Fault
    /\ \/ run' = [run EXCEPT ![r] = Blank("waiting", run[r].scheduled, run[r].retries)]
       \/ run' = [run EXCEPT ![r] = Blank("idle", FALSE, 0)]
    /\ seen' = seen \ {r}
    /\ UNCHANGED <<executor, api, feed, cursor, rows, task>>

\* The API process dies, with the local runs and the requests it serves.
ApiCrash ==
    /\ api = "up"
    /\ Fault
    /\ api' = "down"
    /\ LET lost == {r \in Runs : executor = "local" \/ At(r, "triggered")}
       IN  /\ run' = [r \in Runs |-> IF r \in lost THEN Blank("idle", FALSE, 0) ELSE run[r]]
           /\ seen' = seen \ lost
    /\ UNCHANGED <<executor, feed, cursor, rows, task>>

\* Mutant: the recovery forgets the tasks that were in the AI step.
ApiRestartSkipsAi ==
    /\ api = "down"
    /\ api' = "up"
    /\ task' = [r \in Runs |-> IF task[r] \in {"pending", "running"} THEN "ended" ELSE task[r]]
    /\ UNCHANGED <<executor, store, run, faults>>

\* It starts again and marks the tasks that were under way as lost.
ApiRestart ==
    /\ api = "down"
    /\ api' = "up"
    /\ task' = [r \in Runs |-> IF task[r] \in Unsettled THEN "ended" ELSE task[r]]
    /\ UNCHANGED <<executor, store, run, faults>>

\* What the event loop or the worker that executes a run does next.
RunStep(r) ==
    \/ TriggerDispatch(r) \/ Occurrence(r) \/ Begin(r) \/ LoadCursor(r) \/ Fetch(r)
    \/ MatchIdentities(r) \/ Flush(r) \/ InsertSurvivors(r)
    \/ SaveRead(r) \/ SaveWrite(r) \/ Enrich(r) \/ Finish(r) \/ Raise(r)

Next ==
    \/ \E r \in Runs :
          \/ ScheduleFires(r) \/ Trigger(r) \/ RunStep(r)
          \/ TriggerDispatchFails(r) \/ FetchFails(r) \/ SinkFails(r) \/ SaveFails(r)
          \/ DatabaseFails(r) \/ WorkerDies(r)
    \/ FeedChanges \/ ApiCrash \/ ApiRestart

Spec == Init /\ [][Next]_vars

\* A run that has been dispatched is executed, the schedule of the source keeps
\* falling due, and the API process is started again.
Fairness ==
    /\ \A r \in Runs : WF_vars(RunStep(r))
    /\ WF_vars(\E r \in Runs : ScheduleFires(r))
    /\ WF_vars(ApiRestart)

FairSpec == Spec /\ Fairness

-----------------------------------------------------------------------------
(* Properties *)

Versions == 0 .. Len(Feed)

RunType ==
    [at : Stages, scheduled : BOOLEAN, retries : Nat, base : Versions, version : Versions,
     updates : SUBSET (Items \X Nat), inserts : SUBSET Items, fresh : BOOLEAN, saves : Nat]

\* Type correctness.  Only a run that holds a batch is in the sink.
TypeOK ==
    /\ executor \in Executors /\ api \in {"up", "down"}
    /\ feed \in Versions \ {0} /\ cursor \in Versions
    /\ seen \subseteq Runs
    /\ rows \in [Items -> Seq(Nat)]
    /\ task \in [Runs -> Statuses]
    /\ run \in [Runs -> RunType]
    /\ \A r \in Runs : run[r].at \in InSink => run[r].version # 0
    /\ faults \in 0 .. MaxFaults

(***************************************************************************)
(* "The cursor never advances past data that did not land" (collector.py): *)
(* each item that a fetch of the cursor's version returns has a row,       *)
(* whatever crashes, failed transactions, colliding inserts of other runs  *)
(* and late saves of older cursors came before.  Presence is meant, not    *)
(* the revision, and not the entries beyond max_entries.                   *)
(***************************************************************************)
CursorIsBacked ==
    cursor # 0 => \A i \in Entries(cursor) : rows[i] # <<>>

(***************************************************************************)
(* After finitely many faults, and once the source has stopped changing,   *)
(* each item that a fetch of it returns has a row at last, as long as the  *)
(* schedule falls due: no lost cursor, lost message or failed run keeps an *)
(* item away for ever.  Which revision of it is stored is not said.        *)
(***************************************************************************)
CatchesUp ==
    (feed = Len(Feed)) ~> (\A i \in Entries(feed) : rows[i] # <<>>)

(***************************************************************************)
(* Under the local executor no task stays under way for ever whatever step *)
(* it has reached: it ends, or the next start of the API process declares  *)
(* it lost.  The one that stays is stranded: the database refused a status *)
(* of it outside any handler, and the API process has not stopped since (a *)
(* crash leaves no stranded run, so its start has to settle the task).     *)
(***************************************************************************)
TaskSettles ==
    \A r \in Runs :
        (executor = "local" /\ task[r] \in Unsettled)
            ~> (task[r] \notin Unsettled \/ At(r, "stranded"))

(***************************************************************************)
(* What store_records says of an update that is rolled back beside a       *)
(* colliding insert: "the next natural collection run will see the same    *)
(* mismatch and retry the update then", so that the revision the source    *)
(* ends with is stored at last.                                            *)
(***************************************************************************)
RevisionsCatchUp ==
    (feed = Len(Feed)) ~> (\A i \in Entries(feed) : Feed[feed][i] \in Range(rows[i]))
=============================================================================
