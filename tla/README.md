# Verification of the OpenCLI Razormind backend

This directory holds TLA+ models of the parts of the backend whose correctness
depends on the order in which concurrent handlers, workers, crashes and messages
take effect, the TLC configurations that check them, and TLAPS proofs. Paths
below are relative to the repository root.

## 1. The system

The product path is Project -> Workflow -> Run -> Records and Evidence ->
Delivery. One FastAPI process (`backend/main.py`) serves the API and runs
background tasks; work is carried out by asyncio tasks of that process
(`task_executor = local`) or by Celery workers. The database is SQLite by
default and PostgreSQL optionally. Three facts about the persistence layer shape
every model:

* an ORM flush is `UPDATE ... WHERE id = ...` of the attributes that differ from
  the copy the session read, so a handler that reads, decides and writes later
  can overwrite what happened in between;
* `SELECT ... FOR UPDATE` holds the row until the commit on PostgreSQL and is
  not rendered on SQLite;
* sessions use `expire_on_commit=False`, so an object survives its commit
  unchanged until it is refreshed.

### Inventory

| Component | State | Operations | Hard behaviour |
|---|---|---|---|
| Managed acquisition (`acquisition/runner.py`, `services/acquisition_service.py`, `api/v1/geo_acquisition.py`, `executor/`) | execution row with status and lease; task table of the local executor; broker messages | submit, queue, dispatch, claim, heartbeat, finish, fail, cancel, sweep, startup recovery | lease expiry under a live worker, stale ORM writes, lost and repeated messages, API restart |
| Delivery execution and controlled receiver (`workflow/delivery_execution.py`, `api/v1/controlled_receiver_routes.py`) | execution row with lease, send mark and final outcome; append-only results and reconciliations; the receiver's durable decision | execute (claim, reserve, boundary, post, record, retry), stale-lease recovery, cancel, reconcile, deliver, status | concurrent calls with network waits and sleeps between transactions, crash at any point, late arrivals |
| Delivery authorization (`workflow/delivery_authorization.py`) | frozen decisions and target revisions | authorize, revise, read | races between a decision and a revision |
| Browser pool (`browser_pool.py`) | slot tokens, profile locks, reservations; Redis leases | acquire, release, renew, add and remove endpoints | token loss, lease loss, reservations made while one waits |
| Agent gateway (`ws_agent_manager.py`, `api/v1/nodes.py`, `agent_server.py`) | connections, pending futures, retained terminals, status probes; tasks and cached terminals at the edge | register, dispatch, event, acknowledge, answer, cancel, probe, disconnect | frames of old connections, cancellation racing the answer, restarts of either side |
| Agent conversations (`services/agent_conversation_service.py`, `agent_native_chat.py`) | conversation and turn rows, runners of the process, remote dispatches | send, cancel, close, reconcile, recover | claims decided on a snapshot, proofs about an earlier dispatch, crash while a native execution is alive |
| Gaojixing collection (`workflow/gaojixing_*.py`, `services/gaojixing_collection_service.py`) | job and checkpoint rows, raw capture files, one global lease with a fence | ensure, claim, advance, accept, wait, resume, review, release, startup recovery | a worker that has lost its lease, a crash after the question was asked, damaged files |
| III collection (`workflow/iii_collection_store.py`, `iii_collection_dispatch.py`) | command, attempt and outbox row, lifecycle observations, run events | submit, resume, claim, trigger, finish, cancel, lifecycle callback, status | unlocked copies of the outbox row, repeated and reordered callbacks |
| Evidence batches (`workflow/evidence_batch_materializer.py`) | report, receipts, manifest revisions; ODP's state | ingest report and receipt, materialize, recover | facts that arrive while ODP is being asked, records that move between two queries |
| Collection pipeline and scheduler (`scheduler.py`, `pipeline/`, `executor/`, `worker/tasks.py`) | tasks, runs, records, the source's cursor | fire, trigger, fetch, store, advance the cursor, enrich, finish, retry | crash between store and cursor, colliding inserts, racing cursor saves, lost workers |
| Intelligence store (`workflow/intelligence_store.py`, `intelligence_outbox.py`) | revisions, outbox | append, claim, acknowledge | concurrent revisions |
| Research runs (`services/research_service.py`, `workflow/research_*.py`) | run rows, in-process tasks | queue, execute, recover, shut down | restart, duplicate execution |
| Control cycle (`control/`) | ledger, gate, kill switch | observe, decide, actuate, resume | stop racing an actuation |
| Plan IR and workflow compiler (`plan_ir/`, `workflow/compiler.py`, `patcher.py`) | documents | validate, compile, patch | recursion over graphs |
| Workbench and browser spaces (`services/`) | revisioned documents | propose, apply | lost updates |
| ODP data plane (`odp-rs/`) | streams, dedup window, store | ingest, relay, reap | redelivery |
| Identity, frontend, migrations, adapter packs | - | - | none that a model would reach |

How they meet: the scheduler and the API dispatch pipeline runs and acquisitions
through one executor; acquisitions and channels borrow a browser from the pool;
conversations and remote collections go through the agent gateway; an III
attempt's callbacks and receipts feed the evidence batch, which asks ODP; a
delivery sends what was collected. Each arrow crosses a transaction boundary or
a process boundary, which is where the hazards in PROJECT.json sit.

## 2. Modules

### AcquisitionExecution

One row per idempotency key: `status`, `owner` (`lease_owner`) and `expired`
(`lease_expires_at <= now`). A runner invocation is a task with a position
(`pc`) in `run_acquisition_execution` and the execution it works on (`job`); its
identity stands for the uuid it draws as lease owner. A handler (`req`) carries
the copy of the row it has read. `toDispatch` is the list the recovery has still
to dispatch after its commit, `messages` the broker's queue. Every action is one
SQL statement or one in-process step:

* `SubmitInsert`, `SubmitRefresh`, `QueueWrite`, `QueueRefresh`,
  `SubmitDispatch`, `SubmitExisting`: POST /executions;
* `CancelRead`, `CancelWrite`, `CancelExecutor`, `CancelAwaited`: the cancel route;
* `Claim`, `Prepare`, `Heartbeat`, `HeartbeatError`, `CollectEnds`, `Reaped`,
  `FinishRead`, `FinishWrite`: the runner and its heartbeat;
* `Sweep`, `RecoveryDispatch`, `RecoveryDispatchFails`, `ApiCrash`,
  `ApiRestart`: the sweeper, the lifespan hook and the process;
* `WorkerTakes`, `TaskDies`, `LeaseExpires`: the environment.

`revoked` are the executions whose Celery task id a cancellation has revoked: each
worker may remember it and drop (`WorkerDiscards`) messages about them, later
deliveries included, or may have missed the broadcast.

`executor` is `task_executor`, chosen once among `Executors`: `executor/local.py`
or `executor/celery_exec.py`. `Submitters` are the handlers that may submit.

### AcquisitionExecutionProofs

The theorems about AcquisitionExecution (section 5).

### DeliveryExecution

One frozen decision, its row, its results (`results`, by attempt number), its
reconciliations (`evidence`), and the receiver's `durable` decision. `call` holds
the calls in progress: the step, the session's copy of the row, the attempt
number, the response and the `retry` local, which Python leaves unbound until an
attempt assigns it. `lock` is the row lock (and, while a claim is opened, the
decision's lock, which every execute call takes first). `RowLocks` selects the
database. Actions follow `execute_delivery` statement by statement between two
suspension points; a takeover of a stale lease is `OpenLeased`, then `Reset` and
`Reopen` or `Ambiguous`. Posts travel on `wire` and may arrive after the caller
has timed out (`Arrives`).

### DeliveryExecutionProofs

The theorems about DeliveryExecution (section 5).

### BrowserPool

What the two pools share: the endpoints. Where both
pools would have a definition of one name, that of RedisBrowserPool is called after
the lease (`AcquireLease`, `LeaseSpec`).

### LocalBrowserPool

The in-process pool. `current` is `_slots`: the queue an endpoint has now; a
queue that was popped by `remove_endpoint` lives on for those who wait on it, so
queues are numbered per endpoint. `tokens` are the queues that hold their token,
`lock` the profile locks, `name`, `kind` and `ready` the settings, `accounts` and
`spaces` the durable reservations. `caller` is a call of `acquire`: `Acquire` and
`Admit` (first reading of the reservations, checks), `TakeSlot` (routed) or
`AnyStart`, `RaceRun`, `RaceWake`, `RaceEnd` (`_acquire_any`), `LockProfile`,
`Recheck` (second reading), `Release`; `GiveUp` is a timeout or cancellation and
leaves `orphans`, the `get()` tasks of an abandoned race. `ReserveAccount` is
account creation, which runs inside `acquire`. `RemoveEndpoint`, `AddEndpoint`,
`RemoveAccount` and `Configure` are the routes, nodes and the hydration that
change the pool under its users; the values they configure come from rows and
reports outside the model and are left open within the sets the constants name.

### RedisBrowserPool

The lease of an endpoint in Redis. `lease` and `age` are the keys and their
expiry, counted in renewal periods; `at`, `candidates`, `ep`, `renewal` and `due`
follow one call of `acquire` and its `renew` task. `Tick` lets a period pass, but
not before every task outside `Slow` has made the renewal that is due. Reservations
are left open: `create_account` refuses this pool, and what a Browser Space reserves
only narrows the choice (`AcquireLease`) or ends a task (`Leave`). The fence
counter is not modelled: nothing reads it, and owner strings are unique by their
uuid.

### BrowserPoolProofs

The theorems about both pools (section 5).

### RemoteTask

The abstract specification of the agent gateway: what a caller may conclude about
a remote execution. A request is sent at most once, may start at the edge and is
over once nothing of it can run; the caller gets at most one verdict, "settled"
only when the execution is over or was never sent, and a proof is gained only
when it is over. AgentGateway is shown to implement it and ConversationTurns is
composed with it, so the conversations are checked against the promise and not
against the frames.

### AgentGateway

Both ends of the reverse WebSocket. Connections are numbered; each carries a FIFO
in both directions, may break, and each side notices by itself. Centre: `Register`
and `Disconnect` (with `FailPending`, the sweep of `unregister_connection`),
`Dispatch` (collect), `DispatchStrict` (send_agent_task with its observer),
`Awaited`, `Interrupted`, `CancelConfirmed`, `CancelAwaited`, `PruneRetained`,
`ProbeTask`, `ProbeReturns`, one `Receive...` action per frame, with the event
callback as a suspension of the receive loop (`ReceiveEvent`, then
`EventPersisted` or `EventFails`). Edge: `EdgeConnect`, `EdgeLose`, `EdgeSweep`,
one `EdgeReceive...` action per frame, and a task's life (`EdgeBegin`, `EdgeEmit`,
`EdgeIterationEnds`, `EdgeClose`, `EdgeSend`, `EdgeFlushed`, `EdgeExpire`).
`CenterRestart`, `EdgeRestart`, `WireBreak` and `NativeExit` are the environment.
The refinement mapping (`WasSent`, `Execution`, `Verdict`, `HasProof`) reads the
verdict from the exception or result a strict dispatch returned.

### AgentGatewayProofs

The theorems about AgentGateway (section 5).

### ConversationTurns

One conversation: its row (`conv`, `rev`), its turns (`turn`, `err`, `bound`) and
the runners of the process. `SendMessage`, `CheckDuplicate`, `ReadRevision`,
`Snapshot` and `Claim` are `_insert_running_turn` statement by statement (the
conditional UPDATE decides NOT EXISTS on a snapshot); `Register`, `Dispatch`,
`PersistDispatch`, `GatewaySends`, `Answered`, `Unresolved`, `Reply`,
`RunnerFails` and the `Finish...` actions are the turn itself; `LoadRunning`,
`Reconcile`, `Recover`, `ProbeConfirms`, `ProbeFails`, `SettleTurn`,
`RequestCancel`, `WriteCancel`, `CloseConversation` and `WriteClose` the other
requests. The gateway's steps are RemoteTask's.

### ConversationTurnsProofs

The theorems about ConversationTurns (section 5).

### GaojixingCollection

Job and checkpoint rows, the raw capture files, the global lease row, and the
calls of `run_collection_job` (`worker`). An owner is the worker that carries the
uuid, `Ghost` once nobody does. A fenced transaction is one step, because the
conditional UPDATE or SELECT FOR UPDATE it begins with keeps every other fenced
transaction out (`Fence`). `Faulty` workers may be late, fail in a heartbeat or
raise in any statement; files at `Fragile` positions may be damaged from outside.

### GaojixingCollectionProofs

The theorems about GaojixingCollection (section 5).

### IIICollection

One attempt: the command, its outbox row, the retained observations, the run's
event log, and the handlers with the copy each has read. No handler locks the
row; only the claim is a conditional UPDATE. Time passes in ticks (`Tick`) and is
measured by the lease of the row and by the timeout of each handler's trigger
(`timer`). Nothing obliges a handler to keep pace: `late` records that one has
outstayed what the lease reckons with (`Outstays`), and is read by properties only.
The trigger is a process of its own: `Crash` ends a handler and leaves its trigger
running (`orphan`) until it ends by itself (`OrphanEnds`). The III command line and
the bridge are external: a started trigger may reach III whatever it returns. Its
specification is `IIISpec`, so that its theorems can stand in one module with those
of the pipeline.

### EvidenceBatch

Report, receipts and manifest revisions of one attempt, and ODP. `ReportRead`,
`ReportCommit`, `ReceiptRead`, `ReceiptCommit` check the facts against each other
and insert them without a lock; `Materialize`, `Lock`, `ReadReport`,
`ReadReceipts`, `ReadLatest`, `Reconcile`, `QueryExact`, `QueryDlq`, `QueryPage`
and `Deliver` are one materialization, with ODP free to change between any two of
its queries.

### EvidenceBatchProofs

The theorems about EvidenceBatch (section 5).

### CollectionPipeline

The runs of one source of an incremental channel (RSS) with the legacy sink. The
feed is a sequence of versions, as its ETag names them; an item has an identity and
a version shows a revision of it. `Window` names the items among the first
`max_entries` entries of a version, and only these are fetched (`Entries`).
`ScheduleFires`, `Trigger`, `TriggerDispatch` and `Occurrence` start a run; `Begin`,
`LoadCursor` and `Fetch` bring the batch and stage the cursor; `MatchIdentities`,
`Flush` and `InsertSurvivors` are `store_records` with its collision path;
`SaveRead` and `SaveWrite` the optimistic cursor save; `Enrich`, `Finish` and
`Raise` end it. `FetchFails`, `SinkFails`, `SaveFails`, `DatabaseFails` (outside any
handler: the run ends "stranded", its task under way), `TriggerDispatchFails`,
`WorkerDies` and `ApiCrash` are faults, bounded by `MaxFaults`; `ApiRestart` is the
recovery of the lifespan hook.

### CollectionProofs

The theorems about CollectionPipeline and IIICollection (section 5).

### MC modules

The `MC...` modules give the instances their constants and symmetry sets.
Definitions whose comment begins with "Mutant" are faulty forms of the definition
that follows them, no part of any specification; they show that a property can
fail.

## 3. Runs

| Run | Instance | Checks |
|---|---|---|
| acquisition | 1 row, 2 runners, 2 handlers of which one submits, 1 waiting message, both executors, fairness | a RUNNING row is owned, one runner per execution in a process, lost work stops, orphans and queued work are recovered |
| delivery | 2 calls, 3 attempts, row locks, fairness | one post per attempt, no forgotten post, outcomes only with receipts, a cancellation before the boundary holds, every call returns |
| pool_local | 2 callers, 2 endpoints; one is removed and added again, loses its account and changes its profile name, the other hosts a Space | two tasks meet in a Chrome only after both a re-adding and a renaming, logins are private but there |
| redis_slow | 3 tasks, 1 endpoint, one slow task, renewal errors, fairness | a prompt owner keeps its lease, sharing takes a late task or a failed renewal, abandoned leases expire, losers are stopped |
| agent_gateway | 1 request of any kind, 1 probe, 2 connections, 1 break, 1 restart of either side, fairness | implements RemoteTask, evidence before cleanup, every dispatch returns, the edge stops after a loss |
| conversation_turns | 2 calls, 2 messages, 2 dispatches, 1 other request, 1 crash | one running turn, a native execution keeps the conversation locked, finished turns are final |
| gaojixing_evidence | 1 job of 2 questions, 2 workers of which one is faulty, 2 captures, 1 crash, both executors | a question is asked once, evidence stands, waiting jobs are resumable, review over intact files |
| gaojixing_lease | 2 jobs of 1 question, 2 workers, 1 crash, one process, fairness | prompt workers drive the browser alone, the lease is returned |
| iii_dispatch | 2 handlers, 2 payloads, 2 summaries, lease and timeout of 1 tick (so a lease of 2), 3 claims | intent before dispatch, one handler triggers at a time unless one was late, the log matches the ledger, open cancellations and observations stand |
| iii_cancel | 2 handlers, 1 payload, 1 summary | violation: a cancellation answers with certainty while the trigger runs |
| evidence_batch | 2 handlers, 2 keys and a foreign one, 4 reports, 3 receipts, 2 revisions | finality is backed, answers are fresh, finality is replayed |
| collection_pipeline | 2 runs, 4 items of which one lies beyond the cut, 2 feed versions, 1 fault, both executors, fairness | the cursor is backed by stored rows, what the source serves is present in the end, tasks settle |

Deadlock is not checked where the system may come to rest: a finished row, an
idle pool, a closed conversation, a source whose runs have used their faults.

A type invariant is defined in every module, and proved (section 5) of each.
Every safety property and action property of a passing run is also a theorem; the runs
are where it was found to hold first, and where its mutant fails.

### Bounds

* Acquisition: one row is enough because no step reads two rows except the
  sweep, which treats each on its own. Two runners are the least at which a
  takeover happens, two handlers the least at which a submission races a
  cancellation. `MaxMessages` bounds the broker's queue; one message besides
  those being run is enough for a redelivery.
* Delivery: three attempts give a retry, a takeover between attempts and an
  attempt after it; two calls give a sender and the one that takes over, cancels
  or reconciles.
* Local pool: every property relates at most two callers. Two endpoints are the
  least at which a race has a loser. `MaxQueues` bounds how often an endpoint is
  added; two queues give a holder of an old one and a holder of the new. One
  endpoint is both removed and renamed in use, which is the worst case; the other
  stays and hosts a Space.
* Redis pool: `LeasePeriods` is 3 as in the code (30 s and 10 s). Three tasks
  give an owner, a late former owner and a candidate. One endpoint is enough for the
  invariants, since tasks contend for each lease apart; with two, two prompt tasks
  can keep `Tick` from ever being enabled by taking turns at the other endpoint
  without time passing, which no clock allows, and `LostLeaseStops` would fail of
  that alone.
* Gateway: requests share nothing but the connection, so one is enough for the
  claims about it; two connections give frames of an old one, one break and one
  restart a loss on either side. A probe is needed for a proof after an
  unresolved dispatch.
* Conversations: two calls of the same or of different messages give the race
  for the claim and the repeated request; two dispatches a proof about the
  earlier one.
* Gaojixing: two questions, one in each phase, give an advance with a passed
  predecessor; one prompt and one faulty worker a takeover; the lease run has two
  jobs instead, of one question each, in one process.
* III: a call may end and begin again as another operation, so two handlers give
  every pair of operations in progress at once, and each property is about one pair
  (the theorems of section 5 are for any number). Three claims and a lease of two
  ticks over a timeout of one give a second delivery after an expired claim, and a
  third; two payloads and two summaries a conflict.
* Evidence: two handlers give a materialization with a racing fact, or two of
  them; `DeadLetters` names one key that may go both ways.
* Pipeline: one item stays, one is revised and two are added between the two
  versions, one of them beyond `max_entries`. One fault at any point, on top of the
  collisions and lost saves two runs cause each other without one; `SaveAttempts` 2
  and `MaxRetries` 1 (3 in the code) let both limits be reached.

Symmetry is used only in runs without liveness: over callers (pool_local), calls,
messages and dispatches (conversation_turns), captures (gaojixing_evidence),
handlers, payloads and summaries (iii_dispatch), handlers and receipt identities
(evidence_batch).

### Fairness

* Acquisition: weak fairness of every step of a runner (`RunnerStep`) and of a
  handler (`HandlerStep`) that the event loop or the database completes by
  itself, of lease expiry (time), of the sweep and of the restart; strong
  fairness of the dispatch of a recovered row, as the broker is asked again at
  every start and accepts at last. None of the channel (`CollectEnds`) or of
  clients.
* Delivery: strong fairness of each call's own progress (`Progress`), because a
  waiter of a row lock is served although others take the lock in between: the
  database queues lock requests. The HTTP client's timeout ends every post.
* Redis pool: strong fairness of `Tick`, as time cannot be stopped by steps that
  take no time; weak fairness of Redis answers and of delivering a cancellation.
  None of acquiring, releasing or of the body.
* Gateway: weak fairness of the coroutines of the centre (`CallStep`, with its
  timers), of the edge's task steps (`TaskStep`) and of the edge's sweep after a
  loss. None of connections, of frames, or of native processes that would end by
  themselves.
* Gaojixing: weak fairness of each worker's progress and heartbeat, of the expiry
  of a lease nobody carries, and of the restart. None of messages, resumptions or
  of the expiry under a worker.
* Pipeline: weak fairness of each run's own steps, of the schedule falling due
  and of the restart. Faults are bounded by `MaxFaults`: the source and the
  database work again in the end.

## 4. Findings

**iii_cancel.** `CertainMeansUnsent` fails: `cancel_collection` decides on an
unlocked copy of the outbox row, so a cancellation can commit "cancelled", and the
status deny any uncertainty, while the trigger of a dispatcher that claimed the
row in between is running. PROJECT.json quotes the sentence of the III
specification it disagrees with.

Four more sentences of the code are stated as definitions that TLC finds violated on
the instances named here. No run repeats it; the runs check what does hold instead.

`ExpiredClaimIsQuiet` (IIICollection; iii_cancel's instance with `MaxClaims = 1`) is
the conclusion of the comment in `_claim_outbound`: "an expired claim has no
still-running local trigger and can safely redeliver the same attempt"
(`workflow/iii_collection_dispatch.py:145`). It fails without any delay. Only the
TimeoutError of the waiting handler kills the trigger process (`:131`), so a handler
that dies while it waits leaves it behind, and after the lease the attempt can be
delivered again beside it. What holds is `OneTriggerAtOnce`, about the handlers.

`OneTaskPerChrome` (LocalBrowserPool; pool_local's instance) is the comment "at most
one concurrent task per Chrome instance" (`browser_pool.py:106`). It fails when an
endpoint is removed while a task uses it (`remove_endpoint` "waits for slot to be
free" in its docstring only, `:347`) and added again under another profile name: the
new queue has a new token, and the second task waits at another lock.
`SharingNeedsReadding` says that nothing less will do.

`ExclusiveUse` (RedisBrowserPool; redis_slow's instance, also with `Slow = {}`) is
"Safe across multiple Celery worker processes and machines" (`browser_pool.py:365`).
It fails when a renewal ends with an error of Redis (`:513`): only the release awaits
the renewal task (`:534`), the owner is not cancelled, and its lease expires under it.
`SharingNeedsFailure` says that it takes such an error, or a late task.

`RevisionsCatchUp` (CollectionPipeline; `Items = {i1, i2}`, `Feed <- GrowingFeed`,
`Window <- GrowingWindow`, `Executors = {"local"}`, `MaxFaults = 0`) is what the
comment at `pipeline/storer.py:225` promises of an update that is rolled back beside a
colliding insert. With two overlapping runs and three versions of the feed it fails:
the run that lost the update saves the cursor of that version all the same, and every
later fetch is a 304. `CursorIsBacked` and `CatchesUp` are therefore about presence.

Further disagreements between the code and its texts that the models show when a
constant or a property is changed, without a run of their own:

* an acquisition runner whose lease has expired is not fenced in its last write
  (`acquisition/runner.py:430`);
* a reconciled receipt can be overwritten by the header-error path, and a crash in
  the backoff strands the row (`workflow/delivery_execution.py:550`, `:695`);
* with `RowLocks = FALSE` (SQLite, where FOR UPDATE is not rendered)
  `CancelBeforeBoundary` fails;
* an unrouted acquire drains every free slot of the local pool
  (`browser_pool.py:228`);
* a gaojixing job whose local worker died stays RUNNING if the API restarts
  before its lease has expired (`workflow/gaojixing_worker_runtime.py:113`);
* the III claim does not look at `cancel_requested_at`, so a resume can trigger a
  collection whose cancellation was requested
  (`workflow/iii_collection_dispatch.py:159`);
* a task stays under way when the database fails outside the handlers of
  `run_collection_pipeline` (`pipeline/runner.py:91`), until the API starts again;
* a fetch is cut at `max_entries` while its ETag stands for the whole feed
  (`channels/rss_channel.py:276`): entries beyond the cut are passed by;
* the start of the API marks tasks failed whose Celery workers are alive
  (`main.py:157`); a trigger whose dispatch the broker refuses leaves its task
  pending (`api/v1/tasks.py:93`); a Celery pool process that is killed takes its
  message with it and leaves its task running (`worker/celery_app.py:21`).

Two were met while reading code that is not modelled: the TTL resume of paused
sources is not gated by the kill switch, although the module's rule says that an
engaged switch never mutates a source (`control/cycle.py:174`), and it re-enables
a source an operator has disabled meanwhile.

## 5. Proofs

All theorems hold for any finite or infinite sets of callers, tasks, endpoints,
jobs and runs and any number of attempts, dispatches, revisions and crashes. What
they assume of the constants is the named assumption of each module, which TLC
evaluates on every run; where a theorem needs more (`RowLocks`)
it says so as a hypothesis.

**DeliveryExecutionProofs.** `TypeCorrect`: `TypeOK` is not inductive by itself,
since a loop step uses locals (`attempt`, `response`) whose type depends on the
step having been reached through the one that assigns them; the invariant is
`TypeOK /\ LocalsAssigned`, shown by one lemma per group of actions (opening,
sending, controlling). `LockedReadsAreCurrent`: between its locked read and its
commit a call holds the lock and its copy equals the row. `OthersRespectLock`
shows that no other call's step writes the row while the lock is held, although
the steps that flush without having locked exist: on a database with row locks
their UPDATE waits. `CancellationHolds` is an action property under
`RowLocks = TRUE`: only `BoundaryWrite` can begin a send (`OnlyBoundarySends`),
and the copy it decides on is current, so it has no cancellation.

`AttemptsPostedOnce` and `PostsAreAccounted` need more than types and locks: that a
takeover does not resend is a fact about several calls and the result rows. Under
`RowLocks = TRUE` the invariant `ExecInv` (`ExecutionInvariant`) says that the
attempts with a result are the first ones, that a lease is for the next one
(`LeaseIsNext`), that an unfinished row without a lease has at most one call going on
with it (`HeirInv`), that the holder of a lease has not sent before the boundary
(`HeadInv`) and keeps the row until its attempt has a result (`SentInv`), that the
call at the post is the only one with its number (`PostInv`), and what of a copy
cannot be outdated (`CopyInv`). `OutcomesAreReceipted` needs no locks: the receiver's
decision, the results and the reconciliations only grow (`EvidenceStep`), and a
response that is a receipt is the durable decision (`ReceiptInv`).

**AcquisitionExecutionProofs.** `RunningRowsAreOwned` and `LocalTasksAreSingle` rest
on two facts about any step: a row becomes RUNNING, and changes hands while it is,
only by a claim (`RowsStep`), so the copies that handlers flush by id can take a row
away but give it to nobody; and a task keeps its execution while it lives and, once
it has claimed, leaves the claimed positions only by ending (`TasksStep`), and a
local one is started only when none is in flight for its execution. With types and
`JobsKnown` (what runners and handlers work on exists) both properties are
inductive.

**EvidenceBatchProofs.** A status is published from facts read in five separate
steps. `BatchInv` says of every call what it knows at each of them: the facts it has
read are retained and include those retained when it began (`Sight`), it asks ODP
only about receipts that can be joined, and what ODP has answered is still so
(`Query`), and its answer includes what was retained at its start (`Fresh`). `Grows`
shows that no step takes back a fact, a revision or a commitment, so the knowledge of
every other call stands. `FinalStatusIsBacked` and `AnswersAreFresh` follow;
`RetainedFactsStand` is `Grows` as an action property (`FactsStand`, the one
property that is proved without a run of its own), and `FinalAnswersReplay` holds
because the append looks at the latest revision again under the lock.

**GaojixingCollectionProofs.** None of the four invariants is inductive. `JobsInv`
adds that the questions of a job are taken in order and that the one in progress or
waiting is the current one; `CallsInv` what a call knows while it holds the fence
(`Position`: its question is pending with all before it passed, or in progress, or
its checkpoints are those of the rows); `AskInv` that a call about to ask has the only
permission there is, since a checkpoint leaves `pending` once; `LeaseInv` that a
prompt call has the lease from its claim to the end of its heartbeat. The fence is
what keeps them together: a fenced transaction of one call excludes that another one
holds the fence of the same job, and a late worker without it writes no checkpoint
and no file.
`ReviewsAreIntact` is an action property: only `_finalize_job` enters review, and by
`Position` the digests it read before it locked the fence are those of the rows.

**ConversationTurnsProofs.** `OneRunningTurn` depends on a revision read long before
the conditional UPDATE: `ClaimInv` says that the revision is void once a turn was
inserted. `NativeIsLocked` depends on who may end a turn: `CallInv` (a turn has one
call, registered as long as it has dispatches), `DispatchInv` (at most the current
dispatch of that call may run) and `QueryInv` (a request that goes on to settle a turn
has a proof about its dispatch and no call beside it). Of the gateway only
RemoteTask's steps are used, so the theorems hold of every gateway that implements
it. `OutcomesAreFinal` is an action property from the same invariant.

**AgentGatewayProofs.** `GatewayImplementsRemote` is the refinement: every step of
either end, of the wire and of the environment is a step of RemoteTask or a stutter
under the mapping of AgentGateway. With it the theorems of ConversationTurns, which
use RemoteTask's steps only, hold above the frames. Most steps change nothing the
mapping reads (`RemoteUnchanged` and its kin); those that do need an invariant about
both ends and everything between them, `GatewayInv` (`GatewayInvariant`):

* a task frame is on its way at most once, and only before the edge has started
  (`StartInv`), so no execution begins twice or after its end;
* a result that confirms the cleanup, wherever it is (in the edge's cache, on a
  connection, in a future, in the retained terminal, in a probe's answer), is
  about an execution that is over (`EdgeInv`, `FrameInv`, `EvidenceInv`): this is
  what lets a caller settle, and a probe prove, without asking the edge again;
* a coroutine that waits still has the entries it reads when it is woken
  (`CallInv`, `ProbeInv`), though a disconnect, a pruning or a late frame may
  have changed them;
* the durable event a task waits for is in one place, on its way, with the
  callback or acknowledged, and an acknowledgement is about an event that was
  consumed (`EventInv`).

`EventsConsumedFirst` is the last of them read at the edge: over broken
connections, callbacks that fail and restarts, the edge goes on to the cleanup only
when the centre has persisted the evidence. That at most one event is anywhere is
what excludes an acknowledgement of an earlier one. The invariant was checked on
the instance of agent_gateway before it was proved.

**BrowserPoolProofs**, the in-process pool. Two mechanisms keep tasks apart, and
neither is enough alone. The token: an endpoint that has not been added again has
one queue with one token, which is in the queue, with one caller, or lost with a
caller that was cancelled at an await (`TokenIsOne`, with `PlacesKept` and
`HoldingsKnown`); once it is added again there may be a second one. The profile
lock: whoever is past it has it (`LockHeld`), but two users of an endpoint whose
profile was renamed in between stand at different locks. `PoolIsExclusive` is what
the two give together, for endpoints that are removed, added and renamed at will:
two tasks that share a Chrome have different tokens and different locks.
`PoolLoginsArePrivate` says of a reservation that only such sharing lets another
task be there. `CallerStepKeepsPool` states what a step of a caller has to
satisfy, once for all twelve; `OperatorStep` does for routes and nodes.
Privacy rests on it: a caller that was admitted before a reservation
reads it under the lock, and the reservation is made by the only user there is.

**BrowserPoolProofs**, the Redis pool. `OwnersKeepTheirLeases`: that a lease does not expire
under a prompt owner depends on its age, which depends on whether a renewal is
due. `OwnerInv` adds that an owner knows its endpoint, that only owners renew,
and that a prompt owner's lease has age 0, or 1 when a renewal is due; a lease
lives more than one period (`RedisAssumption`), so no `Tick` removes it, and
`SetLease` and `ReleaseLease` touch only free or own leases. `SharersHaveFailed`
needs no more: of two tasks in one Chrome at most one is the owner of the lease, and
the other one, if it were prompt and its renewal had not failed, would own it too
(`PromptOwnersStep`). Neither theorem assumes anything of `Slow` or of the renewals.

**CollectionProofs**, III. The inductive invariant `IInv` has three parts. `TypeInv`
is `TypeOK` and the kind of input a handler has at each control point
(`LocalsOK`). `WorkInv` says that whoever works on the attempt has found the
command committed and, on its way to the trigger, carries its payload or none
(`CommandFirst`), and, as long as no handler has outstayed, that there is one
handler at most between its claim and the end of its trigger or the finish of what
was not sent, that its lease is a full one until the spawn, and that from then on it
lasts longer than the timeout does (`ClaimIsTimed`, which uses that `Lease` exceeds
`TriggerTimeout`). `OneTriggerAtOnce` and `IntentIsCommitted` follow. A handler may
die at any point and leave its trigger behind; the theorem is about handlers, and
about their processes the claim is false (section 4).
`LedgerInv` is `LogMatchesLedger` with the facts that a callback past its check
still finds its predecessor (`PredecessorStays`) and that a cancellation a copy
has seen is still on record (`RequestStands`); the two action properties follow
from it. `RequestStands` is why the unlocked flushes do no harm to the ledger:
they write only the columns they changed, and none withdraws a request.

**CollectionProofs**, the pipeline. `CursorStaysBacked` holds for every feed, any number
of overlapping runs and any number of faults, of the entries that a fetch of the
cursor's version returns. `CursorIsBacked` is not inductive: a
run saves long after it fetched, from locals other runs know nothing of. `IInv` adds
that the cursor a run began from is backed, that the version of a run past the sink
is backed, and that in the sink every item of the batch has a row or is still to be
inserted (`BatchHeld`). `WrittenRows` shows that no write of `store_records` takes an
item's last row, so what was backed stays backed (`OneRunMoves`); after a collision
an insert is dropped only if its hash is stored, so its item has a row
(`SurvivorsStep`). The optimistic version check plays no part: a late save of an
older cursor is backed too.

Only model-checked is every liveness property, since fairness and ENABLED are out of
the prover's reach: `LostWorkStops`, `OrphanIsRecovered`, `QueuedSurvivesDowntime`,
`CallsReturn`, `GhostExpires`, `LostLeaseStops`, `DispatchReturns`,
`EdgeStopsAfterLoss`, `LeaseIsReturned`, `CatchesUp` and `TaskSettles`.

## 6. Abstractions and what is not modelled

* Acquisition: revocations are remembered for ever or not at all, by each message;
  channels, URL and redirect validation and result documents are
  outcomes (ends, fails, is cancelled); one row; managed deadlines appear as an
  end of the collection.
* Delivery: canonical payloads, signatures and envelope validation are an
  outcome of the post (`Responses`); authorization checks are an early return.
* Pools: transport settings, logging, and the Redis lists that no acquire reads.
* Gateway: payloads and results are the classes the centre tells apart (done, error,
  cancelled, not cleaned up); an "error" that an except clause flushes is not told
  apart from one the runtime streamed, so a cancellation resends either; native
  terminal sessions, the HTTP routes of the edge and the runtime adapters are left
  out.
* Conversations: the text of messages and replies; the runtime of a conversation
  is chosen once; workbench proposals and Browser Spaces are left out.
* Gaojixing: the browser driver returns a capture, a challenge or an error; the
  audit and the archive of a capture are one test and one write.
* III and evidence: payloads and summaries are compared and not read; signatures
  are checked before the modelled handlers; ODP answers truly, fails, or does
  not know. The lock of a materialization holds on both databases:
  `lock_scoped_workflow_run` (`workflow/workflow_run_events.py:30`) makes a no-op
  UPDATE of the run's row on SQLite, which takes the write lock of the database for
  the rest of the transaction, where PostgreSQL uses FOR UPDATE. Two materializations
  of one run therefore never append at once, and the branch that handles an
  IntegrityError of the append (`evidence_batch_materializer.py:447`) is not reached.
* III: orphaned triggers are one flag, which may fall only when the last of them has
  ended.
* Pipeline: one enabled source with one recurring schedule; the semaphore and the
  per-domain limits only delay; the ODP sinks, what the AI step, notifications and
  plan triggers do, and the other channels are left out. A run that `DatabaseFails`
  has stranded is forgotten when a new invocation takes its place in `Runs`.
* The components marked `not_modelled` in PROJECT.json, with the reason there.
  The larger part of the repository transforms documents (workflow compiler and
  HDA tracer, runtime registry, capability projection, adapters, API
  serialization) or talks to one external service: it keeps no state that two
  actors share, and a model of it would repeat its text.

## 7. Plan

The order follows what a wrong interleaving would cost.

1. `SourceControl` (`control/cycle.py`, `actuator.py`, the captcha pause of the
   pipeline): pause, TTL resume, kill switch and operator edits of one source.
2. `AutomationRuns`: claims of scheduled occurrences by two tickers, queued-run
   recovery, one-time schedules and redbeat entries.
3. `ResearchRuns` and `IntelligenceOutbox`: queued runs and their supervisor;
   claims and acknowledgements of the outbox.
4. `DeliveryAuthorization` composed with DeliveryExecution; workbench revisions.
5. Pure algorithms: Plan IR validation and workflow patching against reference
   definitions over bounded graphs.
