------------------------- MODULE AcquisitionExecution -------------------------
(***************************************************************************)
(* Managed acquisitions: durable rows (backend/models/acquisition.py), the *)
(* API handlers that insert, queue and cancel them                         *)
(* (backend/api/v1/geo_acquisition.py, services/acquisition_service.py),   *)
(* the leased runner, its heartbeat and the sweeper                        *)
(* (backend/acquisition/runner.py), and the two executors that carry an    *)
(* execution id to a runner (backend/executor/local.py, celery_exec.py).   *)
(*                                                                         *)
(* Every action is one database statement or one in-process step, so the   *)
(* gap between the SELECT of a handler and its later UPDATE is visible.    *)
(* An ORM UPDATE names the row by id only and writes only the attributes   *)
(* that differ from the copy that was read.                                *)
(***************************************************************************)
EXTENDS Naturals, FiniteSets

CONSTANTS
    Executions,   \* acquisition rows, one per idempotency key
    Tasks,        \* runner invocations; an id stands for a fresh lease_owner uuid
    Requests,     \* concurrent API handlers
    Submitters,   \* bound: the handlers that may serve a submission
    NoTask,       \* lease_owner IS NULL
    NoExecution,
    Executors,    \* the values of task_executor a deployment may choose
    MaxMessages   \* bound: broker messages per execution

ASSUME ConstantsAssumption ==
    /\ NoTask \notin Tasks
    /\ NoExecution \notin Executions
    /\ Executors \subseteq {"local", "celery"}
    /\ Submitters \subseteq Requests
    /\ MaxMessages \in Nat

VARIABLES
    status,      \* AcquisitionExecution.status; "none" before the INSERT
    owner,       \* lease_owner
    expired,     \* lease_expires_at <= now, of a RUNNING row
    pc,          \* where a runner invocation is; "idle" is a finished one
    job,         \* the execution_id of a runner invocation
    req,         \* where a handler is, and whether the row it read had a lease
    api,         \* the API process: "up", "starting" (lifespan) or "down"
    toDispatch,  \* execution_ids the recovery still has to dispatch
    messages,    \* celery: run_acquisition messages waiting per execution
    revoked,     \* celery: executions whose task id workers may remember as revoked
    executor     \* task_executor of this deployment, which never changes

vars == <<status, owner, expired, pc, job, req, api, toDispatch, messages>>

Local == executor = "local"

row == <<status, owner, expired>>
runner == <<pc, job>>

Active == {"accepted", "queued", "running"}
Finished == {"succeeded", "failed"}
Statuses == Active \cup Finished \cup {"none", "cancelled"}

\* A runner invocation that holds, or believes it holds, the lease.
Claimed == {"prepare", "collect", "reaping", "validate", "finishWrite"}
RunnerPCs == Claimed \cup {"idle", "start"}

RequestPCs == {"idle", "inserted", "queueWrite", "queueRefresh", "dispatch",
               "cancelWrite", "cancelExecutor", "awaitTask"}
IdleRequest == [at |-> "idle", job |-> NoExecution, leased |-> FALSE]
RequestRecord == [at : RequestPCs, job : Executions \cup {NoExecution}, leased : BOOLEAN]

TypeOK ==
    /\ status \in [Executions -> Statuses]
    /\ owner \in [Executions -> Tasks \cup {NoTask}]
    /\ expired \in [Executions -> BOOLEAN]
    /\ pc \in [Tasks -> RunnerPCs]
    /\ job \in [Tasks -> Executions \cup {NoExecution}]
    /\ req \in [Requests -> RequestRecord]
    /\ api \in {"up", "starting", "down"}
    /\ toDispatch \in SUBSET Executions
    /\ messages \in [Executions -> 0..MaxMessages]
    /\ revoked \in SUBSET Executions
    /\ executor \in Executors

Init ==
    /\ status = [e \in Executions |-> "none"]
    /\ owner = [e \in Executions |-> NoTask]
    /\ expired = [e \in Executions |-> FALSE]
    /\ pc = [t \in Tasks |-> "idle"]
    /\ job = [t \in Tasks |-> NoExecution]
    /\ req = [r \in Requests |-> IdleRequest]
    /\ api = "up"
    /\ toDispatch = {}
    /\ messages = [e \in Executions |-> 0]
    /\ revoked = {}
    /\ executor \in Executors

-----------------------------------------------------------------------------
(* Executors *)

\* run_acquisition_execution draws a new uuid, which no row can hold.
FreshTask(t) == pc[t] = "idle" /\ \A e \in Executions : owner[e] # t

\* LocalExecutor._acquisition_tasks[e] exists and is not done().
InFlight(e) == \E t \in Tasks : pc[t] # "idle" /\ job[t] = e

\* Mutant: dispatch does not look for a task already in flight.
LocalDispatchUnchecked(e) ==
    /\ \E t \in Tasks :
          /\ FreshTask(t)
          /\ pc' = [pc EXCEPT ![t] = "start"]
          /\ job' = [job EXCEPT ![t] = e]
    /\ UNCHANGED messages

LocalDispatch(e) ==
    /\ \/ InFlight(e) /\ UNCHANGED runner
       \/ /\ ~InFlight(e)
          /\ \E t \in Tasks :
                /\ FreshTask(t)
                /\ pc' = [pc EXCEPT ![t] = "start"]
                /\ job' = [job EXCEPT ![t] = e]
    /\ UNCHANGED messages

\* Messages over the bound merge with those already waiting: they carry the
\* same execution_id and the same task id.
PutMessage(e) ==
    messages' = [messages EXCEPT ![e] = IF @ < MaxMessages THEN @ + 1 ELSE @]

CeleryDispatch(e) ==
    /\ PutMessage(e)
    /\ UNCHANGED runner

DispatchAcquisition(e) == IF Local THEN LocalDispatch(e) ELSE CeleryDispatch(e)

\* A celery worker starts run_acquisition for a delivered message.
WorkerTakes(t, e) ==
    /\ ~Local
    /\ messages[e] > 0
    /\ FreshTask(t)
    /\ messages' = [messages EXCEPT ![e] = @ - 1]
    /\ pc' = [pc EXCEPT ![t] = "start"]
    /\ job' = [job EXCEPT ![t] = e]
    /\ UNCHANGED <<row, req, api, toDispatch>>

\* A worker that remembers a revocation drops the messages with that task id,
\* those dispatched or delivered again later included: every dispatch of an
\* execution uses the same id.
WorkerDiscards(e) ==
    /\ ~Local
    /\ e \in revoked /\ messages[e] > 0
    /\ messages' = [messages EXCEPT ![e] = @ - 1]
    /\ UNCHANGED <<row, runner, req, api, toDispatch>>

-----------------------------------------------------------------------------
(* POST /executions *)

SetRequest(r, at, e, leased) ==
    req' = [req EXCEPT ![r] = [at |-> at, job |-> e, leased |-> leased]]

EndRequest(r) == req' = [req EXCEPT ![r] = IdleRequest]

\* The idempotency key is known: the handler only redispatches a QUEUED row.
SubmitExisting(r, e) ==
    /\ api = "up" /\ req[r].at = "idle"
    /\ status[e] = "queued"
    /\ SetRequest(r, "dispatch", e, FALSE)
    /\ UNCHANGED <<row, runner, api, toDispatch, messages>>

\* acquisition_service.submit_execution: INSERT ... status = ACCEPTED; commit.
SubmitInsert(r, e) ==
    /\ api = "up" /\ req[r].at = "idle"
    /\ status[e] = "none"
    /\ status' = [status EXCEPT ![e] = "accepted"]
    /\ SetRequest(r, "inserted", e, FALSE)
    /\ UNCHANGED <<owner, expired, runner, api, toDispatch, messages>>

\* The route goes on with the refreshed copy: queue_execution writes only over
\* ACCEPTED, dispatch follows only QUEUED.
AfterRead(r, e) ==
    CASE status[e] = "accepted" -> SetRequest(r, "queueWrite", e, FALSE)
      [] status[e] = "queued"   -> SetRequest(r, "dispatch", e, FALSE)
      [] OTHER                  -> EndRequest(r)

SubmitRefresh(r) ==
    /\ req[r].at = "inserted"
    /\ AfterRead(r, req[r].job)
    /\ UNCHANGED <<row, runner, api, toDispatch, messages>>

\* queue_execution: UPDATE ... SET status = QUEUED WHERE id = ...; commit.
QueueWrite(r) ==
    /\ req[r].at = "queueWrite"
    /\ status' = [status EXCEPT ![req[r].job] = "queued"]
    /\ expired' = [expired EXCEPT ![req[r].job] = FALSE]
    /\ req' = [req EXCEPT ![r].at = "queueRefresh"]
    /\ UNCHANGED <<owner, runner, api, toDispatch, messages>>

QueueRefresh(r) ==
    /\ req[r].at = "queueRefresh"
    /\ IF status[req[r].job] = "queued"
         THEN SetRequest(r, "dispatch", req[r].job, FALSE)
         ELSE EndRequest(r)
    /\ UNCHANGED <<row, runner, api, toDispatch, messages>>

\* dispatch_acquisition, or its exception turned into a 503.
SubmitDispatch(r) ==
    /\ req[r].at = "dispatch"
    /\ \/ DispatchAcquisition(req[r].job)
       \/ ~Local /\ UNCHANGED <<runner, messages>>
    /\ EndRequest(r)
    /\ UNCHANGED <<row, api, toDispatch>>

-----------------------------------------------------------------------------
(* POST /executions/{id}/cancel *)

\* get_execution and accepts_cancel_request; a CANCELLED copy is not written.
CancelRead(r, e) ==
    /\ api = "up" /\ req[r].at = "idle"
    /\ status[e] \in Active \cup {"cancelled"}
    /\ SetRequest(r, IF status[e] \in Active THEN "cancelWrite" ELSE "cancelExecutor",
                  e, owner[e] # NoTask)
    /\ UNCHANGED <<row, runner, api, toDispatch, messages>>

\* cancel_execution: the lease columns are written only if the copy had them.
CancelWrite(r) ==
    LET e == req[r].job IN
    /\ req[r].at = "cancelWrite"
    /\ status' = [status EXCEPT ![e] = "cancelled"]
    /\ owner' = [owner EXCEPT ![e] = IF req[r].leased THEN NoTask ELSE @]
    /\ expired' = [expired EXCEPT ![e] = FALSE]
    /\ req' = [req EXCEPT ![r].at = "cancelExecutor"]
    /\ UNCHANGED <<runner, api, toDispatch, messages>>

\* Task.cancel(): the runner's await raises; a live collection is reaped first.
CancelledPC(p) == IF p \in {"collect", "reaping"} THEN "reaping" ELSE "idle"

LocalCancel(r) ==
    LET e == req[r].job IN
    /\ Local
    /\ pc' = [t \in Tasks |-> IF job[t] = e THEN CancelledPC(pc[t]) ELSE pc[t]]
    /\ job' = [t \in Tasks |-> IF pc'[t] = "idle" THEN NoExecution ELSE job[t]]
    /\ IF \E t \in Tasks : job'[t] = e
         THEN req' = [req EXCEPT ![r].at = "awaitTask"]
         ELSE EndRequest(r)
    /\ UNCHANGED revoked

\* control.revoke(terminate=False) is a broadcast to the workers that are up: each
\* of them may remember the id, or miss it; a failure is only logged.
CeleryCancel(r) ==
    /\ ~Local
    /\ revoked' = revoked \cup {req[r].job}
    /\ EndRequest(r)
    /\ UNCHANGED runner

CancelExecutor(r) ==
    /\ req[r].at = "cancelExecutor"
    /\ LocalCancel(r) \/ CeleryCancel(r)
    /\ UNCHANGED <<row, api, toDispatch, messages>>

\* The handler awaits the cancelled task.
CancelAwaited(r) ==
    /\ req[r].at = "awaitTask"
    /\ ~InFlight(req[r].job)
    /\ EndRequest(r)
    /\ UNCHANGED <<row, runner, api, toDispatch, messages>>

-----------------------------------------------------------------------------
(* run_acquisition_execution *)

Owns(t) == status[job[t]] = "running" /\ owner[job[t]] = t

Goto(t, p) == pc' = [pc EXCEPT ![t] = p] /\ UNCHANGED job
EndTask(t) ==
    /\ pc' = [pc EXCEPT ![t] = "idle"]
    /\ job' = [job EXCEPT ![t] = NoExecution]

\* UPDATE ... WHERE id AND status = QUEUED; rowcount decides.
Claim(t) ==
    LET e == job[t] IN
    /\ pc[t] = "start"
    /\ \/ /\ status[e] = "queued"
          /\ status' = [status EXCEPT ![e] = "running"]
          /\ owner' = [owner EXCEPT ![e] = t]
          /\ expired' = [expired EXCEPT ![e] = FALSE]
          /\ Goto(t, "prepare")
       \/ /\ status[e] # "queued"
          /\ EndTask(t)
          /\ UNCHANGED row
    /\ UNCHANGED <<req, api, toDispatch, messages>>

\* _fail_execution: UPDATE ... WHERE id AND status = RUNNING AND lease_owner = t.
FailExecution(t) ==
    LET e == job[t] IN
    /\ IF Owns(t)
         THEN /\ status' = [status EXCEPT ![e] = "failed"]
              /\ owner' = [owner EXCEPT ![e] = NoTask]
              /\ expired' = [expired EXCEPT ![e] = FALSE]
         ELSE UNCHANGED row
    /\ EndTask(t)

\* Registration and the target URL are checked before the heartbeat starts.
Prepare(t) ==
    /\ pc[t] = "prepare"
    /\ \/ Goto(t, "collect") /\ UNCHANGED row
       \/ FailExecution(t)
    /\ UNCHANGED <<req, api, toDispatch, messages>>

\* Mutant: a failed renewal is not reported to the monitor.
HeartbeatIgnoresLoss(t) ==
    /\ pc[t] = "collect"
    /\ expired' = [expired EXCEPT ![job[t]] = IF Owns(t) THEN FALSE ELSE @]
    /\ UNCHANGED <<status, owner, runner, req, api, toDispatch, messages>>

\* _heartbeat_execution: renew, or raise lease_lost on a failed CAS.
Heartbeat(t) ==
    /\ pc[t] = "collect"
    /\ IF Owns(t)
         THEN /\ expired' = [expired EXCEPT ![job[t]] = FALSE]
              /\ UNCHANGED runner
         ELSE /\ Goto(t, "reaping")
              /\ UNCHANGED expired
    /\ UNCHANGED <<status, owner, req, api, toDispatch, messages>>

\* An exception in the heartbeat also raises lease_lost.
HeartbeatError(t) ==
    /\ pc[t] = "collect"
    /\ Goto(t, "reaping")
    /\ UNCHANGED <<row, req, api, toDispatch, messages>>

\* channel.collect returns, or an exception (no profile, no slot) fails the row.
CollectEnds(t) ==
    /\ pc[t] = "collect"
    /\ \/ Goto(t, "validate") /\ UNCHANGED row
       \/ FailExecution(t)
    /\ UNCHANGED <<req, api, toDispatch, messages>>

\* The cancelled collection has been awaited: nothing is written if it ended by
\* the cancellation, and an exception of its own fails a row still held.
Reaped(t) ==
    /\ pc[t] = "reaping"
    /\ \/ EndTask(t) /\ UNCHANGED row
       \/ FailExecution(t)
    /\ UNCHANGED <<req, api, toDispatch, messages>>

\* Redirect targets are validated without a heartbeat, then the row is read
\* again and its status and lease_owner are compared in memory.
FinishRead(t) ==
    /\ pc[t] = "validate"
    /\ \/ Owns(t) /\ Goto(t, "finishWrite") /\ UNCHANGED row
       \/ ~Owns(t) /\ EndTask(t) /\ UNCHANGED row
       \/ FailExecution(t)
    /\ UNCHANGED <<req, api, toDispatch, messages>>

\* The ORM flush: UPDATE ... WHERE id; commit.
FinishWrite(t) ==
    /\ pc[t] = "finishWrite"
    /\ \E s \in Finished : status' = [status EXCEPT ![job[t]] = s]
    /\ owner' = [owner EXCEPT ![job[t]] = NoTask]
    /\ expired' = [expired EXCEPT ![job[t]] = FALSE]
    /\ EndTask(t)
    /\ UNCHANGED <<req, api, toDispatch, messages>>

\* A runner ends without another statement: an uncaught error, or a celery
\* worker killed, whose late-acknowledged message may be delivered again.
TaskDies(t) ==
    /\ pc[t] # "idle"
    /\ EndTask(t)
    /\ \/ UNCHANGED messages
       \/ ~Local /\ PutMessage(job[t])
    /\ UNCHANGED <<row, req, api, toDispatch>>

\* Thirty seconds without a renewal.
LeaseExpires(e) ==
    /\ status[e] = "running" /\ ~expired[e]
    /\ expired' = [expired EXCEPT ![e] = TRUE]
    /\ UNCHANGED <<status, owner, runner, req, api, toDispatch, messages>>

-----------------------------------------------------------------------------
(* recover_acquisition_executions *)

\* Mutant: the sweeper looks at ACCEPTED rows only.
EligibleAccepted(e) == status[e] = "accepted"

Eligible(e) == status[e] = "accepted" \/ (status[e] = "running" /\ expired[e])

\* Mutant: an expired lease is cleared but the row keeps its status.
RequeueLeaseOnly(includeQueued) ==
    /\ status' = [e \in Executions |-> IF status[e] = "accepted" THEN "queued" ELSE status[e]]
    /\ owner' = [e \in Executions |-> IF Eligible(e) THEN NoTask ELSE owner[e]]
    /\ expired' = [e \in Executions |-> IF Eligible(e) THEN FALSE ELSE expired[e]]
    /\ toDispatch' = {e \in Executions :
                        Eligible(e) \/ (includeQueued /\ status[e] = "queued")}

\* Mutant: a starting API recovers no more than the sweeper.
RequeueExpiredOnly(includeQueued) ==
    /\ status' = [e \in Executions |-> IF Eligible(e) THEN "queued" ELSE status[e]]
    /\ owner' = [e \in Executions |-> IF Eligible(e) THEN NoTask ELSE owner[e]]
    /\ expired' = [e \in Executions |-> IF Eligible(e) THEN FALSE ELSE expired[e]]
    /\ toDispatch' = {e \in Executions : Eligible(e)}

\* The SELECT and the conditional UPDATEs of one transaction.
Requeue(includeQueued) ==
    /\ status' = [e \in Executions |-> IF Eligible(e) THEN "queued" ELSE status[e]]
    /\ owner' = [e \in Executions |-> IF Eligible(e) THEN NoTask ELSE owner[e]]
    /\ expired' = [e \in Executions |-> IF Eligible(e) THEN FALSE ELSE expired[e]]
    /\ toDispatch' = {e \in Executions :
                        Eligible(e) \/ (includeQueued /\ status[e] = "queued")}

\* One iteration of sweep_acquisition_executions.
Sweep ==
    /\ api = "up" /\ toDispatch = {}
    /\ \E e \in Executions : Eligible(e)
    /\ Requeue(FALSE)
    /\ UNCHANGED <<runner, req, api, messages>>

RecoveryDispatch(e) ==
    /\ e \in toDispatch
    /\ DispatchAcquisition(e)
    /\ toDispatch' = toDispatch \ {e}
    /\ api' = IF toDispatch' = {} THEN "up" ELSE api
    /\ UNCHANGED <<row, req>>

\* The broker raises: the sweeper drops the rest, a starting API does not start.
RecoveryDispatchFails ==
    /\ ~Local /\ toDispatch # {}
    /\ toDispatch' = {}
    /\ api' = IF api = "starting" THEN "down" ELSE api
    /\ UNCHANGED <<row, runner, req, messages>>

\* The API process stops: handlers, the sweeper and, with the local executor,
\* every runner are gone.
ApiCrash ==
    /\ api # "down"
    /\ api' = "down"
    /\ req' = [r \in Requests |-> IdleRequest]
    /\ toDispatch' = {}
    /\ IF Local
         THEN /\ pc' = [t \in Tasks |-> "idle"]
              /\ job' = [t \in Tasks |-> NoExecution]
         ELSE UNCHANGED runner
    /\ UNCHANGED <<row, messages>>

\* The lifespan hook recovers, QUEUED rows included, before it serves requests.
ApiRestart ==
    /\ api = "down"
    /\ Requeue(TRUE)
    /\ api' = IF toDispatch' = {} THEN "up" ELSE "starting"
    /\ UNCHANGED <<runner, req, messages>>

-----------------------------------------------------------------------------

Submitting(r) ==
    \/ r \in Submitters /\ \E e \in Executions : SubmitExisting(r, e) \/ SubmitInsert(r, e)
    \/ SubmitRefresh(r) \/ QueueWrite(r) \/ QueueRefresh(r) \/ SubmitDispatch(r)

Cancelling(r) ==
    \/ \E e \in Executions : CancelRead(r, e)
    \/ CancelWrite(r) \/ CancelAwaited(r)

Running(t) ==
    \/ \E e \in Executions : WorkerTakes(t, e)
    \/ Claim(t) \/ Prepare(t) \/ Heartbeat(t) \/ HeartbeatError(t)
    \/ CollectEnds(t) \/ Reaped(t) \/ FinishRead(t) \/ FinishWrite(t)
    \/ TaskDies(t)

Recovering ==
    \/ \E e \in Executions : WorkerDiscards(e) \/ LeaseExpires(e) \/ RecoveryDispatch(e)
    \/ Sweep \/ RecoveryDispatchFails \/ ApiCrash \/ ApiRestart

Next ==
    /\ \/ \E r \in Requests : CancelExecutor(r)
       \/ /\ \/ \E r \in Requests : Submitting(r) \/ Cancelling(r)
             \/ \E t \in Tasks : Running(t)
             \/ Recovering
          /\ UNCHANGED revoked
    /\ UNCHANGED executor

Spec == Init /\ [][Next]_<<vars, revoked, executor>>

(***************************************************************************)
(* Fairness: the event loop runs every ready coroutine, time passes, the   *)
(* supervisor restarts the API, and a broker that is asked again and again *)
(* accepts at last.  Nothing is assumed about channel.collect              *)
(* (CollectEnds) or about clients.                                         *)
(***************************************************************************)
RunnerStep(t) ==
    Claim(t) \/ Prepare(t) \/ Heartbeat(t) \/ Reaped(t) \/ FinishRead(t) \/ FinishWrite(t)

HandlerStep(r) ==
    \/ SubmitRefresh(r) \/ QueueWrite(r) \/ QueueRefresh(r) \/ SubmitDispatch(r)
    \/ CancelWrite(r) \/ CancelExecutor(r) \/ CancelAwaited(r)

Fairness ==
    /\ \A t \in Tasks : WF_vars(RunnerStep(t))
    /\ \A r \in Requests : WF_vars(HandlerStep(r))
    /\ \A e \in Executions : WF_vars(LeaseExpires(e)) /\ SF_vars(RecoveryDispatch(e))
    /\ WF_vars(Sweep) /\ WF_vars(ApiRestart)

FairSpec == Spec /\ Fairness

-----------------------------------------------------------------------------
(* Properties *)

(***************************************************************************)
(* Whatever stale copies the handlers write, a RUNNING row always names a  *)
(* lease owner, and a runner that still holds a claimed position under     *)
(* that lease is working on this very row: no row is RUNNING on behalf of  *)
(* a runner that is doing something else.                                  *)
(***************************************************************************)
RunningIsOwned ==
    \A e \in Executions : status[e] = "running" =>
        /\ owner[e] \in Tasks
        /\ pc[owner[e]] # "idle" => pc[owner[e]] \in Claimed /\ job[owner[e]] = e

(***************************************************************************)
(* LocalExecutor: one process never drives the same execution (the same    *)
(* browser work) with two runner tasks, through cancellation, lease        *)
(* takeover by the sweeper and redelivery.                                 *)
(***************************************************************************)
LocalSingleRunner ==
    Local => \A t, u \in Tasks :
                 (t # u /\ pc[t] # "idle" /\ pc[u] # "idle") => job[t] # job[u]

(***************************************************************************)
(* The lease monitor stops a collection whose row was cancelled or taken   *)
(* over even if the channel itself never returns.                          *)
(***************************************************************************)
LostWorkStops ==
    \A t \in Tasks : (pc[t] = "collect" /\ ~Owns(t)) ~> (pc[t] # "collect")

(***************************************************************************)
(* A RUNNING row whose runner is gone (worker killed, API restarted, error *)
(* in the runner) does not stay RUNNING for ever.                          *)
(***************************************************************************)
Orphaned(e) == status[e] = "running" /\ pc[owner[e]] = "idle"

OrphanIsRecovered ==
    \A e \in Executions : Orphaned(e) ~> ~Orphaned(e)

(***************************************************************************)
(* Work that was QUEUED when the API went down is handed out again: the    *)
(* broker may fail half-way through the dispatches of a start, rows        *)
(* already requeued by an interrupted recovery included, and the next      *)
(* start tries all of them.                                                *)
(***************************************************************************)
QueuedSurvivesDowntime ==
    \A e \in Executions :
        (api = "down" /\ status[e] = "queued")
            ~> (messages[e] > 0 \/ InFlight(e) \/ status[e] # "queued")
=============================================================================
