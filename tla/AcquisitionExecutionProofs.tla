---------------------- MODULE AcquisitionExecutionProofs ----------------------
(***************************************************************************)
(* Proofs about AcquisitionExecution for any number of executions, runners *)
(* and handlers, with either executor: type correctness, that a RUNNING    *)
(* row belongs to a runner that works on it, and that the local executor   *)
(* never drives one execution with two tasks.                              *)
(***************************************************************************)
EXTENDS AcquisitionExecution, TLAPS

USE ConstantsAssumption

\* A task and a handler that are not idle have an execution to work on.
JobsKnown ==
    /\ \A t \in Tasks : pc[t] = "idle" <=> job[t] \notin Executions
    /\ \A r \in Requests : req[r].at # "idle" => req[r].job \in Executions

-----------------------------------------------------------------------------
(* What the helpers assign *)

\* A handler's record is replaced by a well-typed one.
LEMMA RequestSet ==
    ASSUME TypeOK, JobsKnown, NEW r \in Requests,
           \/ EndRequest(r)
           \/ \E at \in RequestPCs, e \in Executions, b \in BOOLEAN : SetRequest(r, at, e, b)
    PROVE  /\ req' \in [Requests -> RequestRecord]
           /\ \A s \in Requests : req'[s].at # "idle" => req'[s].job \in Executions
<1>0. req \in [Requests -> RequestRecord]
  BY DEF TypeOK
<1>1. CASE EndRequest(r)
  <2>1. IdleRequest \in RequestRecord /\ IdleRequest.at = "idle"
    BY DEF IdleRequest, RequestRecord, RequestPCs, Statuses
  <2> QED
    BY <1>0, <1>1, <2>1 DEF EndRequest, JobsKnown
<1>2. ASSUME NEW at \in RequestPCs, NEW e \in Executions, NEW b \in BOOLEAN,
             SetRequest(r, at, e, b)
      PROVE  /\ req' \in [Requests -> RequestRecord]
             /\ \A s \in Requests : req'[s].at # "idle" => req'[s].job \in Executions
  <2> DEFINE new == [at |-> at, job |-> e, leased |-> b]
  <2>1. new \in RequestRecord /\ new.job \in Executions
    BY DEF RequestRecord
  <2>2. req' = [req EXCEPT ![r] = new]
    BY <1>2 DEF SetRequest
  <2> HIDE DEF new
  <2> QED
    BY <1>0, <2>1, <2>2 DEF JobsKnown
<1> QED
  BY <1>1, <1>2

\* A handler goes on with the record it has.
LEMMA RequestMoves ==
    ASSUME TypeOK, JobsKnown, NEW r \in Requests, req[r].at # "idle",
           NEW at \in RequestPCs, req' = [req EXCEPT ![r].at = at]
    PROVE  /\ req' \in [Requests -> RequestRecord]
           /\ \A s \in Requests : req'[s].at # "idle" => req'[s].job \in Executions
<1>0. req \in [Requests -> RequestRecord] /\ req[r] \in RequestRecord
  BY DEF TypeOK
<1>1. /\ [req[r] EXCEPT !.at = at] \in RequestRecord
      /\ [req[r] EXCEPT !.at = at].job = req[r].job
  BY <1>0 DEF RequestRecord
<1>2. req' = [req EXCEPT ![r] = [req[r] EXCEPT !.at = at]]
  OBVIOUS
<1> QED
  BY <1>0, <1>1, <1>2 DEF JobsKnown

\* What a step may do to the tasks: start one for a known execution, move one
\* on, or end some.
TasksKnown ==
    /\ pc' \in [Tasks -> RunnerPCs]
    /\ job' \in [Tasks -> Executions \cup {NoExecution}]
    /\ \A t \in Tasks : pc'[t] = "idle" <=> job'[t] \notin Executions

\* A task is moved on or ended.
LEMMA TaskMoves ==
    ASSUME TypeOK, JobsKnown, NEW t \in Tasks, pc[t] # "idle",
           EndTask(t) \/ \E p \in RunnerPCs \ {"idle"} : Goto(t, p)
    PROVE  TasksKnown
  BY DEF TypeOK, JobsKnown, EndTask, Goto, TasksKnown, RunnerPCs

\* A task is started.
LEMMA TaskStarts ==
    ASSUME TypeOK, JobsKnown, NEW t \in Tasks, NEW e \in Executions,
           pc' = [pc EXCEPT ![t] = "start"], job' = [job EXCEPT ![t] = e]
    PROVE  TasksKnown
  BY DEF TypeOK, JobsKnown, TasksKnown, RunnerPCs

\* An execution id is handed to the executor.
LEMMA DispatchKnown ==
    ASSUME TypeOK, JobsKnown, NEW e \in Executions, DispatchAcquisition(e)
    PROVE  TasksKnown /\ messages' \in [Executions -> 0..MaxMessages]
<1>1. UNCHANGED runner => TasksKnown
  BY DEF TypeOK, JobsKnown, TasksKnown, runner
<1>2. messages' \in [Executions -> 0..MaxMessages]
  BY DEF TypeOK, DispatchAcquisition, LocalDispatch, CeleryDispatch, PutMessage
<1>3. ASSUME NEW t \in Tasks, pc' = [pc EXCEPT ![t] = "start"], job' = [job EXCEPT ![t] = e]
      PROVE  TasksKnown
  BY <1>3, TaskStarts
<1>4. TasksKnown
  BY <1>1, <1>3 DEF DispatchAcquisition, LocalDispatch, CeleryDispatch
<1> QED
  BY <1>2, <1>4

\* The columns of the rows stay well typed.
RowsKnown ==
    /\ status' \in [Executions -> Statuses]
    /\ owner' \in [Executions -> Tasks \cup {NoTask}]
    /\ expired' \in [Executions -> BOOLEAN]

\* An UPDATE of one row.
LEMMA RowWritten ==
    ASSUME TypeOK, NEW e \in Executions, NEW s \in Statuses, NEW o \in Tasks \cup {NoTask},
           NEW b \in BOOLEAN,
           status' = [status EXCEPT ![e] = s], owner' = [owner EXCEPT ![e] = o],
           expired' = [expired EXCEPT ![e] = b]
    PROVE  RowsKnown
<1>1. /\ status \in [Executions -> Statuses] /\ owner \in [Executions -> Tasks \cup {NoTask}]
      /\ expired \in [Executions -> BOOLEAN]
  BY DEF TypeOK
<1> QED
  BY <1>1 DEF RowsKnown

\* A runner fails the row it holds, or none, and ends.
LEMMA FailKnown ==
    ASSUME TypeOK, JobsKnown, NEW t \in Tasks, pc[t] # "idle", FailExecution(t)
    PROVE  RowsKnown /\ TasksKnown
<1>1. TasksKnown
  BY TaskMoves DEF FailExecution
<1>2. RowsKnown
  <2>0. job[t] \in Executions /\ "failed" \in Statuses
    BY DEF JobsKnown, Statuses, Finished
  <2>1. CASE Owns(t)
    BY <2>0, <2>1, RowWritten DEF FailExecution
  <2>2. CASE ~Owns(t)
    BY <2>2 DEF FailExecution, TypeOK, RowsKnown, row
  <2> QED
    BY <2>1, <2>2
<1> QED
  BY <1>1, <1>2

-----------------------------------------------------------------------------
(* Types *)

LEMMA TypeStep ==
    ASSUME TypeOK, JobsKnown, [Next]_<<vars, revoked, executor>>
    PROVE  TypeOK' /\ JobsKnown'
<1> USE DEF row, runner
\* The parts of the goal.
<1> DEFINE Requested == /\ req' \in [Requests -> RequestRecord]
                        /\ \A s \in Requests : req'[s].at # "idle" => req'[s].job \in Executions
           Process == /\ api' \in {"up", "starting", "down"} /\ toDispatch' \in SUBSET Executions
                      /\ messages' \in [Executions -> 0..MaxMessages]
<1>1. ASSUME RowsKnown, TasksKnown, Requested, Process, executor' = executor,
             revoked' \in SUBSET Executions
      PROVE  TypeOK' /\ JobsKnown'
  BY <1>1 DEF TypeOK, JobsKnown, RowsKnown, TasksKnown
<1>u. UNCHANGED revoked => revoked' \in SUBSET Executions
  BY DEF TypeOK
\* What a part is when a step leaves it alone.
<1>2. /\ UNCHANGED row => RowsKnown
      /\ UNCHANGED runner => TasksKnown
      /\ UNCHANGED req => Requested
      /\ UNCHANGED <<api, toDispatch, messages>> => Process
  BY DEF TypeOK, JobsKnown, RowsKnown, TasksKnown
<1>r. ASSUME NEW r \in Requests, req[r].at # "idle"
      PROVE  req[r].job \in Executions
  BY <1>r DEF JobsKnown
<1>s. /\ {"none", "accepted", "queued", "running", "cancelled", "succeeded", "failed"} \subseteq Statuses
      /\ Active \subseteq Statuses /\ Finished \subseteq Statuses
      /\ {"idle", "inserted", "queueWrite", "queueRefresh", "dispatch",
          "cancelWrite", "cancelExecutor", "awaitTask"} \subseteq RequestPCs
  BY DEF Statuses, Active, Finished, RequestPCs
<1>3. ASSUME NEW r \in Requests, Submitting(r), UNCHANGED <<revoked, executor>>
      PROVE  TypeOK' /\ JobsKnown'
  <2>1. ASSUME NEW e \in Executions, SubmitExisting(r, e) \/ SubmitInsert(r, e)
        PROVE  RowsKnown /\ TasksKnown /\ Requested /\ Process
    <3>1. Requested
      BY <1>s, <2>1, RequestSet DEF SubmitExisting, SubmitInsert
    <3>2. RowsKnown
      <4>1. CASE SubmitInsert(r, e)
        BY <1>s, <4>1 DEF SubmitInsert, TypeOK, RowsKnown
      <4> QED
        BY <1>2, <2>1, <4>1 DEF SubmitExisting
    <3> QED
      BY <1>2, <2>1, <3>1, <3>2 DEF SubmitExisting, SubmitInsert
  <2>2. CASE SubmitRefresh(r)
    <3>1. Requested
      BY <1>r, <1>s, <2>2, RequestSet DEF SubmitRefresh, AfterRead
    <3> QED
      BY <1>1, <1>2, <1>u, <1>3, <2>2, <3>1 DEF SubmitRefresh
  <2>3. CASE QueueWrite(r)
    <3>1. Requested
      BY <1>s, <2>3, RequestMoves DEF QueueWrite
    <3>2. RowsKnown
      BY <1>r, <1>s, <2>3 DEF QueueWrite, TypeOK, RowsKnown
    <3> QED
      BY <1>1, <1>2, <1>u, <1>3, <2>3, <3>1, <3>2 DEF QueueWrite
  <2>4. CASE QueueRefresh(r)
    <3>1. Requested
      BY <1>r, <1>s, <2>4, RequestSet DEF QueueRefresh
    <3> QED
      BY <1>1, <1>2, <1>u, <1>3, <2>4, <3>1 DEF QueueRefresh
  <2>5. CASE SubmitDispatch(r)
    <3>1. Requested
      BY <2>5, RequestSet DEF SubmitDispatch
    <3>2. TasksKnown /\ messages' \in [Executions -> 0..MaxMessages]
      BY <1>2, <1>r, <2>5, DispatchKnown DEF SubmitDispatch, TypeOK
    <3> QED
      BY <1>1, <1>2, <1>u, <1>3, <2>5, <3>1, <3>2 DEF SubmitDispatch, TypeOK
  <2> QED
    BY <1>1, <1>u, <1>3, <2>1, <2>2, <2>3, <2>4, <2>5 DEF Submitting
<1>4. ASSUME NEW r \in Requests, Cancelling(r), UNCHANGED <<revoked, executor>>
      PROVE  TypeOK' /\ JobsKnown'
  <2>1. ASSUME NEW e \in Executions, CancelRead(r, e)
        PROVE  RowsKnown /\ TasksKnown /\ Requested /\ Process
    <3>1. Requested
      BY <1>s, <2>1, RequestSet DEF CancelRead, TypeOK
    <3> QED
      BY <1>2, <2>1, <3>1 DEF CancelRead
  <2>2. CASE CancelWrite(r)
    <3>1. Requested
      BY <1>s, <2>2, RequestMoves DEF CancelWrite
    <3>2. RowsKnown
      BY <1>r, <1>s, <2>2 DEF CancelWrite, TypeOK, RowsKnown
    <3> QED
      BY <1>1, <1>2, <1>u, <1>4, <2>2, <3>1, <3>2 DEF CancelWrite
  <2>3. CASE CancelAwaited(r)
    <3>1. Requested
      BY <2>3, RequestSet DEF CancelAwaited
    <3> QED
      BY <1>1, <1>2, <1>u, <1>4, <2>3, <3>1 DEF CancelAwaited
  <2> QED
    BY <1>1, <1>u, <1>4, <2>1, <2>2, <2>3 DEF Cancelling
<1>5. ASSUME NEW t \in Tasks, Running(t), UNCHANGED <<revoked, executor>>
      PROVE  TypeOK' /\ JobsKnown'
  <2>0. pc[t] # "idle" => job[t] \in Executions
    BY DEF JobsKnown
  <2>p. {"prepare", "collect", "reaping", "validate", "finishWrite"} \subseteq RunnerPCs \ {"idle"}
    BY DEF RunnerPCs, Claimed
  <2>1. ASSUME NEW e \in Executions, WorkerTakes(t, e)
        PROVE  RowsKnown /\ TasksKnown /\ Requested /\ Process
    <3>1. TasksKnown
      BY <2>1, TaskStarts DEF WorkerTakes
    <3>2. messages' \in [Executions -> 0..MaxMessages]
      BY <2>1 DEF WorkerTakes, TypeOK
    <3> QED
      BY <1>2, <2>1, <3>1, <3>2 DEF WorkerTakes, TypeOK
  <2>2. CASE Claim(t)
    <3>1. TasksKnown
      BY <2>2, <2>p, TaskMoves DEF Claim
    <3>2. RowsKnown
      <4>1. CASE status[job[t]] = "queued"
        BY <1>s, <2>0, <2>2, <4>1, RowWritten DEF Claim
      <4> QED
        BY <1>2, <2>2, <4>1 DEF Claim
    <3> QED
      BY <1>1, <1>2, <1>u, <1>5, <2>2, <3>1, <3>2 DEF Claim
  <2>3. CASE Prepare(t) \/ CollectEnds(t) \/ Reaped(t) \/ FinishRead(t)
    <3>1. TasksKnown /\ RowsKnown
      BY <1>2, <2>3, <2>p, TaskMoves, FailKnown DEF Prepare, CollectEnds, Reaped, FinishRead
    <3> QED
      BY <1>1, <1>2, <1>u, <1>5, <2>3, <3>1 DEF Prepare, CollectEnds, Reaped, FinishRead
  <2>4. CASE Heartbeat(t)
    <3>1. TasksKnown
      BY <1>2, <2>4, <2>p, TaskMoves DEF Heartbeat
    <3>2. RowsKnown
      BY <2>0, <2>4 DEF Heartbeat, TypeOK, RowsKnown
    <3> QED
      BY <1>1, <1>2, <1>u, <1>5, <2>4, <3>1, <3>2 DEF Heartbeat
  <2>5. CASE HeartbeatError(t)
    <3>1. TasksKnown
      BY <2>5, <2>p, TaskMoves DEF HeartbeatError
    <3> QED
      BY <1>1, <1>2, <1>u, <1>5, <2>5, <3>1 DEF HeartbeatError
  <2>6. CASE FinishWrite(t)
    <3>1. TasksKnown
      BY <2>6, TaskMoves DEF FinishWrite
    <3>2. RowsKnown
      BY <1>s, <2>0, <2>6 DEF FinishWrite, TypeOK, RowsKnown
    <3> QED
      BY <1>1, <1>2, <1>u, <1>5, <2>6, <3>1, <3>2 DEF FinishWrite
  <2>7. CASE TaskDies(t)
    <3>1. TasksKnown
      BY <2>7, TaskMoves DEF TaskDies
    <3>2. messages' \in [Executions -> 0..MaxMessages]
      BY <2>0, <2>7 DEF TaskDies, TypeOK, PutMessage
    <3> QED
      BY <1>1, <1>2, <1>u, <1>5, <2>7, <3>1, <3>2 DEF TaskDies, TypeOK
  <2> QED
    BY <1>1, <1>u, <1>5, <2>1, <2>2, <2>3, <2>4, <2>5, <2>6, <2>7 DEF Running
<1>6. ASSUME Recovering, UNCHANGED <<revoked, executor>>
      PROVE  TypeOK' /\ JobsKnown'
  <2>1. ASSUME NEW e \in Executions, LeaseExpires(e)
        PROVE  RowsKnown /\ TasksKnown /\ Requested /\ Process
    <3>1. RowsKnown
      BY <2>1 DEF LeaseExpires, TypeOK, RowsKnown
    <3> QED
      BY <1>2, <2>1, <3>1 DEF LeaseExpires
  <2>2. ASSUME NEW e \in Executions, RecoveryDispatch(e)
        PROVE  RowsKnown /\ TasksKnown /\ Requested /\ Process
    <3>1. TasksKnown /\ messages' \in [Executions -> 0..MaxMessages]
      BY <2>2, DispatchKnown DEF RecoveryDispatch
    <3> QED
      BY <1>2, <2>2, <3>1 DEF RecoveryDispatch, TypeOK
  <2>d. ASSUME NEW e \in Executions, WorkerDiscards(e)
        PROVE  RowsKnown /\ TasksKnown /\ Requested /\ Process
    <3>1. messages' \in [Executions -> 0..MaxMessages]
      BY <2>d DEF WorkerDiscards, TypeOK
    <3> QED
      BY <1>2, <2>d, <3>1 DEF WorkerDiscards, TypeOK
  <2>3. ASSUME NEW b \in BOOLEAN, Requeue(b)
        PROVE  RowsKnown /\ toDispatch' \in SUBSET Executions
    BY <1>s, <2>3 DEF Requeue, TypeOK, RowsKnown
  <2>4. CASE Sweep
    BY <1>1, <1>2, <1>u, <1>6, <2>3, <2>4 DEF Sweep, TypeOK
  <2>5. CASE RecoveryDispatchFails
    BY <1>1, <1>2, <1>u, <1>6, <2>5 DEF RecoveryDispatchFails, TypeOK
  <2>6. CASE ApiCrash
    <3>1. Requested
      <4>1. IdleRequest \in RequestRecord /\ IdleRequest.at = "idle"
        BY DEF IdleRequest, RequestRecord, RequestPCs, Statuses
      <4> QED
        BY <2>6, <4>1 DEF ApiCrash
    <3>2. TasksKnown
      <4>1. CASE Local
        BY <2>6, <4>1 DEF ApiCrash, TasksKnown, RunnerPCs
      <4> QED
        BY <1>2, <2>6, <4>1 DEF ApiCrash
    <3> QED
      BY <1>1, <1>2, <1>u, <1>6, <2>6, <3>1, <3>2 DEF ApiCrash, TypeOK
  <2>7. CASE ApiRestart
    BY <1>1, <1>2, <1>u, <1>6, <2>3, <2>7 DEF ApiRestart, TypeOK
  <2> QED
    BY <1>1, <1>u, <1>6, <2>1, <2>2, <2>d, <2>4, <2>5, <2>6, <2>7 DEF Recovering
<1>7. ASSUME NEW r \in Requests, CancelExecutor(r), UNCHANGED executor
      PROVE  TypeOK' /\ JobsKnown'
  <2>1. Requested
    BY <1>s, <1>7, RequestSet, RequestMoves DEF CancelExecutor, LocalCancel, CeleryCancel
  <2>2. revoked' \in SUBSET Executions
    BY <1>u, <1>r, <1>7 DEF CancelExecutor, LocalCancel, CeleryCancel, TypeOK
  <2>3. TasksKnown
    <3>1. CASE LocalCancel(r)
      BY <3>1 DEF LocalCancel, TypeOK, JobsKnown, TasksKnown, CancelledPC, RunnerPCs, Claimed
    <3> QED
      BY <1>2, <1>7, <3>1 DEF CancelExecutor, CeleryCancel
  <2> QED
    BY <1>1, <1>2, <1>7, <2>1, <2>2, <2>3 DEF CancelExecutor
<1>8. CASE UNCHANGED <<vars, revoked, executor>>
  BY <1>1, <1>2, <1>u, <1>8 DEF vars
<1> QED
  BY <1>3, <1>4, <1>5, <1>6, <1>7, <1>8 DEF Next

(***************************************************************************)
(* Every variable keeps its type, and whatever a runner or a handler works *)
(* on is an execution that exists.                                         *)
(***************************************************************************)
THEOREM TypeCorrect == Spec => []TypeOK /\ []JobsKnown
<1>1. Init => TypeOK /\ JobsKnown
  BY DEF Init, TypeOK, JobsKnown, IdleRequest, RequestRecord, RequestPCs, RunnerPCs, Statuses
<1>2. TypeOK /\ JobsKnown /\ [Next]_<<vars, revoked, executor>> => TypeOK' /\ JobsKnown'
  BY TypeStep
<1> QED
  BY <1>1, <1>2, PTL DEF Spec

-----------------------------------------------------------------------------
(* Owners and tasks *)

\* A row becomes RUNNING, and changes hands while it is, only by a claim.
LEMMA RowsStep ==
    ASSUME TypeOK, JobsKnown, [Next]_<<vars, revoked, executor>>, NEW e \in Executions,
           status'[e] = "running"
    PROVE  \/ status[e] = "running" /\ owner'[e] = owner[e]
           \/ \E t \in Tasks : /\ pc[t] = "start" /\ job[t] = e
                                /\ owner'[e] = t /\ pc'[t] = "prepare" /\ job'[t] = e
<1> DEFINE Kept == status[e] = "running" /\ owner'[e] = owner[e]
<1>0. /\ status \in [Executions -> Statuses] /\ owner \in [Executions -> Tasks \cup {NoTask}]
      /\ pc \in [Tasks -> RunnerPCs] /\ job \in [Tasks -> Executions \cup {NoExecution}]
  BY DEF TypeOK
<1>1. UNCHANGED <<status, owner>> => Kept
  OBVIOUS
\* A write of another row, or of a status that is not RUNNING.
<1>2. ASSUME NEW f \in Executions, NEW s \in Statuses \ {"running"},
             status' = [status EXCEPT ![f] = s],
             UNCHANGED owner \/ \E o \in Tasks \cup {NoTask} : owner' = [owner EXCEPT ![f] = o]
      PROVE  Kept
  BY <1>0, <1>2
<1>3. {"accepted", "queued", "cancelled", "failed"} \cup Finished \subseteq Statuses \ {"running"}
  BY DEF Statuses, Active, Finished
<1>4. ASSUME NEW r \in Requests, Submitting(r) \/ Cancelling(r) \/ CancelExecutor(r)
      PROVE  Kept
  <2>0. req[r].at # "idle" => req[r].job \in Executions
    BY DEF JobsKnown
  <2>1. ASSUME NEW f \in Executions, SubmitInsert(r, f)
        PROVE  Kept
    BY <1>2, <1>3, <2>1 DEF SubmitInsert
  <2>2. CASE QueueWrite(r)
    BY <1>2, <1>3, <2>0, <2>2 DEF QueueWrite
  <2>3. CASE CancelWrite(r)
    <3>1. PICK o \in Tasks \cup {NoTask} : owner' = [owner EXCEPT ![req[r].job] = o]
      BY <1>0, <2>0, <2>3 DEF CancelWrite
    <3> QED
      BY <1>2, <1>3, <2>0, <2>3, <3>1 DEF CancelWrite
  <2> QED
    BY <1>1, <1>4, <2>1, <2>2, <2>3 DEF Submitting, Cancelling, SubmitExisting, SubmitRefresh,
       QueueRefresh, SubmitDispatch, CancelRead, CancelExecutor, CancelAwaited, row
<1>5. ASSUME NEW t \in Tasks, Running(t), ~Claim(t)
      PROVE  Kept
  <2>0. pc[t] # "idle" => job[t] \in Executions
    BY DEF JobsKnown
  <2>1. pc[t] # "idle" /\ FailExecution(t) => Kept
    <3>1. CASE Owns(t)
      BY <1>2, <1>3, <2>0, <3>1 DEF FailExecution
    <3> QED
      BY <1>1, <3>1 DEF FailExecution, row
  <2>2. CASE FinishWrite(t)
    BY <1>2, <1>3, <2>0, <2>2 DEF FinishWrite
  <2> QED
    BY <1>1, <1>5, <2>1, <2>2 DEF Running, WorkerTakes, Prepare, Heartbeat, HeartbeatError,
       CollectEnds, Reaped, FinishRead, TaskDies, row
<1>6. ASSUME NEW t \in Tasks, Claim(t)
      PROVE  \/ Kept
             \/ /\ pc[t] = "start" /\ job[t] = e
                /\ owner'[e] = t /\ pc'[t] = "prepare" /\ job'[t] = e
  <2>0. job[t] \in Executions
    BY <1>6 DEF JobsKnown, Claim
  <2>1. CASE status[job[t]] = "queued"
    <3>1. /\ status' = [status EXCEPT ![job[t]] = "running"]
          /\ owner' = [owner EXCEPT ![job[t]] = t]
          /\ pc' = [pc EXCEPT ![t] = "prepare"] /\ job' = job /\ pc[t] = "start"
      BY <1>6, <2>1 DEF Claim, Goto
    <3> QED
      BY <1>0, <2>0, <3>1
  <2> QED
    BY <1>1, <1>6, <2>1 DEF Claim, row
<1>7. CASE Recovering
  <2>1. ASSUME NEW b, Requeue(b)
        PROVE  Kept
    BY <1>0, <2>1 DEF Requeue
  <2> QED
    BY <1>1, <1>7, <2>1 DEF Recovering, WorkerDiscards, LeaseExpires, RecoveryDispatch, Sweep,
       RecoveryDispatchFails, ApiCrash, ApiRestart, row
<1> QED
  BY <1>1, <1>4, <1>5, <1>6, <1>7 DEF Next, vars

\* A task ends, goes on with its execution, or is a fresh one: with the local
\* executor for an execution no other task works on.
LEMMA TasksStep ==
    ASSUME TypeOK, JobsKnown, [Next]_<<vars, revoked, executor>>, NEW t \in Tasks
    PROVE  \/ pc'[t] = "idle"
           \/ /\ pc[t] # "idle" /\ job'[t] = job[t]
              /\ pc[t] \in Claimed => pc'[t] \in Claimed
           \/ /\ FreshTask(t) /\ pc'[t] = "start"
              /\ Local => /\ ~InFlight(job'[t])
                          /\ \A u \in Tasks \ {t} : pc'[u] = pc[u] /\ job'[u] = job[u]
<1> DEFINE GoesOn == pc[t] # "idle" /\ job'[t] = job[t] /\ (pc[t] \in Claimed => pc'[t] \in Claimed)
           Starts == /\ FreshTask(t) /\ pc'[t] = "start"
                     /\ Local => /\ ~InFlight(job'[t])
                                 /\ \A u \in Tasks \ {t} : pc'[u] = pc[u] /\ job'[u] = job[u]
           Good == pc'[t] = "idle" \/ GoesOn \/ Starts
<1>0. pc \in [Tasks -> RunnerPCs] /\ job \in [Tasks -> Executions \cup {NoExecution}]
  BY DEF TypeOK
<1>1. UNCHANGED runner => Good
  BY DEF runner
<1>2. ASSUME NEW u \in Tasks, EndTask(u)
      PROVE  Good
  BY <1>0, <1>2 DEF EndTask
<1>3. ASSUME NEW u \in Tasks, NEW p \in Claimed, pc[u] # "idle", Goto(u, p)
      PROVE  Good
  BY <1>0, <1>3 DEF Goto
<1>4. ASSUME NEW e \in Executions, DispatchAcquisition(e)
      PROVE  Good
  <2>1. CASE UNCHANGED runner
    BY <1>1, <2>1
  <2>2. CASE ~UNCHANGED runner
    <3>1. PICK u \in Tasks : /\ FreshTask(u) /\ ~InFlight(e)
                             /\ pc' = [pc EXCEPT ![u] = "start"] /\ job' = [job EXCEPT ![u] = e]
      BY <1>4, <2>2 DEF DispatchAcquisition, LocalDispatch, CeleryDispatch
    <3>2. CASE u = t
      <4>1. /\ pc'[t] = "start" /\ job'[t] = e
            /\ \A v \in Tasks \ {t} : pc'[v] = pc[v] /\ job'[v] = job[v]
        BY <1>0, <3>1, <3>2
      <4> QED
        BY <3>1, <3>2, <4>1
    <3>3. CASE u # t
      BY <1>0, <3>1, <3>3
    <3> QED
      BY <3>2, <3>3
  <2> QED
    BY <2>1, <2>2
<1>5. ASSUME NEW r \in Requests, Submitting(r)
      PROVE  Good
  <2>1. req[r].at # "idle" => req[r].job \in Executions
    BY DEF JobsKnown
  <2>2. CASE SubmitDispatch(r)
    BY <1>1, <1>4, <2>1, <2>2 DEF SubmitDispatch, runner
  <2> QED
    BY <1>1, <1>5, <2>2 DEF Submitting, SubmitExisting, SubmitInsert, SubmitRefresh, QueueWrite,
       QueueRefresh, runner
<1>6. ASSUME NEW r \in Requests, Cancelling(r) \/ CancelExecutor(r)
      PROVE  Good
  <2>1. CASE LocalCancel(r)
    <3>1. pc'[t] \in {pc[t], CancelledPC(pc[t])} /\ (pc'[t] # "idle" => job'[t] = job[t])
      BY <1>0, <2>1 DEF LocalCancel
    <3> QED
      BY <3>1 DEF CancelledPC, Claimed
  <2> QED
    BY <1>1, <1>6, <2>1 DEF Cancelling, CancelRead, CancelWrite, CancelExecutor, CeleryCancel,
       CancelAwaited, runner
<1>7. ASSUME NEW u \in Tasks, Running(u)
      PROVE  Good
  <2>1. {"prepare", "collect", "reaping", "validate", "finishWrite"} = Claimed
    BY DEF Claimed
  <2>2. ASSUME NEW e \in Executions, WorkerTakes(u, e)
        PROVE  Good
    BY <1>0, <2>2 DEF WorkerTakes
  <2>3. CASE Claim(u)
    BY <1>2, <1>3, <2>1, <2>3 DEF Claim
  <2>4. CASE Prepare(u) \/ CollectEnds(u) \/ Reaped(u) \/ FinishRead(u)
    BY <1>2, <1>3, <2>1, <2>4 DEF Prepare, CollectEnds, Reaped, FinishRead, FailExecution
  <2>5. CASE Heartbeat(u) \/ HeartbeatError(u)
    BY <1>1, <1>3, <2>1, <2>5 DEF Heartbeat, HeartbeatError
  <2>6. CASE FinishWrite(u) \/ TaskDies(u)
    BY <1>2, <2>6 DEF FinishWrite, TaskDies
  <2> QED
    BY <1>7, <2>2, <2>3, <2>4, <2>5, <2>6 DEF Running
<1>8. CASE Recovering
  <2>1. CASE ApiCrash
    <3>1. CASE Local
      BY <2>1, <3>1 DEF ApiCrash
    <3> QED
      BY <1>1, <2>1, <3>1 DEF ApiCrash
  <2> QED
    BY <1>1, <1>4, <1>8, <2>1 DEF Recovering, WorkerDiscards, LeaseExpires, RecoveryDispatch, Sweep,
       RecoveryDispatchFails, ApiRestart, runner
<1>9. CASE UNCHANGED <<vars, revoked, executor>>
  BY <1>1, <1>9 DEF vars, runner
<1> QED
  BY <1>5, <1>6, <1>7, <1>8, <1>9 DEF Next

(***************************************************************************)
(* A RUNNING row names the lease of a runner that works on it or has       *)
(* ended: neither the stale copies the handlers flush by id nor the        *)
(* sweeper leave it to a runner that does something else.                  *)
(***************************************************************************)
THEOREM RunningRowsAreOwned == Spec => []RunningIsOwned
<1>1. Init => RunningIsOwned
  BY DEF Init, RunningIsOwned
<1>2. TypeOK /\ JobsKnown /\ RunningIsOwned /\ [Next]_<<vars, revoked, executor>> => RunningIsOwned'
  <2> SUFFICES ASSUME TypeOK, JobsKnown, RunningIsOwned, [Next]_<<vars, revoked, executor>>,
                      NEW e \in Executions, status'[e] = "running"
               PROVE  /\ owner'[e] \in Tasks
                      /\ pc'[owner'[e]] # "idle" =>
                            pc'[owner'[e]] \in Claimed /\ job'[owner'[e]] = e
    BY DEF RunningIsOwned
  <2>1. CASE status[e] = "running" /\ owner'[e] = owner[e]
    <3>1. owner[e] \in Tasks /\ ~FreshTask(owner[e])
      BY <2>1 DEF RunningIsOwned, FreshTask
    <3>2. pc'[owner[e]] # "idle" =>
            /\ pc[owner[e]] # "idle" /\ job'[owner[e]] = job[owner[e]]
            /\ pc[owner[e]] \in Claimed => pc'[owner[e]] \in Claimed
      BY <3>1, TasksStep
    <3> QED
      BY <2>1, <3>1, <3>2 DEF RunningIsOwned
  <2>2. CASE \E t \in Tasks : owner'[e] = t /\ pc'[t] = "prepare" /\ job'[t] = e
    BY <2>2 DEF Claimed
  <2> QED
    BY <2>1, <2>2, RowsStep
<1> QED
  BY <1>1, <1>2, TypeCorrect, PTL DEF Spec

(***************************************************************************)
(* LocalExecutor never has two live tasks for one execution, through       *)
(* cancellation, takeover by the sweeper and restarts.                     *)
(***************************************************************************)
THEOREM LocalTasksAreSingle == Spec => []LocalSingleRunner
<1>1. Init => LocalSingleRunner
  BY DEF Init, LocalSingleRunner
<1>2. TypeOK /\ JobsKnown /\ LocalSingleRunner /\ [Next]_<<vars, revoked, executor>> => LocalSingleRunner'
  <2> SUFFICES ASSUME TypeOK, JobsKnown, LocalSingleRunner, [Next]_<<vars, revoked, executor>>, Local',
                      NEW t \in Tasks, NEW u \in Tasks,
                      t # u, pc'[t] # "idle", pc'[u] # "idle"
               PROVE  job'[t] # job'[u]
    BY DEF LocalSingleRunner
  <2>1. Local
    BY DEF Next, Local
  <2>2. ASSUME NEW v \in Tasks, NEW w \in Tasks, v # w, pc'[w] # "idle",
               ~InFlight(job'[v]), \A x \in Tasks \ {v} : pc'[x] = pc[x] /\ job'[x] = job[x]
        PROVE  job'[v] # job'[w]
    BY <2>2 DEF InFlight
  <2>3. CASE /\ pc[t] # "idle" /\ job'[t] = job[t]
             /\ pc[u] # "idle" /\ job'[u] = job[u]
    BY <2>1, <2>3 DEF LocalSingleRunner
  <2> QED
    BY <2>1, <2>2, <2>3, TasksStep
<1> QED
  BY <1>1, <1>2, TypeCorrect, PTL DEF Spec
===============================================================================
