------------------------- MODULE GaojixingCollection -------------------------
(***************************************************************************)
(* Governed Doubao evidence collection: run_collection_job                 *)
(* (backend/workflow/gaojixing_collection_runner.py), its local and Celery *)
(* runtimes (gaojixing_worker_runtime.py, worker/tasks.py) and the         *)
(* requests of gaojixing_collection_service.py.                            *)
(*                                                                         *)
(* A worker asks the questions of a job one after the other in the one     *)
(* browser there is.  It holds the global lease and the lease of its job,  *)
(* and every transaction that writes first locks and compares both (the    *)
(* fence).  The raw capture of a question is a file, written before the    *)
(* transaction that marks the question as passed commits.                  *)
(*                                                                         *)
(* An owner is a uuid drawn by one call of run_collection_job; the model   *)
(* uses the worker that carries it, and Ghost once nobody does.  The       *)
(* fencing token is compared together with the owner and never decides.    *)
(* A transaction is one step: the conditional UPDATE (SQLite) or the       *)
(* SELECT FOR UPDATE it begins with keeps every other fenced transaction   *)
(* and every claim out until it commits.                                   *)
(***************************************************************************)
EXTENDS Naturals, FiniteSets

CONSTANTS
    Executors,      \* values of task_executor: "local", "celery"
    Jobs,
    Length,         \* how many questions a job has, in order of position
    PhaseOne,       \* the positions of phase 1
    Captures,       \* contents of a raw capture that pass the audit
    Workers,        \* calls of run_collection_job
    Faulty,         \* workers whose heartbeats may be late or raise, and whose
                    \* statements and file operations may raise
    Fragile,        \* positions whose raw files may be damaged from outside
    Ghost,          \* an owner nobody carries any more
    NoOwner, NoJob, NoCapture, Damaged,
    MaxCrashes      \* crashes of the API and of workers

ASSUME GaojixingConstants ==
    /\ Executors \subseteq {"local", "celery"}
    /\ Length \in [Jobs -> Nat \ {0}]
    /\ PhaseOne \subseteq Nat
    /\ Faulty \subseteq Workers
    /\ Fragile \subseteq Nat
    /\ Ghost \notin Workers /\ NoOwner \notin Workers /\ Ghost # NoOwner
    /\ NoJob \notin Jobs
    /\ NoCapture \notin Captures /\ Damaged \notin Captures /\ NoCapture # Damaged
    /\ MaxCrashes \in Nat

VARIABLES
    local,      \* task_executor is "local", else "celery"
    up,         \* the API process runs
    job,        \* GaojixingCollectionRun rows
    check,      \* GaojixingQuestionCheckpoint rows
    raw,        \* the raw capture files
    lease,      \* the global GaojixingRuntimeLease row
    messages,   \* jobs with a waiting Celery message, or a new asyncio task
    worker,     \* calls of run_collection_job
    asks,       \* how often a question was put to Doubao
    crashes

vars == <<local, up, job, check, raw, lease, messages, worker, asks, crashes>>

Waiting == {"waiting_verification", "waiting_reconciliation"}
Finished == {"succeeded", "blocked", "failed"}
JobStatus == {"none", "queued", "running", "reviewing"} \cup Waiting \cup Finished
CheckStatus == {"pending", "in_progress", "passed", "failed"} \cup Waiting

Questions(j) == 1..Length[j]
Owners == Workers \cup {Ghost, NoOwner}
Contents == Captures \cup {NoCapture, Damaged}

\* Where a worker uses the browser, and where its heartbeat task is alive.
Driving == {"preflight", "collect", "inspect"}
Writing == {"mark", "ask", "accept", "finalize"}
Claimed == Driving \cup Writing \cup {"loop", "review", "close"}
Points == {"idle", "claim", "setup", "resume", "refresh"} \cup Claimed

\* What the runtime does with the outcome of a call: project it into the
\* workflow run (waiting, blocked, failed), call again (busy, resume_pending),
\* or nothing (workflow_resume_scheduled, lease_lost, an exception).
Outcomes == {"refresh", "again", "nothing"}

Row == [status : CheckStatus, digest : Captures \cup {NoCapture}]

Idle ==
    [at |-> "idle", job |-> NoJob, question |-> 0, capture |-> NoCapture,
     out |-> "nothing", heartbeat |-> "off", lost |-> FALSE, seen |-> <<>>]

TypeOK ==
    /\ local \in BOOLEAN /\ up \in BOOLEAN
    /\ job \in [Jobs -> [status : JobStatus, owner : Owners, expired : BOOLEAN,
                         current : Nat]]
    /\ DOMAIN check = Jobs /\ \A j \in Jobs : check[j] \in [Questions(j) -> Row]
    /\ DOMAIN raw = Jobs /\ \A j \in Jobs : raw[j] \in [Questions(j) -> Contents]
    /\ lease \in [owner : Owners, job : Jobs \cup {NoJob}, expired : BOOLEAN]
    /\ messages \subseteq Jobs
    /\ DOMAIN worker = Workers
    /\ \A w \in Workers :
          /\ worker[w].at \in Points
          /\ worker[w].job \in Jobs \cup {NoJob}
          /\ worker[w].at # "idle" => worker[w].job \in Jobs
          /\ worker[w].at \in {"mark", "ask", "accept", "collect", "inspect"}
                => worker[w].question \in Questions(worker[w].job)
          /\ worker[w].at = "accept" => worker[w].capture \in Captures
          /\ worker[w].out \in Outcomes
          /\ worker[w].at = "finalize" =>
                worker[w].seen \in [Questions(worker[w].job) -> Row]
          /\ worker[w].heartbeat \in {"off", "on", "failed"}
          /\ worker[w].lost \in BOOLEAN
    /\ DOMAIN asks = Jobs /\ \A j \in Jobs : asks[j] \in [Questions(j) -> Nat]
    /\ crashes \in 0..MaxCrashes

Init ==
    /\ \E executor \in Executors : local = (executor = "local")
    /\ up = TRUE
    /\ job = [j \in Jobs |-> [status |-> "none", owner |-> NoOwner, expired |-> FALSE,
                              current |-> 0]]
    /\ check = [j \in Jobs |-> [q \in Questions(j) |->
                                   [status |-> "pending", digest |-> NoCapture]]]
    /\ raw = [j \in Jobs |-> [q \in Questions(j) |-> NoCapture]]
    /\ lease = [owner |-> NoOwner, job |-> NoJob, expired |-> FALSE]
    /\ messages = {}
    /\ worker = [w \in Workers |-> Idle]
    /\ asks = [j \in Jobs |-> [q \in Questions(j) |-> 0]]
    /\ crashes = 0

-----------------------------------------------------------------------------
(* The runtimes *)

\* dispatch_collection_job: a local task of the job that has not ended takes
\* the place of the new one; a failed publication is logged and forgotten.
Dispatch(j) ==
    \/ /\ local
       /\ messages' = IF \E w \in Workers : worker[w].job = j
                      THEN messages ELSE messages \cup {j}
    \/ ~local /\ messages' \in {messages, messages \cup {j}}

\* ensure_collection, committed and published.
EnsureCollection(j) ==
    /\ up
    /\ job[j].status = "none"
    /\ job' = [job EXCEPT ![j].status = "queued"]
    /\ Dispatch(j)
    /\ UNCHANGED <<local, up, check, raw, lease, worker, asks, crashes>>

\* Mutant: the question that waited is collected anew.
ResumeCollectionAnew(j) ==
    LET q == job[j].current IN
    /\ up
    /\ job[j].status \in Waiting
    /\ q \in Questions(j) /\ check[j][q].status \in Waiting
    /\ check' = [check EXCEPT ![j][q].status = "pending"]
    /\ job' = [job EXCEPT ![j].status = "queued"]
    /\ Dispatch(j)
    /\ UNCHANGED <<local, up, raw, lease, worker, asks, crashes>>

\* resume_collection: the row lock makes its read and its write one step.
ResumeCollection(j) ==
    LET q == job[j].current IN
    /\ up
    /\ job[j].status \in Waiting
    /\ q \in Questions(j) /\ check[j][q].status \in Waiting
    /\ check' = [check EXCEPT ![j][q].status = "in_progress"]
    /\ job' = [job EXCEPT ![j].status = "queued"]
    /\ Dispatch(j)
    /\ UNCHANGED <<local, up, raw, lease, worker, asks, crashes>>

\* A worker or an asyncio task begins; the broker may deliver a message twice.
Begin(w, j) ==
    /\ worker[w].at = "idle"
    /\ j \in messages
    /\ messages' \in IF local THEN {messages \ {j}} ELSE {messages \ {j}, messages}
    /\ worker' = [worker EXCEPT ![w].at = "claim", ![w].job = j]
    /\ UNCHANGED <<local, up, job, check, raw, lease, asks, crashes>>

\* Nobody carries the owner strings of W any more.
Forsaken(o, W) == IF o \in W THEN Ghost ELSE o
ForsakenJobs(rows, W) == [j \in Jobs |-> [rows[j] EXCEPT !.owner = Forsaken(@, W)]]
ForsakenLease(row, W) == [row EXCEPT !.owner = Forsaken(@, W)]

\* The call returns.  A busy or pending one is tried again: by the loop of
\* _run_local_until_stable, or by a new message.
Return(w, again) ==
    \/ /\ again /\ local
       /\ worker' = [worker EXCEPT ![w] = [Idle EXCEPT !.at = "claim", !.job = worker[w].job]]
       /\ UNCHANGED messages
    \/ /\ again /\ ~local
       /\ worker' = [worker EXCEPT ![w] = Idle]
       /\ messages' = messages \cup {worker[w].job}
    \/ /\ ~again
       /\ worker' = [worker EXCEPT ![w] = Idle]
       /\ UNCHANGED messages

-----------------------------------------------------------------------------
(* run_collection_job *)

\* Mutant: a job is claimed in its own row only.
ClaimableByJob(j) ==
    \/ job[j].status = "queued"
    \/ job[j].status = "running" /\ job[j].expired

Claimable(j) ==
    /\ lease.owner = NoOwner \/ lease.expired
    /\ \/ job[j].status = "queued"
       \/ job[j].status = "running" /\ job[j].expired

\* _claim: both leases in one transaction, or none.
Claim(w) ==
    LET j == worker[w].job IN
    /\ worker[w].at = "claim"
    /\ Claimable(j)
    /\ lease' = [owner |-> w, job |-> j, expired |-> FALSE]
    /\ job' = [job EXCEPT ![j].status = "running", ![j].owner = w, ![j].expired = FALSE]
    /\ worker' = [worker EXCEPT ![w].at = "setup"]
    /\ UNCHANGED <<local, up, check, raw, messages, asks, crashes>>

\* No claim: a job in review is resumed, every other one is "busy".
ClaimRefused(w) ==
    LET j == worker[w].job IN
    /\ worker[w].at = "claim"
    /\ ~Claimable(j)
    /\ \/ /\ job[j].status = "reviewing"
          /\ worker' = [worker EXCEPT ![w].at = "resume"]
          /\ UNCHANGED messages
       \/ /\ job[j].status # "reviewing"
          /\ Return(w, TRUE)
    /\ UNCHANGED <<local, up, job, check, raw, lease, asks, crashes>>

\* The question batch is resolved, outside the try: an error releases nothing.
Setup(w) ==
    /\ worker[w].at = "setup"
    /\ \/ /\ worker' = [worker EXCEPT ![w].at = "preflight", ![w].heartbeat = "on"]
          /\ UNCHANGED <<job, lease>>
       \/ /\ worker' = [worker EXCEPT ![w] = Idle]
          /\ job' = ForsakenJobs(job, {w})
          /\ lease' = ForsakenLease(lease, {w})
    /\ UNCHANGED <<local, up, check, raw, messages, asks, crashes>>

Close(w, out) ==
    worker' = [worker EXCEPT ![w].at = "close", ![w].out = out, ![w].seen = <<>>,
                             ![w].capture = NoCapture, ![w].question = 0]

\* _lock_fence.
Fence(w) ==
    LET j == worker[w].job IN
    /\ lease.owner = w /\ lease.job = j
    /\ job[j].owner = w /\ job[j].status = "running"

\* Mutant: the raw file is written before the fence is locked.
FenceLostAfterWrite(w) ==
    /\ worker[w].at \in {"mark", "accept", "finalize", "collect", "inspect"}
    /\ ~Fence(w)
    /\ raw' = IF worker[w].at = "accept"
              THEN [raw EXCEPT ![worker[w].job][worker[w].question] = worker[w].capture]
              ELSE raw
    /\ Close(w, "nothing")
    /\ UNCHANGED <<local, up, job, check, lease, messages, asks, crashes>>

\* The fence is gone: the transaction is rolled back.
FenceLost(w) ==
    /\ worker[w].at \in {"mark", "accept", "finalize", "collect", "inspect"}
    /\ ~Fence(w)
    /\ Close(w, "nothing")
    /\ UNCHANGED <<local, up, job, check, raw, lease, messages, asks, crashes>>

\* The job row when a worker gives it up for status st.
Settled(j, st) == [job EXCEPT ![j].status = st, ![j].owner = NoOwner, ![j].expired = FALSE]

\* driver.preflight() returns, or raises and the job is blocked (_finish_job,
\* whose answer is not looked at).
Preflight(w) ==
    /\ worker[w].at = "preflight"
    /\ ~worker[w].lost
    /\ \/ /\ worker' = [worker EXCEPT ![w].at = "loop"]
          /\ UNCHANGED job
       \/ /\ job' = IF Fence(w) THEN Settled(worker[w].job, "blocked") ELSE job
          /\ Close(w, "refresh")
    /\ UNCHANGED <<local, up, check, raw, lease, messages, asks, crashes>>

\* Mutant: the file has only to be readable.
ValidUnlessMissing(content, row) == row.status = "passed" /\ content # NoCapture

\* _validated_passed_capture.
Valid(content, row) == row.status = "passed" /\ content = row.digest

\* The beginning of _advance_question: a new question is marked, one that is in
\* progress is never asked again but recovered from its raw file or the page.
Advance(w, q) ==
    LET j == worker[w].job IN
    \/ /\ check[j][q].status \in Waiting \cup {"failed"}
       /\ Close(w, "refresh")
    \/ /\ check[j][q].status = "pending"
       /\ worker' = [worker EXCEPT ![w].at = "mark", ![w].question = q]
    \/ /\ check[j][q].status = "in_progress"
       /\ raw[j][q] \in Captures
       /\ worker' = [worker EXCEPT ![w].at = "accept", ![w].question = q,
                                   ![w].capture = raw[j][q]]
    \/ /\ check[j][q].status = "in_progress"
       /\ worker' = [worker EXCEPT ![w].at = "inspect", ![w].question = q]

\* One round of the loop: the first question that has not passed.  Phase 2
\* begins over intact evidence of phase 1, or the job fails.
Loop(w) ==
    LET j == worker[w].job
        Open == {q \in Questions(j) : check[j][q].status # "passed"}
        Intact == \A p \in Questions(j) \cap PhaseOne : Valid(raw[j][p], check[j][p])
    IN
    /\ worker[w].at = "loop"
    /\ \/ /\ Open = {}
          /\ worker' = [worker EXCEPT ![w].at = "finalize", ![w].seen = check[j]]
          /\ UNCHANGED job
       \/ \E q \in Open :
             /\ \A p \in Open : q <= p
             /\ \/ /\ q \notin PhaseOne /\ ~Intact
                   /\ job' = IF Fence(w) THEN Settled(j, "failed") ELSE job
                   /\ Close(w, "refresh")
                \/ /\ q \in PhaseOne \/ Intact
                   /\ Advance(w, q)
                   /\ UNCHANGED job
    /\ UNCHANGED <<local, up, check, raw, lease, messages, asks, crashes>>

\* Mutant: the job row does not name the question.
MarkInProgressUnnamed(w) ==
    LET j == worker[w].job
        q == worker[w].question
    IN
    /\ worker[w].at = "mark"
    /\ Fence(w)
    /\ \/ /\ check[j][q].status = "pending"
          /\ check' = [check EXCEPT ![j][q].status = "in_progress"]
          /\ worker' = [worker EXCEPT ![w].at = "ask"]
       \/ /\ check[j][q].status # "pending"
          /\ Close(w, "nothing")
          /\ UNCHANGED check
    /\ UNCHANGED <<local, up, job, raw, lease, messages, asks, crashes>>

\* _mark_in_progress: only the worker that moves a question on from pending
\* may ask it.
MarkInProgress(w) ==
    LET j == worker[w].job
        q == worker[w].question
    IN
    /\ worker[w].at = "mark"
    /\ Fence(w)
    /\ job' = [job EXCEPT ![j].current = q]
    /\ \/ /\ check[j][q].status = "pending"
          /\ check' = [check EXCEPT ![j][q].status = "in_progress"]
          /\ worker' = [worker EXCEPT ![w].at = "ask"]
       \/ /\ check[j][q].status # "pending"
          /\ Close(w, "nothing")
          /\ UNCHANGED check
    /\ UNCHANGED <<local, up, raw, lease, messages, asks, crashes>>

\* driver.collect() puts the question to Doubao.
Ask(w) ==
    LET j == worker[w].job
        q == worker[w].question
    IN
    /\ worker[w].at = "ask"
    /\ asks' = [asks EXCEPT ![j][q] = @ + 1]
    /\ worker' = [worker EXCEPT ![w].at = "collect"]
    /\ UNCHANGED <<local, up, job, check, raw, lease, messages, crashes>>

\* collect() or inspect_current() ends with a capture that passes the audit.
DriverReturns(w) ==
    /\ worker[w].at \in {"collect", "inspect"}
    /\ ~worker[w].lost
    /\ \E c \in Captures :
          worker' = [worker EXCEPT ![w].at = "accept", ![w].capture = c]
    /\ UNCHANGED <<local, up, job, check, raw, lease, messages, asks, crashes>>

\* _await_driver cancels the driver of a worker that has lost its lease.
DriverCancelled(w) ==
    /\ worker[w].at \in Driving
    /\ worker[w].lost
    /\ Close(w, "nothing")
    /\ UNCHANGED <<local, up, job, check, raw, lease, messages, asks, crashes>>

\* _accept_capture: the artifacts are promoted, the file is written, and the
\* checkpoint passes; or the evidence is refused; or the file is written and
\* the transaction fails.
AcceptCapture(w) ==
    LET j == worker[w].job
        q == worker[w].question
        c == worker[w].capture
    IN
    /\ worker[w].at = "accept"
    /\ Fence(w)
    /\ \/ /\ raw' = [raw EXCEPT ![j][q] = c]
          /\ check' = [check EXCEPT ![j][q] = [status |-> "passed", digest |-> c]]
          /\ job' = [job EXCEPT ![j].current = 0]
          /\ worker' = [worker EXCEPT ![w].at = "loop", ![w].capture = NoCapture,
                                      ![w].question = 0]
       \/ /\ check' = [check EXCEPT ![j][q].status = "failed"]
          /\ job' = Settled(j, "failed")
          /\ Close(w, "refresh")
          /\ UNCHANGED raw
       \/ /\ w \in Faulty
          /\ raw' = [raw EXCEPT ![j][q] = c]
          /\ Close(w, "nothing")
          /\ UNCHANGED <<check, job>>
    /\ UNCHANGED <<local, up, lease, messages, asks, crashes>>

\* The driver asks for a human, or returns nothing or raises: _mark_waiting and
\* _mark_verification_waiting.
MarkWaiting(w) ==
    LET j == worker[w].job IN
    /\ worker[w].at \in {"collect", "inspect"}
    /\ Fence(w)
    /\ \E kind \in Waiting :
          /\ job' = Settled(j, kind)
          /\ check' = [check EXCEPT ![j][worker[w].question].status = kind]
    /\ Close(w, "refresh")
    /\ UNCHANGED <<local, up, raw, lease, messages, asks, crashes>>

\* The evidence fails the audit, or a verification comes without its artifact:
\* _fail_question.
FailQuestion(w) ==
    LET j == worker[w].job IN
    /\ worker[w].at \in {"collect", "inspect"}
    /\ Fence(w)
    /\ job' = Settled(j, "failed")
    /\ check' = [check EXCEPT ![j][worker[w].question].status = "failed"]
    /\ Close(w, "refresh")
    /\ UNCHANGED <<local, up, raw, lease, messages, asks, crashes>>

\* _finalize_job: every raw file is compared with the digest the loop has read.
FinalizeJob(w) ==
    LET j == worker[w].job
        Bad == {q \in Questions(j) : ~Valid(raw[j][q], worker[w].seen[q])}
    IN
    /\ worker[w].at = "finalize"
    /\ Fence(w)
    /\ \/ /\ Bad = {}
          /\ job' = Settled(j, "reviewing")
          /\ worker' = [worker EXCEPT ![w].at = "review", ![w].seen = <<>>]
          /\ UNCHANGED check
       \/ \E q \in Bad :
             /\ \A p \in Bad : q <= p
             /\ job' = Settled(j, "failed")
             /\ check' = [check EXCEPT ![j][q].status = "failed"]
             /\ Close(w, "refresh")
    /\ UNCHANGED <<local, up, raw, lease, messages, asks, crashes>>

\* resume_gaojixing_workflow_run replays the workflow over the archive.
Reviewed(j) ==
    \/ job[j].status = "reviewing" /\ job' \in {job, Settled(j, "succeeded"), Settled(j, "failed")}
    \/ job[j].status # "reviewing" /\ UNCHANGED job

\* schedule_resume, with the lease still held or without one.
ScheduleResume(w) ==
    /\ worker[w].at \in {"review", "resume"}
    /\ \/ /\ Reviewed(worker[w].job)
          /\ \/ worker[w].at = "review" /\ Close(w, "nothing")
                    /\ UNCHANGED messages
             \/ worker[w].at = "resume" /\ Return(w, FALSE)
       \/ /\ UNCHANGED job
          /\ \/ worker[w].at = "review" /\ Close(w, "again") /\ UNCHANGED messages
             \/ worker[w].at = "resume" /\ Return(w, TRUE)
    /\ UNCHANGED <<local, up, check, raw, lease, asks, crashes>>

\* The database or the file system raises in a step of the try.
Raises(w) ==
    /\ w \in Faulty
    /\ worker[w].at \in Writing \cup {"loop"}
    /\ Close(w, "nothing")
    /\ UNCHANGED <<local, up, job, check, raw, lease, messages, asks, crashes>>

\* _release.
Released(w) ==
    IF lease.owner = w /\ lease.job = worker[w].job
    THEN [owner |-> NoOwner, job |-> NoJob, expired |-> FALSE]
    ELSE lease

\* A heartbeat that has raised, or a release that raises, leaves the lease
\* behind.  Some outcomes are projected into the workflow run.
LeaveTry(w) ==
    /\ \/ /\ lease' = ForsakenLease(lease, {w})
          /\ Return(w, FALSE)
       \/ /\ worker[w].heartbeat # "failed"
          /\ lease' = Released(w)
          /\ \/ /\ worker[w].out = "refresh"
                /\ worker' = [worker EXCEPT ![w] = [Idle EXCEPT !.at = "refresh",
                                                               !.job = worker[w].job]]
                /\ UNCHANGED messages
             \/ /\ worker[w].out # "refresh"
                /\ Return(w, worker[w].out = "again")
    /\ job' = ForsakenJobs(job, {w})
    /\ UNCHANGED <<local, up, check, raw, asks, crashes>>

\* Mutant: the heartbeat is awaited and was not told to stop.
FinallyUnstopped(w) ==
    /\ worker[w].at = "close"
    /\ worker[w].heartbeat # "on"
    /\ LeaveTry(w)

\* The finally block.
Finally(w) ==
    /\ worker[w].at = "close"
    /\ LeaveTry(w)

\* refresh_gaojixing_workflow_run ends.
Refresh(w) ==
    /\ worker[w].at = "refresh"
    /\ Return(w, FALSE)
    /\ UNCHANGED <<local, up, job, check, raw, lease, asks, crashes>>

-----------------------------------------------------------------------------
(* Heartbeats, time and failures *)

Renewed(row, w) == IF row.owner = w THEN [row EXCEPT !.expired = FALSE] ELSE row

\* _heartbeat: both leases are renewed; if one is gone the worker is told.
Heartbeat(w) ==
    LET j == worker[w].job
        held == lease.owner = w /\ lease.job = j
        mine == job[j].owner = w /\ job[j].status = "running"
    IN
    /\ worker[w].heartbeat = "on"
    /\ lease' = IF held THEN Renewed(lease, w) ELSE lease
    /\ job' = IF mine THEN [job EXCEPT ![j] = Renewed(@, w)] ELSE job
    /\ worker' = IF held /\ mine THEN worker
                 ELSE [worker EXCEPT ![w].heartbeat = "off", ![w].lost = TRUE]
    /\ UNCHANGED <<local, up, check, raw, messages, asks, crashes>>

\* The database raises in the heartbeat: its task ends, and nobody is told.
HeartbeatRaises(w) ==
    /\ w \in Faulty
    /\ worker[w].heartbeat = "on"
    /\ worker' = [worker EXCEPT ![w].heartbeat = "failed"]
    /\ UNCHANGED <<local, up, job, check, raw, lease, messages, asks, crashes>>

\* LEASE_DURATION passes without a heartbeat.  The heartbeat interval is a
\* sixth of it: a prompt worker with a live heartbeat keeps its leases.
Prompt(w) == w \notin Faulty /\ (worker[w].heartbeat = "on" \/ worker[w].at = "setup")

MayExpire(o) == o = Ghost \/ (o \in Workers /\ ~Prompt(o))

Expire(o) ==
    /\ MayExpire(o)
    /\ \/ lease.owner = o /\ ~lease.expired
       \/ \E j \in Jobs : job[j].owner = o /\ ~job[j].expired
    /\ lease' = IF lease.owner = o THEN [lease EXCEPT !.expired = TRUE] ELSE lease
    /\ job' = [j \in Jobs |-> IF job[j].owner = o THEN [job[j] EXCEPT !.expired = TRUE]
                              ELSE job[j]]
    /\ UNCHANGED <<local, up, check, raw, messages, worker, asks, crashes>>

\* A Celery worker is killed; with late acknowledgement its message may return.
Kill(w) ==
    /\ ~local /\ crashes < MaxCrashes
    /\ worker[w].at # "idle"
    /\ worker' = [worker EXCEPT ![w] = Idle]
    /\ job' = ForsakenJobs(job, {w})
    /\ lease' = ForsakenLease(lease, {w})
    /\ messages' \in {messages, messages \cup {worker[w].job}}
    /\ crashes' = crashes + 1
    /\ UNCHANGED <<local, up, check, raw, asks>>

\* The API process ends, and its asyncio tasks with it.
ApiCrash ==
    /\ up /\ crashes < MaxCrashes
    /\ up' = FALSE
    /\ crashes' = crashes + 1
    /\ \/ /\ local
          /\ worker' = [w \in Workers |-> Idle]
          /\ job' = ForsakenJobs(job, Workers)
          /\ lease' = ForsakenLease(lease, Workers)
          /\ messages' = {}
       \/ ~local /\ UNCHANGED <<worker, job, lease, messages>>
    /\ UNCHANGED <<local, check, raw, asks>>

\* recover_collection_jobs at startup.
Recoverable(j) ==
    \/ job[j].status \in {"queued", "reviewing"}
    \/ job[j].status = "running" /\ job[j].expired

ApiRestart ==
    /\ ~up
    /\ up' = TRUE
    /\ job' = [j \in Jobs |-> IF job[j].status = "running" /\ job[j].expired
                              THEN [job[j] EXCEPT !.status = "queued", !.owner = NoOwner,
                                                  !.expired = FALSE]
                              ELSE job[j]]
    /\ messages' = messages \cup {j \in Jobs : Recoverable(j)}
    /\ UNCHANGED <<local, check, raw, lease, worker, asks, crashes>>

\* A raw file is damaged or lost from outside.
Damage(j, q) ==
    /\ q \in Fragile
    /\ raw[j][q] \in Captures
    /\ raw' = [raw EXCEPT ![j][q] = Damaged]
    /\ UNCHANGED <<local, up, job, check, lease, messages, worker, asks, crashes>>

\* What the event loop, the database and the browser complete by themselves;
\* every call of the driver has a timeout.
Progress(w) ==
    \/ Claim(w) \/ ClaimRefused(w) \/ Setup(w) \/ Preflight(w) \/ Loop(w)
    \/ MarkInProgress(w) \/ FenceLost(w) \/ Ask(w) \/ DriverReturns(w) \/ DriverCancelled(w)
    \/ AcceptCapture(w) \/ MarkWaiting(w) \/ FailQuestion(w) \/ FinalizeJob(w)
    \/ ScheduleResume(w) \/ Finally(w) \/ Refresh(w)

Next ==
    \/ \E j \in Jobs : EnsureCollection(j) \/ ResumeCollection(j)
    \/ \E w \in Workers, j \in Jobs : Begin(w, j)
    \/ \E w \in Workers : Progress(w) \/ Raises(w)
    \/ \E w \in Workers : Heartbeat(w) \/ HeartbeatRaises(w) \/ Kill(w)
    \/ \E o \in Workers \cup {Ghost} : Expire(o)
    \/ \E j \in Jobs : \E q \in Questions(j) : Damage(j, q)
    \/ ApiCrash \/ ApiRestart

Spec == Init /\ [][Next]_vars

Fairness ==
    /\ \A w \in Workers : WF_vars(Progress(w)) /\ WF_vars(Heartbeat(w))
    /\ WF_vars(Expire(Ghost))
    /\ WF_vars(ApiRestart)

FairSpec == Spec /\ Fairness

-----------------------------------------------------------------------------
(* Properties *)

(***************************************************************************)
(* "Resume the same run after human verification; never ask the question   *)
(* twice": no crash, takeover, late worker, repeated message or resumption *)
(* makes a second collect() of one question.                               *)
(***************************************************************************)
AskedOnce == \A j \in Jobs : \A q \in Questions(j) : asks[j][q] <= 1

(***************************************************************************)
(* A worker whose heartbeat works holds the global lease as long as it     *)
(* uses the browser, whatever late, failing, killed or finished workers    *)
(* and their releases do: such workers are globally serialized.            *)
(***************************************************************************)
DriverHoldsLease ==
    \A w \in Workers :
        (Prompt(w) /\ worker[w].at \in Driving) =>
            lease.owner = w /\ lease.job = worker[w].job /\ ~lease.expired

(***************************************************************************)
(* The evidence of a passed question is the file its digest was taken of,  *)
(* whatever late workers write, and a job in review or after it has        *)
(* evidence for every question.                                            *)
(***************************************************************************)
EvidenceStands ==
    \A j \in Jobs :
        /\ \A q \in Questions(j) :
              check[j][q].status = "passed" => raw[j][q] \in {check[j][q].digest, Damaged}
        /\ job[j].status \in {"reviewing", "succeeded"} =>
              \A q \in Questions(j) : check[j][q].status = "passed"

(***************************************************************************)
(* A waiting job can always be resumed: the checkpoint that waits is the   *)
(* one the job row names, so resume_collection finds it.                   *)
(***************************************************************************)
WaitingIsResumable ==
    \A j \in Jobs :
        job[j].status \in Waiting =>
            job[j].current \in Questions(j) /\ check[j][job[j].current].status \in Waiting

(***************************************************************************)
(* A job enters review only over files that are intact at that moment,     *)
(* although the digests were read before the fence was locked.             *)
(***************************************************************************)
ReviewedIntact ==
    [][\A j \in Jobs :
          (job'[j].status = "reviewing" /\ job[j].status # "reviewing") =>
              \A q \in Questions(j) : raw[j][q] = check[j][q].digest]_vars

(***************************************************************************)
(* The browser is never lost to the other jobs: the global lease is given  *)
(* back or expires, whatever becomes of its holder.                        *)
(***************************************************************************)
LeaseIsReturned ==
    \A o \in Workers \cup {Ghost} :
        (lease.owner = o /\ ~lease.expired) ~> (lease.owner # o \/ lease.expired)
=============================================================================
