---------------------- MODULE GaojixingCollectionProofs ----------------------
(***************************************************************************)
(* Proofs about GaojixingCollection for any number of jobs, questions and  *)
(* workers, with any of them faulty and any number of crashes: a question  *)
(* is asked once, the evidence of a passed question stands, a waiting job  *)
(* can be resumed, a prompt worker drives the browser under its lease, and *)
(* a job enters review over intact files only.                             *)
(***************************************************************************)
EXTENDS GaojixingCollection, Integers, TLAPS

USE GaojixingConstants

-----------------------------------------------------------------------------
(* The inductive invariant *)

\* What a call has read of the checkpoints of a job, or nothing.
Seen == {<<>>} \cup UNION {[Questions(j) -> Row] : j \in Jobs}

Calls ==
    [at : Points, job : Jobs \cup {NoJob}, question : Nat, capture : Captures \cup {NoCapture},
     out : Outcomes, heartbeat : {"off", "on", "failed"}, lost : BOOLEAN,
     seen : Seen]

JobRows == [status : JobStatus, owner : Owners, expired : BOOLEAN, current : Nat]
LeaseRows == [owner : Owners, job : Jobs \cup {NoJob}, expired : BOOLEAN]

\* Where a call has a question.
Asking == {"mark", "ask", "accept", "collect", "inspect"}

\* The tables and files, and the counter of the asks.
TableTypes ==
    /\ local \in BOOLEAN /\ up \in BOOLEAN /\ messages \subseteq Jobs /\ crashes \in 0..MaxCrashes
    /\ job \in [Jobs -> JobRows] /\ lease \in LeaseRows
    /\ DOMAIN check = Jobs /\ \A j \in Jobs : check[j] \in [Questions(j) -> Row]
    /\ DOMAIN raw = Jobs /\ \A j \in Jobs : raw[j] \in [Questions(j) -> Contents]
    /\ DOMAIN asks = Jobs /\ \A j \in Jobs : asks[j] \in [Questions(j) -> Nat]

CallTypes ==
    /\ worker \in [Workers -> Calls]
    /\ \A w \in Workers :
          /\ worker[w].at # "idle" => worker[w].job \in Jobs
          /\ worker[w].at \in Asking => worker[w].question \in Questions(worker[w].job)
          /\ worker[w].at = "accept" => worker[w].capture \in Captures
          /\ worker[w].at = "finalize" => worker[w].seen \in [Questions(worker[w].job) -> Row]

\* A job with status st and current question cur, its checkpoints ck and its
\* raw files rw: what has passed has its file, a job in review has passed, and
\* the questions are taken in order, the one in between being the current one.
Row1(j, st, cur, ck, rw) ==
    /\ \A q \in Questions(j) : ck[q].status = "passed" => rw[q] \in {ck[q].digest, Damaged}
    /\ st \in {"reviewing", "succeeded"} => \A q \in Questions(j) : ck[q].status = "passed"
    /\ st \in Waiting => cur \in Questions(j) /\ ck[cur].status \in Waiting
    /\ \A q \in Questions(j) : ck[q].status \in {"in_progress"} \cup Waiting => cur = q
    /\ \A p, q \in Questions(j) :
          p < q /\ ck[q].status # "pending" => ck[p].status \in {"passed", "failed"}

JobsInv == \A j \in Jobs : Row1(j, job[j].status, job[j].current, check[j], raw[j])

\* What a call knows of its job while it holds the fence.
Position(l, ck) ==
    /\ l.at = "mark" =>
          /\ ck[l.question].status = "pending"
          /\ \A p \in Questions(l.job) : p < l.question => ck[p].status = "passed"
    /\ l.at \in {"ask", "accept", "collect", "inspect"} =>
          ck[l.question].status = "in_progress"
    /\ l.at = "finalize" => l.seen = ck

CallsInv == \A w \in Workers : Fence(w) => Position(worker[w], check[worker[w].job])

\* A call that is about to ask has the only permission there is.
MayAsk(w, j, q) == worker[w].at = "ask" /\ worker[w].job = j /\ worker[w].question = q

AskInv ==
    \A j \in Jobs : \A q \in Questions(j) :
        /\ asks[j][q] <= 1
        /\ check[j][q].status = "pending" => asks[j][q] = 0
        /\ \A w \in Workers : MayAsk(w, j, q) => /\ asks[j][q] = 0
                                                 /\ check[j][q].status # "pending"
        /\ \A v, w \in Workers : MayAsk(v, j, q) /\ MayAsk(w, j, q) => v = w

\* A prompt call has the lease from its claim to the end of its heartbeat.
LeaseInv ==
    \A w \in Workers :
        /\ worker[w].heartbeat # "off" => worker[w].at \in Claimed
        /\ Prompt(w) => lease.owner = w /\ lease.job = worker[w].job /\ ~lease.expired

CollectionInv == TableTypes /\ CallTypes /\ JobsInv /\ CallsInv /\ AskInv /\ LeaseInv

-----------------------------------------------------------------------------
(* Types *)

LEMMA SeenTypes ==
    /\ <<>> \in Seen
    /\ \A j \in Jobs : \A ck \in [Questions(j) -> Row] : ck \in Seen
  BY DEF Seen

LEMMA IdleType ==
    /\ Idle \in Calls /\ Idle.at = "idle" /\ Idle.heartbeat = "off"
    /\ \A j \in Jobs : /\ [Idle EXCEPT !.at = "claim", !.job = j] \in Calls
                       /\ [Idle EXCEPT !.at = "refresh", !.job = j] \in Calls
  BY SeenTypes DEF Idle, Calls, Points, Outcomes

\* One call goes on with locals l.
LEMMA CallStep ==
    ASSUME CallTypes, NEW w \in Workers, NEW l \in Calls, worker' = [worker EXCEPT ![w] = l],
           l.at # "idle" => l.job \in Jobs,
           l.at \in Asking => l.question \in Questions(l.job),
           l.at = "accept" => l.capture \in Captures,
           l.at = "finalize" => l.seen \in [Questions(l.job) -> Row]
    PROVE  /\ CallTypes'
           /\ worker'[w] = l /\ \A v \in Workers \ {w} : worker'[v] = worker[v]
  BY DEF CallTypes

\* The try block of run_collection_job is left.
LEMMA CloseCall ==
    ASSUME CallTypes, NEW w \in Workers, NEW out \in Outcomes, worker[w].at # "idle", Close(w, out)
    PROVE  /\ CallTypes'
           /\ worker'[w].at = "close" /\ worker'[w].job = worker[w].job
           /\ worker'[w].heartbeat = worker[w].heartbeat
           /\ \A v \in Workers \ {w} : worker'[v] = worker[v]
<1> DEFINE l == [worker[w] EXCEPT !.at = "close", !.out = out, !.seen = <<>>,
                                  !.capture = NoCapture, !.question = 0]
<1>1. worker[w] \in Calls /\ worker[w].job \in Jobs
  BY DEF CallTypes
<1>2. /\ l \in Calls /\ l.at = "close" /\ l.job = worker[w].job
      /\ l.heartbeat = worker[w].heartbeat
  BY <1>1, SeenTypes DEF Calls, Points, Claimed
<1>3. worker' = [worker EXCEPT ![w] = l]
  BY <1>1 DEF Close, CallTypes
<1> HIDE DEF l
<1> QED
  BY <1>1, <1>2, <1>3, CallStep DEF Asking

\* The call returns, and may be tried again.
LEMMA ReturnCall ==
    ASSUME CallTypes, TableTypes, NEW w \in Workers, NEW again \in BOOLEAN, worker[w].at # "idle",
           Return(w, again)
    PROVE  /\ CallTypes'
           /\ worker'[w].at \in {"idle", "claim"} /\ worker'[w].heartbeat = "off"
           /\ \A v \in Workers \ {w} : worker'[v] = worker[v]
           /\ messages' \subseteq Jobs
<1>1. worker[w].job \in Jobs
  BY DEF CallTypes
<1>2. PICK l \in Calls : /\ worker' = [worker EXCEPT ![w] = l]
                         /\ l.at \in {"idle", "claim"} /\ l.heartbeat = "off"
                         /\ l.at = "claim" => l.job \in Jobs
  BY <1>1, IdleType DEF Return, Idle
<1>3. messages' \subseteq Jobs
  BY <1>1 DEF Return, TableTypes
<1> QED
  BY <1>2, <1>3, CallStep DEF Asking

-----------------------------------------------------------------------------
(* What a step leaves alone *)

\* Statuses a job takes without any change of its questions.
Moved(st, new) ==
    \/ new = st \/ new \in {"queued", "running", "blocked", "failed"}
    \/ st = "reviewing" /\ new = "succeeded"

\* Rows and files stand, but for status and owners of jobs.
LEMMA JobsStand ==
    ASSUME JobsInv, UNCHANGED <<check, raw>>,
           \A j \in Jobs : /\ job'[j].current = job[j].current
                           /\ Moved(job[j].status, job'[j].status)
    PROVE  JobsInv'
<1>1. ASSUME NEW j \in Jobs
      PROVE  Row1(j, job[j].status, job[j].current, check[j], raw[j])'
  <2>1. PICK st, new, cur, ck, rw :
           /\ st = job[j].status /\ new = job'[j].status /\ cur = job[j].current
           /\ ck = check[j] /\ rw = raw[j]
    OBVIOUS
  <2>2. Row1(j, st, cur, ck, rw) /\ Moved(st, new)
    BY <2>1 DEF JobsInv
  <2>3. Row1(j, new, cur, ck, rw)
    BY <2>2 DEF Row1, Moved, Waiting
  <2>4. job'[j].current = cur /\ check'[j] = ck /\ raw'[j] = rw /\ job'[j].status = new
    BY <2>1
  <2> QED
    BY <2>3, <2>4 DEF Row1, Questions
<1> QED
  BY <1>1 DEF JobsInv

\* A step changes the row, the questions and the files of one job.
LEMMA OneJobStep ==
    ASSUME JobsInv, NEW j \in Jobs, NEW st, NEW cur, NEW ck, NEW rw, Row1(j, st, cur, ck, rw),
           job'[j].status = st, job'[j].current = cur, check'[j] = ck, raw'[j] = rw,
           \A d \in Jobs \ {j} : /\ job'[d].status = job[d].status
                                 /\ job'[d].current = job[d].current
                                 /\ check'[d] = check[d] /\ raw'[d] = raw[d]
    PROVE  JobsInv'
  BY DEF JobsInv, Row1, Questions

\* A call knows where it is, or has kept its place and nobody has touched its job.
LEMMA CallsStand ==
    ASSUME CallsInv,
           \A w \in Workers :
              \/ worker'[w].at \notin Asking \cup {"finalize"}
              \/ Fence(w)' => Position(worker[w], check[worker[w].job])'
              \/ /\ worker'[w] = worker[w]
                 /\ Fence(w)' => Fence(w) /\ check'[worker[w].job] = check[worker[w].job]
    PROVE  CallsInv'
<1>1. ASSUME NEW w \in Workers, Fence(w)'
      PROVE  Position(worker[w], check[worker[w].job])'
  <2>1. CASE worker'[w].at \notin Asking \cup {"finalize"}
    BY <2>1 DEF Position, Asking
  <2>2. CASE worker'[w] = worker[w] /\ (Fence(w)' => Fence(w) /\ check'[worker[w].job] = check[worker[w].job])
    <3>1. PICK l, ck : l = worker[w] /\ ck = check[worker[w].job] /\ Position(l, ck)
      BY <1>1, <2>2 DEF CallsInv
    <3>2. worker'[w] = l /\ check'[worker'[w].job] = ck
      BY <1>1, <2>2, <3>1
    <3> QED
      BY <3>1, <3>2 DEF Position, Questions
  <2> QED
    BY <1>1, <2>1, <2>2
<1> QED
  BY <1>1 DEF CallsInv

\* Nobody asks, nobody gets the permission to ask, and no question is reset.
LEMMA AsksStand ==
    ASSUME AskInv, asks' = asks,
           \A j \in Jobs : \A q \in Questions(j) :
              check'[j][q].status = "pending" => check[j][q].status = "pending",
           \A w \in Workers : worker'[w].at = "ask" =>
              /\ worker[w].at = "ask" /\ worker'[w].job = worker[w].job
              /\ worker'[w].question = worker[w].question
    PROVE  AskInv'
<1>1. ASSUME NEW j \in Jobs, NEW q \in Questions(j)
      PROVE  /\ asks'[j][q] <= 1
             /\ check'[j][q].status = "pending" => asks'[j][q] = 0
             /\ \A w \in Workers : MayAsk(w, j, q)' => /\ asks'[j][q] = 0
                                                       /\ check'[j][q].status # "pending"
             /\ \A v, w \in Workers : MayAsk(v, j, q)' /\ MayAsk(w, j, q)' => v = w
  <2>1. \A w \in Workers : MayAsk(w, j, q)' => MayAsk(w, j, q)
    BY DEF MayAsk
  <2> QED
    BY <2>1 DEF AskInv
<1> QED
  BY <1>1 DEF AskInv, Questions

\* The lease is not taken from the prompt, and no heartbeat begins.
LEMMA LeaseStands ==
    ASSUME LeaseInv,
           \A w \in Workers :
              /\ worker'[w].heartbeat # "off" => worker'[w].at \in Claimed
              /\ Prompt(w)' => /\ Prompt(w) /\ worker'[w].job = worker[w].job
                               /\ lease.owner = w => /\ lease'.owner = w /\ lease'.job = lease.job
                                                     /\ lease.expired \/ ~lease'.expired
    PROVE  LeaseInv'
<1>1. ASSUME NEW w \in Workers, Prompt(w)'
      PROVE  lease'.owner = w /\ lease'.job = worker'[w].job /\ ~lease'.expired
  BY <1>1 DEF LeaseInv
<1> QED
  BY <1>1 DEF LeaseInv

-----------------------------------------------------------------------------
(* Requests and runtimes *)

LEMMA EnsureStep ==
    ASSUME CollectionInv, NEW j \in Jobs, EnsureCollection(j)
    PROVE  CollectionInv'
<1> USE DEF CollectionInv
<1>1. /\ UNCHANGED <<local, up, check, raw, lease, worker, asks, crashes>>
      /\ job[j].status = "none" /\ job' = [job EXCEPT ![j].status = "queued"]
      /\ messages' \subseteq Jobs
  BY DEF EnsureCollection, Dispatch, TableTypes
<1>2. job \in [Jobs -> JobRows]
  BY DEF TableTypes
<1>3. TableTypes'
  BY <1>1, <1>2 DEF TableTypes, JobRows, JobStatus
<1>4. JobsInv'
  BY <1>1, <1>2, JobsStand DEF JobRows, Moved
<1>5. CallTypes'
  BY <1>1 DEF CallTypes, Questions
<1>6. CallsInv'
  BY <1>1, <1>2, CallsStand DEF Fence, JobRows
<1>7. AskInv' /\ LeaseInv'
  BY <1>1, AsksStand, LeaseStands DEF Prompt, LeaseInv
<1> QED
  BY <1>3, <1>4, <1>5, <1>6, <1>7

LEMMA ResumeStep ==
    ASSUME CollectionInv, NEW j \in Jobs, ResumeCollection(j)
    PROVE  CollectionInv'
<1> USE DEF CollectionInv
<1> DEFINE q == job[j].current
<1>1. /\ UNCHANGED <<local, up, raw, lease, worker, asks, crashes>>
      /\ job[j].status \in Waiting /\ job' = [job EXCEPT ![j].status = "queued"]
      /\ q \in Questions(j) /\ check[j][q].status \in Waiting
      /\ check' = [check EXCEPT ![j][q].status = "in_progress"]
      /\ messages' \subseteq Jobs
  BY DEF ResumeCollection, Dispatch, TableTypes
<1>2. /\ job \in [Jobs -> JobRows] /\ DOMAIN check = Jobs
      /\ \A d \in Jobs : check[d] \in [Questions(d) -> Row]
  BY DEF TableTypes
<1>3. check[j] \in [Questions(j) -> Row]
  BY <1>2
<1>4. PICK ck \in [Questions(j) -> Row] : ck = [check[j] EXCEPT ![q].status = "in_progress"]
  BY <1>1, <1>3 DEF Row, CheckStatus
<1>5. /\ check'[j] = ck /\ \A d \in Jobs \ {j} : check'[d] = check[d]
      /\ DOMAIN check' = Jobs
      /\ \A p \in Questions(j) \ {q} : ck[p] = check[j][p]
      /\ ck[q].status = "in_progress" /\ ck[q].digest = check[j][q].digest
  BY <1>1, <1>2, <1>3, <1>4 DEF Row
<1>6. TableTypes'
  BY <1>1, <1>2, <1>5 DEF TableTypes, JobRows, JobStatus, Questions
<1>7. JobsInv'
  <2>1. Row1(j, job[j].status, q, check[j], raw[j])
    BY DEF JobsInv
  <2>2. Row1(j, "queued", q, ck, raw[j])
    BY <1>1, <1>5, <2>1 DEF Row1, Waiting
  <2>3. /\ job'[j].status = "queued" /\ job'[j].current = q /\ raw'[j] = raw[j]
        /\ \A d \in Jobs \ {j} : job'[d] = job[d] /\ raw'[d] = raw[d]
    BY <1>1, <1>2 DEF JobRows
  <2> HIDE DEF q
  <2> QED
    BY <1>5, <2>2, <2>3, OneJobStep
<1>8. CallTypes'
  BY <1>1 DEF CallTypes, Questions
<1>9. CallsInv'
  <2>1. ASSUME NEW w \in Workers, Fence(w)', worker[w].job \in Jobs
        PROVE  Fence(w) /\ check'[worker[w].job] = check[worker[w].job]
    BY <1>1, <1>2, <1>5, <2>1 DEF Fence, JobRows, Waiting
  <2>2. \A w \in Workers : worker'[w] = worker[w] /\ (worker[w].at \in Asking \cup {"finalize"} => worker[w].job \in Jobs)
    BY <1>1 DEF CallTypes, Asking
  <2> QED
    BY <2>1, <2>2, CallsStand
<1>10. AskInv'
  BY <1>1, <1>5, AsksStand
<1>11. LeaseInv'
  BY <1>1, LeaseStands DEF Prompt, LeaseInv
<1> QED
  BY <1>6, <1>7, <1>8, <1>9, <1>10, <1>11

\* The row of a job that is given up.
LEMMA SettledRow ==
    ASSUME job \in [Jobs -> JobRows], NEW j \in Jobs, NEW st \in JobStatus, job' = Settled(j, st)
    PROVE  /\ job' \in [Jobs -> JobRows]
           /\ job'[j].status = st /\ job'[j].owner = NoOwner /\ job'[j].current = job[j].current
           /\ \A d \in Jobs \ {j} : job'[d] = job[d]
<1> DEFINE row == [job[j] EXCEPT !.status = st, !.owner = NoOwner, !.expired = FALSE]
<1>1. /\ row \in JobRows /\ row.status = st /\ row.owner = NoOwner
      /\ row.current = job[j].current
  BY DEF JobRows, Owners
<1>2. job' = [job EXCEPT ![j] = row]
  BY DEF Settled
<1> HIDE DEF row
<1> QED
  BY <1>1, <1>2

\* The rows of jobs that were given up, or whose review has ended.
GivenUp ==
    /\ job' \in [Jobs -> JobRows]
    /\ \A j \in Jobs : /\ job'[j].current = job[j].current /\ job'[j].owner \in {job[j].owner, NoOwner}
                       /\ Moved(job[j].status, job'[j].status)
                       /\ job'[j].status = "running" => job[j].status = "running"

\* A call goes on, or ends, and writes nothing but the status of its job.
LEMMA QuietStep ==
    ASSUME CollectionInv, NEW w \in Workers, UNCHANGED <<local, up, check, raw, lease, asks, crashes>>,
           GivenUp, messages' \subseteq Jobs, CallTypes',
           \A v \in Workers \ {w} : worker'[v] = worker[v],
           worker'[w].at = "ask" => /\ worker[w].at = "ask" /\ worker'[w].job = worker[w].job
                                    /\ worker'[w].question = worker[w].question,
           worker'[w].heartbeat # "off" => worker'[w].at \in Claimed,
           Prompt(w)' => Prompt(w) /\ worker'[w].job = worker[w].job,
           Fence(w)' => Position(worker[w], check[worker[w].job])'
    PROVE  CollectionInv'
<1> USE DEF CollectionInv
<1>1. TableTypes'
  BY DEF TableTypes, Questions, GivenUp
<1>2. JobsInv'
  BY JobsStand DEF GivenUp
<1>3. CallsInv'
  <2>1. ASSUME NEW v \in Workers \ {w}, Fence(v)', worker[v].at \in Asking \cup {"finalize"}
        PROVE  Fence(v)
    BY <2>1 DEF Fence, CallTypes, Asking, GivenUp
  <2>2. ASSUME NEW v \in Workers \ {w}
        PROVE  \/ worker'[v].at \notin Asking \cup {"finalize"}
               \/ /\ worker'[v] = worker[v]
                  /\ Fence(v)' => Fence(v) /\ check'[worker[v].job] = check[worker[v].job]
    BY <2>1 DEF Asking
  <2> QED
    BY <2>2, CallsStand
<1>4. AskInv'
  BY AsksStand
<1>5. LeaseInv'
  BY LeaseStands DEF Prompt, LeaseInv
<1> QED
  BY <1>1, <1>2, <1>3, <1>4, <1>5

\* A call that holds nothing goes on, or ends.
LEMMA LooseStep ==
    ASSUME CollectionInv, NEW w \in Workers, UNCHANGED <<local, up, check, raw, lease, asks, crashes>>,
           GivenUp, messages' \subseteq Jobs, CallTypes',
           worker'[w].at \in {"idle", "claim", "resume", "refresh"}, worker'[w].heartbeat = "off",
           \A v \in Workers \ {w} : worker'[v] = worker[v]
    PROVE  CollectionInv'
  BY QuietStep DEF Prompt, Position

\* A job whose review goes on or has ended.
LEMMA ReviewedRows ==
    ASSUME job \in [Jobs -> JobRows], NEW j \in Jobs, Reviewed(j)
    PROVE  GivenUp
<1>1. CASE UNCHANGED job
  BY <1>1 DEF GivenUp, Moved
<1>2. CASE job[j].status = "reviewing" /\ \E st \in {"succeeded", "failed"} : job' = Settled(j, st)
  <2>1. PICK st \in {"succeeded", "failed"} : job' = Settled(j, st)
    BY <1>2
  <2>2. st \in JobStatus
    BY DEF JobStatus, Finished
  <2> QED
    BY <1>2, <2>1, <2>2, SettledRow DEF GivenUp, Moved
<1> QED
  BY <1>1, <1>2 DEF Reviewed

LEMMA LooseSteps ==
    ASSUME CollectionInv, NEW w \in Workers,
           \/ \E j \in Jobs : Begin(w, j)
           \/ ClaimRefused(w) \/ Refresh(w)
           \/ worker[w].at = "resume" /\ ScheduleResume(w)
    PROVE  CollectionInv'
<1>0. /\ CallTypes /\ TableTypes /\ worker[w] \in Calls /\ job \in [Jobs -> JobRows]
      /\ worker[w].at # "idle" => worker[w].job \in Jobs
      /\ worker[w].at \notin Claimed => worker[w].heartbeat = "off"
  BY DEF CollectionInv, CallTypes, TableTypes, LeaseInv, Calls
<1>p. {"idle", "claim", "resume", "refresh"} \cap Claimed = {}
  BY DEF Claimed, Driving, Writing
<1>s. UNCHANGED job => GivenUp
  BY <1>0 DEF Moved, GivenUp
<1>1. ASSUME NEW j \in Jobs, Begin(w, j)
      PROVE  CollectionInv'
  <2> DEFINE l == [worker[w] EXCEPT !.at = "claim", !.job = j]
  <2>1. l \in Calls /\ l.at = "claim" /\ l.job = j /\ l.heartbeat = "off"
    BY <1>0, <1>1, <1>p DEF Begin, Calls, Points
  <2>2. worker' = [worker EXCEPT ![w] = l]
    BY <1>0, <1>1 DEF Begin, CallTypes
  <2> HIDE DEF l
  <2>3. CallTypes' /\ worker'[w] = l /\ \A v \in Workers \ {w} : worker'[v] = worker[v]
    BY <1>0, <2>1, <2>2, CallStep DEF Asking
  <2>4. messages' \subseteq Jobs
    BY <1>0, <1>1 DEF Begin, TableTypes
  <2> QED
    BY <1>0, <1>1, <1>s, <2>1, <2>3, <2>4, LooseStep DEF Begin
<1>2. CASE ClaimRefused(w) /\ Return(w, TRUE)
  <2>1. worker[w].at # "idle"
    BY <1>2 DEF ClaimRefused
  <2> QED
    BY <1>0, <1>2, <1>s, <2>1, ReturnCall, LooseStep DEF ClaimRefused
<1>3. CASE ClaimRefused(w) /\ worker' = [worker EXCEPT ![w].at = "resume"] /\ UNCHANGED messages
  <2> DEFINE l == [worker[w] EXCEPT !.at = "resume"]
  <2>1. l \in Calls /\ l.at = "resume" /\ l.job \in Jobs /\ l.heartbeat = "off"
    BY <1>0, <1>3, <1>p DEF ClaimRefused, Calls, Points
  <2>2. worker' = [worker EXCEPT ![w] = l]
    BY <1>0, <1>3 DEF CallTypes
  <2> HIDE DEF l
  <2>3. CallTypes' /\ worker'[w] = l /\ \A v \in Workers \ {w} : worker'[v] = worker[v]
    BY <1>0, <2>1, <2>2, CallStep DEF Asking
  <2> QED
    BY <1>0, <1>3, <1>s, <2>1, <2>3, LooseStep DEF ClaimRefused, TableTypes
<1>4. CASE Refresh(w)
  <2>1. worker[w].at # "idle"
    BY <1>4 DEF Refresh
  <2> QED
    BY <1>0, <1>4, <1>s, <2>1, ReturnCall, LooseStep DEF Refresh
<1>5. CASE worker[w].at = "resume" /\ ScheduleResume(w)
  <2>1. \E again \in BOOLEAN : Return(w, again)
    BY <1>5 DEF ScheduleResume
  <2>2. GivenUp
    BY <1>0, <1>s, <1>5, ReviewedRows DEF ScheduleResume
  <2> QED
    BY <1>0, <1>5, <2>1, <2>2, ReturnCall, LooseStep DEF ScheduleResume
<1> QED
  BY <1>1, <1>2, <1>3, <1>4, <1>5 DEF ClaimRefused

-----------------------------------------------------------------------------
(* The loop of run_collection_job *)

\* A call goes on with locals l, under the same lease.
LEMMA HeldStep ==
    ASSUME CollectionInv, NEW w \in Workers,
           UNCHANGED <<local, up, check, raw, lease, messages, asks, crashes>>, GivenUp,
           NEW l \in Calls, worker' = [worker EXCEPT ![w] = l], worker[w].at # "idle",
           l.job = worker[w].job, l.heartbeat \in {worker[w].heartbeat, "failed"},
           l.at \in Claimed, l.at = "ask" => worker[w].at = "ask" /\ l.question = worker[w].question,
           l.at \in Asking => l.question \in Questions(l.job),
           l.at = "accept" => l.capture \in Captures,
           l.at = "finalize" => l.seen \in [Questions(l.job) -> Row],
           Fence(w) => Position(l, check[l.job])
    PROVE  CollectionInv'
<1>1. CallTypes /\ TableTypes /\ worker[w].job \in Jobs
  BY DEF CollectionInv, CallTypes
<1>p. "idle" \notin Claimed /\ "setup" \notin Claimed
  BY DEF Claimed, Driving, Writing
<1>2. /\ CallTypes' /\ worker'[w] = l
      /\ \A v \in Workers \ {w} : worker'[v] = worker[v]
  BY <1>1, CallStep
<1>3. messages' \subseteq Jobs
  BY <1>1 DEF TableTypes
<1>4. Prompt(w)' => Prompt(w) /\ worker'[w].job = worker[w].job
  BY <1>2, <1>p DEF Prompt
<1>5. Fence(w)' => Fence(w)
  BY <1>1, <1>2 DEF Fence, GivenUp
<1>6. Fence(w)' => Position(worker[w], check[worker[w].job])'
  BY <1>2, <1>5 DEF Position, Questions
<1> QED
  BY <1>2, <1>3, <1>4, <1>6, QuietStep

\* The try block is left.
LEMMA ClosingStep ==
    ASSUME CollectionInv, NEW w \in Workers, NEW out \in Outcomes, Close(w, out),
           worker[w].at # "idle", GivenUp,
           UNCHANGED <<local, up, check, raw, lease, messages, asks, crashes>>
    PROVE  CollectionInv'
<1>1. CallTypes /\ messages' \subseteq Jobs
  BY DEF CollectionInv, TableTypes
<1>2. /\ CallTypes' /\ worker'[w].at = "close" /\ worker'[w].job = worker[w].job
      /\ worker'[w].heartbeat = worker[w].heartbeat
      /\ \A v \in Workers \ {w} : worker'[v] = worker[v]
  BY <1>1, CloseCall
<1>3. Prompt(w)' => Prompt(w) /\ worker'[w].job = worker[w].job
  BY <1>2 DEF Prompt
<1>4. Position(worker[w], check[worker[w].job])' /\ "close" \in Claimed
  BY <1>2 DEF Position, Claimed
<1> QED
  BY <1>1, <1>2, <1>3, <1>4, QuietStep

\* Where the first question that has not passed leads, in a job whose questions are in order.
LEMMA FirstOpen ==
    ASSUME TableTypes, JobsInv, NEW j \in Jobs, NEW q \in Questions(j),
           check[j][q].status # "passed",
           \A p \in {r \in Questions(j) : check[j][r].status # "passed"} : q <= p
    PROVE  \A p \in Questions(j) : p < q => check[j][p].status = "passed"
<1>1. q \in Int /\ \A p \in Questions(j) : p \in Int
  BY DEF Questions
<1> QED
  BY <1>1

LEMMA QuietSteps ==
    ASSUME CollectionInv, NEW w \in Workers,
           \/ Preflight(w) \/ Loop(w) \/ FenceLost(w) \/ DriverReturns(w) \/ DriverCancelled(w)
           \/ Raises(w) \/ HeartbeatRaises(w)
           \/ worker[w].at = "review" /\ ScheduleResume(w)
    PROVE  CollectionInv'
<1>0. /\ CallTypes /\ TableTypes /\ JobsInv /\ CallsInv
      /\ worker[w] \in Calls /\ job \in [Jobs -> JobRows]
      /\ worker \in [Workers -> Calls]
      /\ worker[w].at # "idle" => worker[w].job \in Jobs
      /\ worker[w].heartbeat # "off" => worker[w].at \in Claimed
  BY DEF CollectionInv, CallTypes, TableTypes, LeaseInv, Calls
<1>p. /\ Claimed = {"preflight", "collect", "inspect", "mark", "ask", "accept", "finalize",
                    "loop", "review", "close"}
      /\ Claimed \subseteq Points /\ {"refresh", "again", "nothing"} = Outcomes
  BY DEF Claimed, Driving, Writing, Points, Outcomes
<1>s. UNCHANGED job => GivenUp
  BY <1>0 DEF Moved, GivenUp
<1>g. ASSUME NEW st \in {"blocked", "failed"}, worker[w].at # "idle",
             job' = IF Fence(w) THEN Settled(worker[w].job, st) ELSE job
      PROVE  GivenUp
  <2>1. CASE job' = Settled(worker[w].job, st)
    <3>1. PICK j \in Jobs : j = worker[w].job
      BY <1>0, <1>g
    <3> QED
      BY <1>0, <2>1, <3>1, SettledRow DEF GivenUp, Moved, JobStatus, Finished
  <2> QED
    BY <1>s, <1>g, <2>1
<1>1. CASE Preflight(w)
  <2>1. worker[w].at = "preflight"
    BY <1>1 DEF Preflight
  <2>2. CASE worker' = [worker EXCEPT ![w].at = "loop"] /\ UNCHANGED job
    <3> DEFINE l == [worker[w] EXCEPT !.at = "loop"]
    <3>1. l \in Calls /\ l.at = "loop" /\ l.job = worker[w].job /\ l.heartbeat = worker[w].heartbeat
      BY <1>0, <1>p DEF Calls
    <3>2. worker' = [worker EXCEPT ![w] = l]
      BY <1>0, <2>2
    <3> HIDE DEF l
    <3>3. Position(l, check[l.job]) /\ l.at \notin Asking /\ l.at \in Claimed \ {"ask"}
      BY <1>p, <3>1 DEF Position, Asking
    <3> QED
      BY <1>1, <1>s, <2>1, <2>2, <3>1, <3>2, <3>3, HeldStep DEF Preflight
  <2>3. CASE /\ job' = IF Fence(w) THEN Settled(worker[w].job, "blocked") ELSE job
             /\ Close(w, "refresh")
    BY <1>1, <1>p, <1>g, <2>1, <2>3, ClosingStep DEF Preflight
  <2> QED
    BY <1>1, <2>2, <2>3 DEF Preflight
<1>2. CASE Loop(w)
  <2> DEFINE j == worker[w].job
             Open == {q \in Questions(j) : check[j][q].status # "passed"}
  <2>1. /\ worker[w].at = "loop" /\ j \in Jobs /\ check[j] \in [Questions(j) -> Row]
        /\ UNCHANGED <<local, up, check, raw, lease, messages, asks, crashes>>
    BY <1>0, <1>2 DEF Loop, TableTypes
  <2>2. CASE Open = {} /\ worker' = [worker EXCEPT ![w].at = "finalize", ![w].seen = check[j]] /\ UNCHANGED job
    <3> DEFINE l == [worker[w] EXCEPT !.at = "finalize", !.seen = check[j]]
    <3>1. check[j] \in Seen
      BY <2>1, SeenTypes
    <3>2. /\ l \in Calls /\ l.at = "finalize" /\ l.job = worker[w].job /\ l.seen = check[j]
          /\ l.heartbeat = worker[w].heartbeat
      BY <1>0, <1>p, <3>1 DEF Calls
    <3>3. worker' = [worker EXCEPT ![w] = l]
      BY <1>0, <2>2
    <3> HIDE DEF l
    <3>4. Position(l, check[l.job]) /\ l.at \notin Asking /\ l.at \in Claimed \ {"ask"}
      BY <1>p, <3>2 DEF Position, Asking
    <3> QED
      BY <1>s, <2>1, <2>2, <3>2, <3>3, <3>4, HeldStep
  <2>3. ASSUME NEW q \in Open, \A p \in Open : q <= p, Advance(w, q), UNCHANGED job
        PROVE  CollectionInv'
    <3>1. \A p \in Questions(j) : p < q => check[j][p].status = "passed"
      BY <1>0, <2>1, <2>3, FirstOpen
    <3>2. q \in Nat
      BY DEF Questions
    <3> DEFINE Here(m) == /\ m \in Calls /\ m.job = j /\ m.question = q
                          /\ m.heartbeat = worker[w].heartbeat
                          /\ worker' = [worker EXCEPT ![w] = m]
    <3>3. CASE Close(w, "refresh")
      BY <1>p, <1>s, <2>1, <2>3, <3>3, ClosingStep
    <3>4. CASE /\ check[j][q].status = "pending"
               /\ worker' = [worker EXCEPT ![w].at = "mark", ![w].question = q]
      <4> DEFINE l == [worker[w] EXCEPT !.at = "mark", !.question = q]
      <4>1. Here(l) /\ l.at = "mark"
        BY <1>0, <1>p, <3>2, <3>4 DEF Calls
      <4> HIDE DEF l
      <4>2. Position(l, check[l.job]) /\ l.at \in Claimed \ {"ask"}
        BY <1>p, <3>1, <3>4, <4>1 DEF Position
      <4> QED
        BY <1>s, <2>1, <2>3, <4>1, <4>2, HeldStep
    <3>5. CASE /\ check[j][q].status = "in_progress" /\ raw[j][q] \in Captures
               /\ worker' = [worker EXCEPT ![w].at = "accept", ![w].question = q,
                                           ![w].capture = raw[j][q]]
      <4> DEFINE l == [worker[w] EXCEPT !.at = "accept", !.question = q, !.capture = raw[j][q]]
      <4>1. Here(l) /\ l.at = "accept" /\ l.capture \in Captures
        BY <1>0, <1>p, <3>2, <3>5 DEF Calls
      <4> HIDE DEF l
      <4>2. Position(l, check[l.job]) /\ l.at \in Claimed \ {"ask"}
        BY <1>p, <3>5, <4>1 DEF Position
      <4> QED
        BY <1>s, <2>1, <2>3, <4>1, <4>2, HeldStep
    <3>6. CASE /\ check[j][q].status = "in_progress"
               /\ worker' = [worker EXCEPT ![w].at = "inspect", ![w].question = q]
      <4> DEFINE l == [worker[w] EXCEPT !.at = "inspect", !.question = q]
      <4>1. Here(l) /\ l.at = "inspect"
        BY <1>0, <1>p, <3>2, <3>6 DEF Calls
      <4> HIDE DEF l
      <4>2. Position(l, check[l.job]) /\ l.at \in Claimed \ {"ask"}
        BY <1>p, <3>6, <4>1 DEF Position
      <4> QED
        BY <1>s, <2>1, <2>3, <4>1, <4>2, HeldStep
    <3> QED
      BY <2>3, <3>3, <3>4, <3>5, <3>6 DEF Advance
  <2>4. CASE job' = (IF Fence(w) THEN Settled(j, "failed") ELSE job) /\ Close(w, "refresh")
    BY <1>p, <1>g, <2>1, <2>4, ClosingStep
  <2> QED
    BY <1>2, <2>2, <2>3, <2>4 DEF Loop
<1>3. CASE DriverReturns(w)
  <2>1. PICK c \in Captures : worker' = [worker EXCEPT ![w].at = "accept", ![w].capture = c]
    BY <1>3 DEF DriverReturns
  <2>2. /\ worker[w].at \in {"collect", "inspect"} /\ worker[w].at # "idle"
        /\ UNCHANGED <<local, up, job, check, raw, lease, messages, asks, crashes>>
    BY <1>3 DEF DriverReturns
  <2> DEFINE l == [worker[w] EXCEPT !.at = "accept", !.capture = c]
  <2>3. /\ l \in Calls /\ l.at = "accept" /\ l.job = worker[w].job /\ l.capture \in Captures
        /\ l.question = worker[w].question /\ l.heartbeat = worker[w].heartbeat
    BY <1>0, <1>p DEF Calls
  <2>4. worker' = [worker EXCEPT ![w] = l]
    BY <1>0, <2>1
  <2> HIDE DEF l
  <2>5. /\ Fence(w) => Position(l, check[l.job])
        /\ l.question \in Questions(l.job) /\ l.at \in Claimed \ {"ask"}
    BY <1>0, <1>p, <2>2, <2>3 DEF CallsInv, Position, CallTypes, Asking
  <2> QED
    BY <1>s, <2>2, <2>3, <2>4, <2>5, HeldStep
<1>4. CASE FenceLost(w) \/ DriverCancelled(w) \/ Raises(w)
  <2>1. Close(w, "nothing") /\ UNCHANGED <<local, up, job, check, raw, lease, messages, asks, crashes>>
    BY <1>4 DEF FenceLost, DriverCancelled, Raises
  <2>2. worker[w].at # "idle"
    BY <1>4 DEF FenceLost, DriverCancelled, Raises, Driving, Writing
  <2> QED
    BY <1>p, <1>s, <2>1, <2>2, ClosingStep
<1>5. CASE HeartbeatRaises(w)
  <2> DEFINE l == [worker[w] EXCEPT !.heartbeat = "failed"]
  <2>1. worker' = [worker EXCEPT ![w] = l] /\ l \in Calls /\ l.heartbeat = "failed"
    BY <1>0, <1>5 DEF HeartbeatRaises, Calls
  <2>2. /\ l.at = worker[w].at /\ l.job = worker[w].job /\ l.question = worker[w].question
        /\ l.capture = worker[w].capture /\ l.seen = worker[w].seen
    BY <1>0 DEF Calls
  <2> HIDE DEF l
  <2>3. /\ UNCHANGED <<local, up, job, check, raw, lease, messages, asks, crashes>>
        /\ worker[w].at \in Claimed /\ worker[w].at # "idle"
    BY <1>0, <1>p, <1>5 DEF HeartbeatRaises
  <2>4. Fence(w) => Position(l, check[l.job])
    BY <1>0, <2>2 DEF CallsInv, Position
  <2>5. /\ l.at \in Asking => l.question \in Questions(l.job)
        /\ l.at = "accept" => l.capture \in Captures
        /\ l.at = "finalize" => l.seen \in [Questions(l.job) -> Row]
    BY <1>0, <2>2 DEF CallTypes
  <2> QED
    BY <1>s, <2>1, <2>2, <2>3, <2>4, <2>5, HeldStep
<1>6. CASE worker[w].at = "review" /\ ScheduleResume(w)
  <2>1. \E out \in Outcomes : Close(w, out)
    BY <1>6, <1>p DEF ScheduleResume
  <2>2. GivenUp
    BY <1>0, <1>s, <1>6, ReviewedRows DEF ScheduleResume
  <2> QED
    BY <1>6, <2>1, <2>2, ClosingStep DEF ScheduleResume
<1> QED
  BY <1>1, <1>2, <1>3, <1>4, <1>5, <1>6

-----------------------------------------------------------------------------
(* Fenced transactions *)

\* A transaction of the call that holds the fence writes the row, the questions
\* and the files of its job.
LEMMA FencedWrite ==
    ASSUME CollectionInv, NEW w \in Workers, Fence(w), NEW j \in Jobs, j = worker[w].job,
           UNCHANGED <<local, up, lease, messages, crashes>>, asks' = asks,
           NEW row \in JobRows, NEW ck \in [Questions(j) -> Row],
           NEW rw \in [Questions(j) -> Contents],
           job' \in [Jobs -> JobRows], DOMAIN check' = Jobs, DOMAIN raw' = Jobs,
           job'[j] = row, check'[j] = ck, raw'[j] = rw,
           \A d \in Jobs \ {j} : check'[d] = check[d] /\ raw'[d] = raw[d] /\ job'[d] = job[d],
           Row1(j, row.status, row.current, ck, rw),
           CallTypes', \A v \in Workers \ {w} : worker'[v] = worker[v],
           worker'[w].heartbeat = worker[w].heartbeat, worker'[w].job = j,
           worker'[w].at \in Claimed,
           Position(worker[w], check[worker[w].job])'
    PROVE  TableTypes' /\ CallTypes' /\ JobsInv' /\ CallsInv' /\ LeaseInv'
<1> USE DEF CollectionInv
<1>p. "setup" \notin Claimed
  BY DEF Claimed, Driving, Writing
<1>2. TableTypes'
  BY DEF TableTypes, Questions
<1>3. JobsInv'
  BY OneJobStep
<1>4. CallsInv'
  <2>1. \A v \in Workers \ {w} : ~Fence(v)'
    BY DEF Fence
  <2> QED
    BY <2>1, CallsStand
<1>5. LeaseInv'
  BY <1>p, LeaseStands DEF Prompt, LeaseInv
<1> QED
  BY <1>2, <1>3, <1>4, <1>5

LEMMA FencedTypes ==
    ASSUME CollectionInv, NEW w \in Workers, worker[w].at # "idle"
    PROVE  /\ worker[w].job \in Jobs /\ worker[w] \in Calls /\ worker \in [Workers -> Calls]
           /\ job \in [Jobs -> JobRows] /\ job[worker[w].job] \in JobRows
           /\ DOMAIN check = Jobs /\ check[worker[w].job] \in [Questions(worker[w].job) -> Row]
           /\ DOMAIN raw = Jobs /\ raw[worker[w].job] \in [Questions(worker[w].job) -> Contents]
           /\ Row1(worker[w].job, job[worker[w].job].status, job[worker[w].job].current,
                   check[worker[w].job], raw[worker[w].job])
           /\ worker[w].at \in Asking => worker[w].question \in Questions(worker[w].job)
           /\ CallTypes
           /\ Fence(w) => /\ job[worker[w].job].status = "running"
                          /\ Position(worker[w], check[worker[w].job])
  BY DEF CollectionInv, CallTypes, TableTypes, JobsInv, CallsInv, Fence

\* The permission to ask is given by the transaction that finds the question pending.
LEMMA MarkStep ==
    ASSUME CollectionInv, NEW w \in Workers, MarkInProgress(w)
    PROVE  CollectionInv'
<1>j. worker[w].at = "mark" /\ worker[w].at # "idle" /\ worker[w].at \in Asking
  BY DEF MarkInProgress, Asking
<1>0. PICK j \in Jobs : j = worker[w].job
  BY <1>j, FencedTypes
<1>q. PICK q \in Questions(j) : q = worker[w].question
  BY <1>j, <1>0, FencedTypes
<1>1. /\ worker[w].at = "mark" /\ worker[w].at # "idle" /\ Fence(w)
      /\ job' = [job EXCEPT ![j].current = q]
      /\ UNCHANGED <<local, up, raw, lease, messages, asks, crashes>>
  BY <1>0, <1>q DEF MarkInProgress
<1>2. /\ j \in Jobs /\ q \in Questions(j) /\ q \in Nat /\ worker[w] \in Calls
      /\ check[j] \in [Questions(j) -> Row] /\ raw[j] \in [Questions(j) -> Contents]
      /\ DOMAIN check = Jobs /\ DOMAIN raw = Jobs
      /\ job[j] \in JobRows /\ job \in [Jobs -> JobRows]
      /\ worker \in [Workers -> Calls] /\ CallTypes
  BY <1>0, <1>1, FencedTypes DEF Questions
<1>3. /\ check[j][q].status = "pending" /\ job[j].status = "running"
      /\ \A p \in Questions(j) : p < q => check[j][p].status = "passed"
      /\ Row1(j, job[j].status, job[j].current, check[j], raw[j])
  BY <1>0, <1>1, <1>q, FencedTypes DEF Position
<1>4. /\ check' = [check EXCEPT ![j][q].status = "in_progress"]
      /\ worker' = [worker EXCEPT ![w].at = "ask"]
  BY <1>0, <1>3, <1>q DEF MarkInProgress
<1>5. PICK row \in JobRows : row = [job[j] EXCEPT !.current = q]
  BY <1>2 DEF JobRows
<1>6. job' = [job EXCEPT ![j] = row] /\ row.status = "running" /\ row.current = q
  BY <1>1, <1>2, <1>3, <1>5 DEF JobRows
<1>7. PICK ck \in [Questions(j) -> Row] : ck = [check[j] EXCEPT ![q].status = "in_progress"]
  BY <1>2 DEF Row, CheckStatus
<1>8. /\ ck[q].status = "in_progress" /\ \A p \in Questions(j) \ {q} : ck[p] = check[j][p]
      /\ check'[j] = ck /\ DOMAIN check' = Jobs
      /\ \A d \in Jobs \ {j} : check'[d] = check[d]
  BY <1>2, <1>4, <1>7 DEF Row
<1> DEFINE l == [worker[w] EXCEPT !.at = "ask"]
<1>9. /\ l \in Calls /\ l.at = "ask" /\ l.job = j /\ l.question = q
      /\ l.heartbeat = worker[w].heartbeat
  BY <1>0, <1>2, <1>q DEF Calls, Points, Claimed, Writing
<1>10. worker' = [worker EXCEPT ![w] = l]
  BY <1>2, <1>4
<1> HIDE DEF l
<1>11. CallTypes' /\ worker'[w] = l /\ \A v \in Workers \ {w} : worker'[v] = worker[v]
  BY <1>2, <1>9, <1>10, CallStep
<1>12. Row1(j, row.status, row.current, ck, raw[j])
  <2>1. \A p, r \in Questions(j) : p \in Int /\ (p < r \/ r < p \/ p = r)
    BY DEF Questions
  <2> QED
    BY <1>3, <1>6, <1>8, <2>1 DEF Row1, Waiting
<1>13. job' \in [Jobs -> JobRows] /\ job'[j] = row /\ \A d \in Jobs \ {j} : job'[d] = job[d]
  BY <1>2, <1>6
<1>15. Position(worker[w], check[worker[w].job])'
  BY <1>8, <1>9, <1>11 DEF Position
<1>16. AskInv'
  <2>0. AskInv
    BY DEF CollectionInv
  <2>1. ASSUME NEW d \in Jobs, NEW r \in Questions(d)
        PROVE  /\ asks'[d][r] <= 1
               /\ check'[d][r].status = "pending" => asks'[d][r] = 0
               /\ \A v \in Workers : MayAsk(v, d, r)' => /\ asks'[d][r] = 0
                                                         /\ check'[d][r].status # "pending"
               /\ \A u, v \in Workers : MayAsk(u, d, r)' /\ MayAsk(v, d, r)' => u = v
    <3>1. CASE d = j /\ r = q
      <4>1. \A v \in Workers : ~MayAsk(v, j, q) /\ asks[j][q] = 0
        BY <1>2, <1>3, <2>0 DEF AskInv
      <4>2. \A v \in Workers : MayAsk(v, j, q)' => v = w
        BY <1>11, <4>1 DEF MayAsk
      <4> QED
        BY <1>1, <1>8, <3>1, <4>1, <4>2
    <3>2. CASE ~(d = j /\ r = q)
      <4>1. check'[d][r] = check[d][r]
        BY <1>8, <3>2
      <4>2. \A v \in Workers : MayAsk(v, d, r)' => MayAsk(v, d, r)
        BY <1>9, <1>11, <3>2 DEF MayAsk
      <4> QED
        BY <1>1, <2>0, <4>1, <4>2 DEF AskInv
    <3> QED
      BY <3>1, <3>2
  <2> QED
    BY <2>1 DEF AskInv, Questions
<1>17. "ask" \in Claimed
  BY DEF Claimed, Writing
<1>18. TableTypes' /\ CallTypes' /\ JobsInv' /\ CallsInv' /\ LeaseInv'
  BY <1>1, <1>2, <1>6, <1>8, <1>9, <1>11, <1>12, <1>13, <1>0, <1>15, <1>17, FencedWrite
<1> QED
  BY <1>16, <1>18 DEF CollectionInv

\* The question is put to Doubao.
LEMMA AskStep ==
    ASSUME CollectionInv, NEW w \in Workers, Ask(w)
    PROVE  CollectionInv'
<1>j. worker[w].at = "ask" /\ worker[w].at # "idle" /\ worker[w].at \in Asking
  BY DEF Ask, Asking
<1>0. PICK j \in Jobs : j = worker[w].job
  BY <1>j, FencedTypes
<1>q. PICK q \in Questions(j) : q = worker[w].question
  BY <1>j, <1>0, FencedTypes
<1> DEFINE l == [worker[w] EXCEPT !.at = "collect"]
<1>1. /\ worker[w].at = "ask" /\ worker[w].at # "idle"
      /\ asks' = [asks EXCEPT ![j][q] = @ + 1] /\ worker' = [worker EXCEPT ![w].at = "collect"]
      /\ UNCHANGED <<local, up, job, check, raw, lease, messages, crashes>>
  BY <1>0, <1>q DEF Ask
<1>2. /\ j \in Jobs /\ q \in Questions(j) /\ worker[w] \in Calls /\ CallTypes
      /\ worker \in [Workers -> Calls] /\ TableTypes
  BY <1>0, <1>1, FencedTypes DEF CollectionInv
<1>3. /\ l \in Calls /\ l.at = "collect" /\ l.job = j /\ l.question = q
      /\ l.heartbeat = worker[w].heartbeat
  BY <1>0, <1>2, <1>q DEF Calls, Points, Claimed, Driving
<1>4. worker' = [worker EXCEPT ![w] = l]
  BY <1>1, <1>2
<1> HIDE DEF l
<1>5. CallTypes' /\ worker'[w] = l /\ \A v \in Workers \ {w} : worker'[v] = worker[v]
  BY <1>2, <1>3, <1>4, CallStep DEF Asking
<1>6. MayAsk(w, j, q) /\ AskInv
  BY <1>0, <1>1, <1>q DEF MayAsk, CollectionInv
<1>7. asks[j][q] = 0 /\ check[j][q].status # "pending" /\ \A v \in Workers : MayAsk(v, j, q) => v = w
  BY <1>2, <1>6 DEF AskInv
<1>8. /\ DOMAIN asks = Jobs /\ asks[j] \in [Questions(j) -> Nat]
      /\ \A d \in Jobs : asks[d] \in [Questions(d) -> Nat]
  BY <1>2 DEF TableTypes
<1>9. /\ asks'[j][q] = 1 /\ asks'[j] \in [Questions(j) -> Nat] /\ DOMAIN asks' = Jobs
      /\ \A r \in Questions(j) \ {q} : asks'[j][r] = asks[j][r]
      /\ \A d \in Jobs \ {j} : asks'[d] = asks[d]
  BY <1>1, <1>2, <1>7, <1>8
<1>10. TableTypes'
  BY <1>1, <1>2, <1>8, <1>9 DEF TableTypes, Questions
<1>11. JobsInv'
  BY <1>1, JobsStand DEF CollectionInv, Moved
<1>12. CallsInv'
  <2>1. Fence(w)' => Position(worker[w], check[worker[w].job])'
    <3>1. Fence(w)' => Fence(w)
      BY <1>0, <1>1, <1>3, <1>5 DEF Fence
    <3>2. Fence(w) => check[j][q].status = "in_progress"
      BY <1>0, <1>1, <1>q DEF CollectionInv, CallsInv, Position
    <3> QED
      BY <1>1, <1>3, <1>5, <3>1, <3>2 DEF Position
  <2>2. \A v \in Workers \ {w} : worker'[v] = worker[v] /\ (Fence(v)' => Fence(v))
    BY <1>1, <1>5 DEF Fence
  <2> QED
    BY <1>1, <2>1, <2>2, CallsStand DEF CollectionInv
<1>13. AskInv'
  <2>1. ASSUME NEW d \in Jobs, NEW r \in Questions(d)
        PROVE  /\ asks'[d][r] <= 1
               /\ check'[d][r].status = "pending" => asks'[d][r] = 0
               /\ \A v \in Workers : MayAsk(v, d, r)' => /\ asks'[d][r] = 0
                                                         /\ check'[d][r].status # "pending"
               /\ \A u, v \in Workers : MayAsk(u, d, r)' /\ MayAsk(v, d, r)' => u = v
    <3>1. \A v \in Workers : MayAsk(v, d, r)' => v # w /\ MayAsk(v, d, r)
      BY <1>3, <1>5 DEF MayAsk
    <3>2. CASE d = j /\ r = q
      <4>1. \A v \in Workers : ~MayAsk(v, d, r)'
        BY <1>7, <3>1, <3>2
      <4> QED
        BY <1>1, <1>7, <1>9, <3>2, <4>1
    <3>3. CASE ~(d = j /\ r = q)
      <4>1. asks'[d][r] = asks[d][r]
        BY <1>9, <3>3
      <4> QED
        BY <1>1, <1>6, <3>1, <4>1 DEF AskInv
    <3> QED
      BY <3>2, <3>3
  <2> QED
    BY <2>1 DEF AskInv, Questions
<1>14. LeaseInv'
  <2>1. "collect" \in Claimed /\ "setup" \notin Claimed
    BY DEF Claimed, Driving, Writing
  <2> QED
    BY <1>0, <1>1, <1>3, <1>5, <2>1, LeaseStands DEF Prompt, LeaseInv, CollectionInv
<1> QED
  BY <1>5, <1>10, <1>11, <1>12, <1>13, <1>14 DEF CollectionInv

\* A fenced transaction that gives no permission to ask.
LEMMA FencedStep ==
    ASSUME CollectionInv, NEW w \in Workers, Fence(w), NEW j \in Jobs, j = worker[w].job,
           UNCHANGED <<local, up, lease, messages, crashes>>, asks' = asks,
           NEW row \in JobRows, NEW ck \in [Questions(j) -> Row],
           NEW rw \in [Questions(j) -> Contents],
           job' \in [Jobs -> JobRows], DOMAIN check' = Jobs, DOMAIN raw' = Jobs,
           job'[j] = row, check'[j] = ck, raw'[j] = rw,
           \A d \in Jobs \ {j} : check'[d] = check[d] /\ raw'[d] = raw[d] /\ job'[d] = job[d],
           Row1(j, row.status, row.current, ck, rw),
           \A p \in Questions(j) : ck[p].status = "pending" => check[j][p].status = "pending",
           CallTypes', \A v \in Workers \ {w} : worker'[v] = worker[v],
           worker'[w].heartbeat = worker[w].heartbeat, worker'[w].job = j,
           worker'[w].at \in {"loop", "review", "close"}
    PROVE  CollectionInv'
<1>1. worker'[w].at \in Claimed /\ Position(worker[w], check[worker[w].job])'
  BY DEF Claimed, Position
<1>2. TableTypes' /\ CallTypes' /\ JobsInv' /\ CallsInv' /\ LeaseInv'
  BY <1>1, FencedWrite
<1>3. AskInv'
  BY AsksStand DEF CollectionInv
<1> QED
  BY <1>2, <1>3 DEF CollectionInv

\* A fenced transaction after which the try block is left.
LEMMA FencedClose ==
    ASSUME CollectionInv, NEW w \in Workers, Fence(w), NEW j \in Jobs, j = worker[w].job,
           UNCHANGED <<local, up, lease, messages, crashes>>, asks' = asks,
           NEW row \in JobRows, NEW ck \in [Questions(j) -> Row],
           NEW rw \in [Questions(j) -> Contents],
           job' \in [Jobs -> JobRows], DOMAIN check' = Jobs, DOMAIN raw' = Jobs,
           job'[j] = row, check'[j] = ck, raw'[j] = rw,
           \A d \in Jobs \ {j} : check'[d] = check[d] /\ raw'[d] = raw[d] /\ job'[d] = job[d],
           Row1(j, row.status, row.current, ck, rw),
           \A p \in Questions(j) : ck[p].status = "pending" => check[j][p].status = "pending",
           worker[w].at # "idle", NEW out \in Outcomes, Close(w, out)
    PROVE  CollectionInv'
<1>1. /\ CallTypes' /\ worker'[w].at = "close" /\ worker'[w].job = j
      /\ worker'[w].heartbeat = worker[w].heartbeat
      /\ \A v \in Workers \ {w} : worker'[v] = worker[v]
  BY CloseCall DEF CollectionInv
<1> QED
  BY <1>1, FencedStep

LEMMA FencedSteps ==
    ASSUME CollectionInv, NEW w \in Workers,
           AcceptCapture(w) \/ MarkWaiting(w) \/ FailQuestion(w) \/ FinalizeJob(w)
    PROVE  CollectionInv'
<1>a. /\ worker[w].at \in {"accept", "collect", "inspect", "finalize"} /\ worker[w].at # "idle"
      /\ Fence(w)
  BY DEF AcceptCapture, MarkWaiting, FailQuestion, FinalizeJob
<1>j. PICK j \in Jobs : j = worker[w].job
  BY <1>a, FencedTypes
<1>0. /\ worker[w] \in Calls /\ worker \in [Workers -> Calls] /\ CallTypes
      /\ job \in [Jobs -> JobRows] /\ job[j] \in JobRows
      /\ DOMAIN check = Jobs /\ check[j] \in [Questions(j) -> Row]
      /\ DOMAIN raw = Jobs /\ raw[j] \in [Questions(j) -> Contents]
      /\ job[j].status = "running" /\ Position(worker[w], check[j])
      /\ Row1(j, "running", job[j].current, check[j], raw[j])
  BY <1>a, <1>j, FencedTypes
<1>o. {"refresh", "again", "nothing"} = Outcomes
  BY DEF Outcomes
<1>n. /\ 0 \notin Questions(j) /\ Questions(j) \subseteq Nat
      /\ {"failed", "reviewing"} \cup Waiting \subseteq JobStatus
      /\ {"failed"} \cup Waiting \subseteq CheckStatus
  BY DEF Questions, JobStatus, CheckStatus, Finished
\* One question takes the status it has in the row.
<1>1. ASSUME NEW q \in Questions(j), NEW st \in {"failed"} \cup Waiting,
             check[j][q].status = "in_progress", Close(w, "refresh"), job' = Settled(j, st),
             check' = [check EXCEPT ![j][q].status = st],
             UNCHANGED <<local, up, raw, lease, messages, asks, crashes>>
      PROVE  CollectionInv'
  <2>1. PICK ck \in [Questions(j) -> Row] : ck = [check[j] EXCEPT ![q].status = st]
    BY <1>0, <1>n DEF Row
  <2>2. /\ ck[q].status = st /\ \A p \in Questions(j) \ {q} : ck[p] = check[j][p]
        /\ check'[j] = ck /\ DOMAIN check' = Jobs
        /\ \A d \in Jobs \ {j} : check'[d] = check[d]
    BY <1>0, <1>1, <2>1 DEF Row
  <2>3. /\ job' \in [Jobs -> JobRows] /\ job'[j].status = st /\ job'[j].current = job[j].current
        /\ \A d \in Jobs \ {j} : job'[d] = job[d]
    BY <1>0, <1>1, <1>n, SettledRow
  <2>4. PICK row \in JobRows : row = job'[j]
    BY <2>3
  <2>5. Row1(j, row.status, row.current, ck, raw[j])
    <3>1. row.status = st /\ row.current = q
      BY <1>0, <1>1, <2>3, <2>4 DEF Row1
    <3> QED
      BY <1>0, <1>1, <2>2, <3>1 DEF Row1, Waiting
  <2>6. \A p \in Questions(j) : ck[p].status = "pending" => check[j][p].status = "pending"
    BY <1>1, <2>2 DEF Waiting
  <2>7. /\ UNCHANGED <<local, up, lease, messages, crashes>> /\ asks' = asks
        /\ job' \in [Jobs -> JobRows] /\ DOMAIN check' = Jobs /\ DOMAIN raw' = Jobs
        /\ job'[j] = row /\ check'[j] = ck /\ raw'[j] = raw[j]
        /\ \A d \in Jobs \ {j} : check'[d] = check[d] /\ raw'[d] = raw[d] /\ job'[d] = job[d]
    BY <1>0, <1>1, <2>2, <2>3, <2>4
  <2> QED
    BY <1>a, <1>j, <1>0, <1>1, <1>o, <2>5, <2>6, <2>7, FencedClose
<1>2. ASSUME NEW q \in Questions(j), q = worker[w].question, AcceptCapture(w)
      PROVE  CollectionInv'
  <2>1. PICK c \in Captures : c = worker[w].capture
    BY <1>0, <1>2 DEF AcceptCapture, CallTypes
  <2>2. check[j][q].status = "in_progress" /\ UNCHANGED <<local, up, lease, messages, asks, crashes>>
    BY <1>0, <1>2 DEF AcceptCapture, Position
  <2>3. PICK rw \in [Questions(j) -> Contents] : rw = [raw[j] EXCEPT ![q] = c]
    BY <1>0 DEF Contents
  <2>4. rw[q] = c /\ \A p \in Questions(j) \ {q} : rw[p] = raw[j][p]
    BY <1>0, <2>3
  <2>5. raw' = [raw EXCEPT ![j][q] = c] => /\ raw'[j] = rw /\ DOMAIN raw' = Jobs
                                           /\ \A d \in Jobs \ {j} : raw'[d] = raw[d]
    BY <1>0, <2>3
  <2>6. CASE /\ raw' = [raw EXCEPT ![j][q] = c]
             /\ check' = [check EXCEPT ![j][q] = [status |-> "passed", digest |-> c]]
             /\ job' = [job EXCEPT ![j].current = 0]
             /\ worker' = [worker EXCEPT ![w].at = "loop", ![w].capture = NoCapture,
                                         ![w].question = 0]
    <3>1. PICK ck \in [Questions(j) -> Row] :
             ck = [check[j] EXCEPT ![q] = [status |-> "passed", digest |-> c]]
      BY <1>0 DEF Row, CheckStatus
    <3>2. /\ ck[q].status = "passed" /\ ck[q].digest = c
          /\ \A p \in Questions(j) \ {q} : ck[p] = check[j][p]
          /\ check'[j] = ck /\ DOMAIN check' = Jobs
          /\ \A d \in Jobs \ {j} : check'[d] = check[d]
      BY <1>0, <2>6, <3>1
    <3>3. PICK row \in JobRows : row = [job[j] EXCEPT !.current = 0]
      BY <1>0 DEF JobRows
    <3>4. /\ row.status = "running" /\ row.current = 0
          /\ job' \in [Jobs -> JobRows] /\ job'[j] = row /\ \A d \in Jobs \ {j} : job'[d] = job[d]
      BY <1>0, <2>6, <3>3 DEF JobRows
    <3>5. Row1(j, row.status, row.current, ck, rw)
      BY <1>0, <2>2, <2>4, <3>2, <3>4 DEF Row1, Waiting
    <3>6. \A p \in Questions(j) : ck[p].status = "pending" => check[j][p].status = "pending"
      BY <3>2
    <3> DEFINE l == [worker[w] EXCEPT !.at = "loop", !.capture = NoCapture, !.question = 0]
    <3>7. /\ l \in Calls /\ l.at = "loop" /\ l.job = j /\ l.heartbeat = worker[w].heartbeat
      BY <1>j, <1>0 DEF Calls, Points, Claimed
    <3>8. worker' = [worker EXCEPT ![w] = l]
      BY <1>0, <2>6
    <3> HIDE DEF l
    <3>9. CallTypes' /\ worker'[w] = l /\ \A v \in Workers \ {w} : worker'[v] = worker[v]
      BY <1>0, <3>7, <3>8, CallStep DEF Asking
    <3>10. /\ UNCHANGED <<local, up, lease, messages, crashes>> /\ asks' = asks
          /\ job' \in [Jobs -> JobRows] /\ DOMAIN check' = Jobs /\ DOMAIN raw' = Jobs
          /\ job'[j] = row /\ check'[j] = ck /\ raw'[j] = rw
          /\ \A d \in Jobs \ {j} : check'[d] = check[d] /\ raw'[d] = raw[d] /\ job'[d] = job[d]
      BY <2>2, <2>5, <2>6, <3>2, <3>4
    <3> QED
      BY <1>a, <1>j, <3>5, <3>6, <3>7, <3>9, <3>10, FencedStep
  <2>7. CASE /\ check' = [check EXCEPT ![j][q].status = "failed"]
             /\ job' = Settled(j, "failed") /\ Close(w, "refresh") /\ UNCHANGED raw
    BY <1>1, <2>2, <2>7
  <2>8. CASE raw' = [raw EXCEPT ![j][q] = c] /\ Close(w, "nothing") /\ UNCHANGED <<check, job>>
    <3>1. PICK row \in JobRows, ck \in [Questions(j) -> Row] : row = job[j] /\ ck = check[j]
      BY <1>0
    <3>2. Row1(j, row.status, row.current, ck, rw)
      BY <1>0, <2>2, <2>4, <3>1 DEF Row1
    <3> QED
      BY <1>a, <1>j, <1>0, <1>o, <2>2, <2>5, <2>8, <3>1, <3>2, FencedClose
  <2> QED
    BY <1>j, <1>2, <2>1, <2>6, <2>7, <2>8 DEF AcceptCapture
<1>q. worker[w].at # "finalize" => worker[w].question \in Questions(j)
  BY <1>a, <1>j, FencedTypes DEF Asking
<1>3. CASE MarkWaiting(w)
  <2>1. check[j][worker[w].question].status = "in_progress" /\ worker[w].question \in Questions(j)
    BY <1>0, <1>q, <1>3 DEF MarkWaiting, Position
  <2>2. PICK st \in Waiting : /\ job' = Settled(j, st)
                              /\ check' = [check EXCEPT ![j][worker[w].question].status = st]
    BY <1>j, <1>3 DEF MarkWaiting
  <2> QED
    BY <1>1, <1>3, <2>1, <2>2 DEF MarkWaiting
<1>4. CASE FailQuestion(w)
  <2>1. check[j][worker[w].question].status = "in_progress" /\ worker[w].question \in Questions(j)
    BY <1>0, <1>q, <1>4 DEF FailQuestion, Position
  <2> QED
    BY <1>j, <1>1, <1>4, <2>1 DEF FailQuestion
<1>5. CASE FinalizeJob(w)
  <2> DEFINE Bad == {q \in Questions(j) : ~Valid(raw[j][q], check[j][q])}
  <2>1. /\ worker[w].seen = check[j] /\ UNCHANGED <<local, up, raw, lease, messages, asks, crashes>>
    BY <1>0, <1>5 DEF FinalizeJob, Position
  <2>2. CASE /\ Bad = {} /\ job' = Settled(j, "reviewing") /\ UNCHANGED check
             /\ worker' = [worker EXCEPT ![w].at = "review", ![w].seen = <<>>]
    <3>1. /\ job' \in [Jobs -> JobRows] /\ job'[j].status = "reviewing"
          /\ job'[j].current = job[j].current /\ \A d \in Jobs \ {j} : job'[d] = job[d]
      BY <1>0, <1>n, <2>2, SettledRow
    <3>2. PICK row \in JobRows, ck \in [Questions(j) -> Row], rw \in [Questions(j) -> Contents] :
             row = job'[j] /\ ck = check[j] /\ rw = raw[j]
      BY <1>0, <3>1
    <3>3. Row1(j, row.status, row.current, ck, rw)
      BY <1>0, <2>2, <3>1, <3>2 DEF Row1, Valid, Waiting
    <3> DEFINE l == [worker[w] EXCEPT !.at = "review", !.seen = <<>>]
    <3>4. /\ l \in Calls /\ l.at = "review" /\ l.job = j /\ l.heartbeat = worker[w].heartbeat
      BY <1>j, <1>0, SeenTypes DEF Calls, Points, Claimed
    <3>5. worker' = [worker EXCEPT ![w] = l]
      BY <1>0, <2>2
    <3> HIDE DEF l
    <3>6. CallTypes' /\ worker'[w] = l /\ \A v \in Workers \ {w} : worker'[v] = worker[v]
      BY <1>0, <3>4, <3>5, CallStep DEF Asking
    <3>7. /\ UNCHANGED <<local, up, lease, messages, crashes>> /\ asks' = asks
          /\ job' \in [Jobs -> JobRows] /\ DOMAIN check' = Jobs /\ DOMAIN raw' = Jobs
          /\ job'[j] = row /\ check'[j] = ck /\ raw'[j] = rw
          /\ \A d \in Jobs \ {j} : check'[d] = check[d] /\ raw'[d] = raw[d] /\ job'[d] = job[d]
      BY <1>0, <2>1, <2>2, <3>1, <3>2
    <3> QED
      BY <1>a, <1>j, <3>2, <3>3, <3>4, <3>6, <3>7, FencedStep
  <2>3. ASSUME NEW q \in Bad, \A p \in Bad : q <= p, job' = Settled(j, "failed"),
               check' = [check EXCEPT ![j][q].status = "failed"], Close(w, "refresh")
        PROVE  CollectionInv'
    <3>1. PICK ck \in [Questions(j) -> Row] : ck = [check[j] EXCEPT ![q].status = "failed"]
      BY <1>0, <1>n DEF Row
    <3>2. /\ ck[q].status = "failed" /\ \A p \in Questions(j) \ {q} : ck[p] = check[j][p]
          /\ check'[j] = ck /\ DOMAIN check' = Jobs
          /\ \A d \in Jobs \ {j} : check'[d] = check[d]
      BY <1>0, <2>3, <3>1 DEF Row
    <3>3. /\ job' \in [Jobs -> JobRows] /\ job'[j].status = "failed"
          /\ job'[j].current = job[j].current /\ \A d \in Jobs \ {j} : job'[d] = job[d]
      BY <1>0, <1>n, <2>3, SettledRow
    <3>4. PICK row \in JobRows : row = job'[j]
      BY <3>3
    <3>5. \A p \in Questions(j) : p < q => check[j][p].status = "passed"
      <4>1. \A p \in Questions(j) : p \in Int /\ q \in Int
        BY <1>n
      <4> QED
        BY <2>3, <4>1 DEF Valid
    <3>6. Row1(j, row.status, row.current, ck, raw[j])
      BY <1>0, <2>3, <3>2, <3>3, <3>4, <3>5 DEF Row1, Waiting
    <3>7. \A p \in Questions(j) : ck[p].status = "pending" => check[j][p].status = "pending"
      BY <3>2
    <3>8. /\ UNCHANGED <<local, up, lease, messages, crashes>> /\ asks' = asks
          /\ job' \in [Jobs -> JobRows] /\ DOMAIN check' = Jobs /\ DOMAIN raw' = Jobs
          /\ job'[j] = row /\ check'[j] = ck /\ raw'[j] = raw[j]
          /\ \A d \in Jobs \ {j} : check'[d] = check[d] /\ raw'[d] = raw[d] /\ job'[d] = job[d]
      BY <1>0, <2>1, <3>2, <3>3, <3>4
    <3> QED
      BY <1>a, <1>j, <1>0, <1>o, <2>3, <3>6, <3>7, <3>8, FencedClose
  <2> QED
    BY <1>j, <1>5, <2>1, <2>2, <2>3 DEF FinalizeJob
<1> QED
  BY <1>2, <1>3, <1>4, <1>5, <1>q DEF AcceptCapture

-----------------------------------------------------------------------------
(* Leases and failures *)

\* The owner strings of the calls in W are carried by nobody any more; the
\* others keep what they have.
LEMMA ForsakenRows ==
    ASSUME TableTypes, NEW W \in SUBSET Workers, job' = ForsakenJobs(job, W)
    PROVE  /\ job' \in [Jobs -> JobRows]
           /\ \A j \in Jobs : /\ job'[j].status = job[j].status /\ job'[j].current = job[j].current
                              /\ \A v \in Workers \ W : job'[j].owner = v <=> job[j].owner = v
<1>1. job \in [Jobs -> JobRows]
  BY DEF TableTypes
<1>2. \A o \in Owners : /\ Forsaken(o, W) \in Owners
                        /\ \A v \in Workers \ W : Forsaken(o, W) = v <=> o = v
  BY DEF Forsaken, Owners
<1> QED
  BY <1>1, <1>2 DEF ForsakenJobs, JobRows

LEMMA ForsakenLeases ==
    ASSUME TableTypes, NEW W \in SUBSET Workers, lease' = ForsakenLease(lease, W)
    PROVE  /\ lease' \in LeaseRows /\ lease'.job = lease.job /\ lease'.expired = lease.expired
           /\ \A v \in Workers \ W : lease'.owner = v <=> lease.owner = v
  BY DEF TableTypes, ForsakenLease, Forsaken, Owners, LeaseRows

\* The calls in W end, or start anew with nothing, and leave their leases
\* behind or have released them.
LEMMA ForsakenStep ==
    ASSUME CollectionInv, NEW W \in SUBSET Workers, UNCHANGED <<local, check, raw, asks>>,
           up' \in BOOLEAN, crashes' \in 0..MaxCrashes, messages' \subseteq Jobs,
           job' = ForsakenJobs(job, W), lease' \in LeaseRows,
           \A v \in Workers \ W :
              /\ lease'.owner = v <=> lease.owner = v
              /\ lease.owner = v => lease'.job = lease.job /\ lease'.expired = lease.expired,
           CallTypes',
           \A v \in W : /\ worker'[v].at \in {"idle", "claim", "refresh"}
                        /\ worker'[v].heartbeat = "off",
           \A v \in Workers \ W : worker'[v] = worker[v]
    PROVE  CollectionInv'
<1> USE DEF CollectionInv
<1>1. /\ job' \in [Jobs -> JobRows]
      /\ \A j \in Jobs : /\ job'[j].status = job[j].status /\ job'[j].current = job[j].current
                         /\ \A v \in Workers \ W : job'[j].owner = v <=> job[j].owner = v
  BY ForsakenRows
<1>2. TableTypes'
  BY <1>1 DEF TableTypes, Questions
<1>3. JobsInv'
  BY <1>1, JobsStand DEF Moved
<1>4. CallsInv'
  <2>1. ASSUME NEW v \in Workers \ W, Fence(v)', worker[v].at \in Asking \cup {"finalize"}
        PROVE  Fence(v)
    <3>1. worker[v].job \in Jobs
      BY <2>1 DEF CallTypes, Asking
    <3>2. lease.owner = v /\ lease.job = worker[v].job
      BY <2>1 DEF Fence
    <3>3. job[worker[v].job].owner = v /\ job[worker[v].job].status = "running"
      BY <1>1, <2>1, <3>1 DEF Fence
    <3> QED
      BY <3>2, <3>3 DEF Fence
  <2> QED
    BY <2>1, CallsStand DEF Asking
<1>5. AskInv'
  BY AsksStand
<1>6. LeaseInv'
  <2>1. \A v \in W : ~Prompt(v)'
    BY DEF Prompt
  <2>2. \A v \in Workers \ W : Prompt(v)' => Prompt(v)
    BY DEF Prompt
  <2> QED
    BY <2>1, <2>2, LeaseStands DEF LeaseInv
<1> QED
  BY <1>2, <1>3, <1>4, <1>5, <1>6

\* Both leases change hands: nobody prompt has them.
LEMMA ClaimStep ==
    ASSUME CollectionInv, NEW w \in Workers, Claim(w)
    PROVE  CollectionInv'
<1> USE DEF CollectionInv
<1>0. worker[w].at = "claim" /\ worker[w] \in Calls /\ worker \in [Workers -> Calls] /\ CallTypes
  BY DEF Claim, CallTypes
<1>j. PICK j \in Jobs : j = worker[w].job
  BY <1>0 DEF CallTypes
<1>1. /\ lease.owner = NoOwner \/ lease.expired
      /\ lease' = [owner |-> w, job |-> j, expired |-> FALSE]
      /\ job' = [job EXCEPT ![j].status = "running", ![j].owner = w, ![j].expired = FALSE]
      /\ UNCHANGED <<local, up, check, raw, messages, asks, crashes>>
  BY <1>j DEF Claim, Claimable
<1>2. job \in [Jobs -> JobRows]
  BY DEF TableTypes
<1>3. PICK row \in JobRows : /\ row = [job[j] EXCEPT !.status = "running", !.owner = w, !.expired = FALSE]
  BY <1>2 DEF JobRows, JobStatus, Owners
<1>4. /\ job' \in [Jobs -> JobRows] /\ job'[j] = row /\ \A d \in Jobs \ {j} : job'[d] = job[d]
      /\ row.status = "running" /\ row.current = job[j].current
  BY <1>1, <1>2, <1>3 DEF JobRows
<1> DEFINE l == [worker[w] EXCEPT !.at = "setup"]
<1>5. /\ l \in Calls /\ l.at = "setup" /\ l.job = j /\ l.heartbeat = worker[w].heartbeat
  BY <1>0, <1>j DEF Calls, Points
<1>6. worker' = [worker EXCEPT ![w] = l]
  BY <1>0 DEF Claim
<1> HIDE DEF l
<1>7. CallTypes' /\ worker'[w] = l /\ \A v \in Workers \ {w} : worker'[v] = worker[v]
  BY <1>0, <1>5, <1>6, CallStep DEF Asking
<1>8. TableTypes'
  BY <1>1, <1>4 DEF TableTypes, LeaseRows, Owners, Questions
<1>9. JobsInv'
  BY <1>1, <1>4, JobsStand DEF Moved
<1>10. CallsInv'
  <2>1. worker'[w].at \notin Asking \cup {"finalize"}
    BY <1>5, <1>7 DEF Asking
  <2>2. \A v \in Workers \ {w} : ~Fence(v)'
    BY <1>1 DEF Fence
  <2> QED
    BY <2>1, <2>2, CallsStand
<1>11. AskInv'
  BY <1>1, <1>5, <1>7, AsksStand
<1>12. LeaseInv'
  <2>1. worker[w].heartbeat = "off"
    BY <1>0 DEF LeaseInv, Claimed, Driving, Writing
  <2>2. \A v \in Workers \ {w} : ~Prompt(v)'
    <3>1. \A v \in Workers \ {w} : Prompt(v)' => Prompt(v)
      BY <1>7 DEF Prompt
    <3> QED
      BY <1>1, <3>1 DEF LeaseInv
  <2>3. lease'.owner = w /\ lease'.job = worker'[w].job /\ ~lease'.expired
    BY <1>1, <1>5, <1>7
  <2> QED
    BY <1>5, <1>7, <2>1, <2>2, <2>3 DEF LeaseInv
<1> QED
  BY <1>7, <1>8, <1>9, <1>10, <1>11, <1>12

\* The questions are resolved and the heartbeat begins, or the call fails.
LEMMA SetupStep ==
    ASSUME CollectionInv, NEW w \in Workers, Setup(w)
    PROVE  CollectionInv'
<1>0. /\ worker[w].at = "setup" /\ worker[w] \in Calls /\ worker \in [Workers -> Calls]
      /\ CallTypes /\ TableTypes /\ worker[w].job \in Jobs /\ messages \subseteq Jobs
      /\ UNCHANGED <<local, up, check, raw, messages, asks, crashes>>
  BY DEF Setup, CollectionInv, CallTypes, TableTypes
<1>1. CASE worker' = [worker EXCEPT ![w].at = "preflight", ![w].heartbeat = "on"] /\ UNCHANGED <<job, lease>>
  <2> DEFINE l == [worker[w] EXCEPT !.at = "preflight", !.heartbeat = "on"]
  <2>1. l \in Calls /\ l.at = "preflight" /\ l.job = worker[w].job
    BY <1>0 DEF Calls, Points, Claimed, Driving
  <2>2. worker' = [worker EXCEPT ![w] = l]
    BY <1>0, <1>1
  <2> HIDE DEF l
  <2>3. CallTypes' /\ worker'[w] = l /\ \A v \in Workers \ {w} : worker'[v] = worker[v]
    BY <1>0, <2>1, <2>2, CallStep DEF Asking
  <2>4. /\ worker'[w].at \in Claimed /\ Position(worker[w], check[worker[w].job])'
        /\ Prompt(w)' => Prompt(w) /\ worker'[w].job = worker[w].job
    BY <1>0, <2>1, <2>3 DEF Claimed, Driving, Position, Prompt
  <2>5. GivenUp
    BY <1>0, <1>1 DEF GivenUp, Moved, TableTypes
  <2> QED
    BY <1>0, <1>1, <2>1, <2>3, <2>4, <2>5, QuietStep
<1>2. CASE /\ worker' = [worker EXCEPT ![w] = Idle]
           /\ job' = ForsakenJobs(job, {w}) /\ lease' = ForsakenLease(lease, {w})
  <2>1. CallTypes' /\ worker'[w] = Idle /\ \A v \in Workers \ {w} : worker'[v] = worker[v]
    BY <1>0, <1>2, IdleType, CallStep DEF Asking
  <2>2. /\ lease' \in LeaseRows
        /\ \A v \in Workers \ {w} :
              /\ lease'.owner = v <=> lease.owner = v
              /\ lease.owner = v => lease'.job = lease.job /\ lease'.expired = lease.expired
    <3>1. TableTypes /\ lease' = ForsakenLease(lease, {w})
      BY <1>0, <1>2
    <3>2. /\ lease' \in LeaseRows /\ lease'.job = lease.job /\ lease'.expired = lease.expired
          /\ \A v \in Workers \ {w} : lease'.owner = v <=> lease.owner = v
      BY <3>1, ForsakenLeases
    <3> QED
      BY <3>2
  <2>3. up' \in BOOLEAN /\ crashes' \in 0..MaxCrashes
    BY <1>0 DEF TableTypes
  <2>4. /\ CallTypes' /\ messages' \subseteq Jobs
        /\ worker'[w].at \in {"idle", "claim", "refresh"} /\ worker'[w].heartbeat = "off"
        /\ \A v \in Workers \ {w} : worker'[v] = worker[v]
    BY <1>0, <2>1, IdleType
  <2> QED
    BY <1>0, <1>2, <2>2, <2>3, <2>4, ForsakenStep
<1> QED
  BY <1>1, <1>2 DEF Setup

\* The finally block gives back its own lease only.
LEMMA FinallyStep ==
    ASSUME CollectionInv, NEW w \in Workers, Finally(w)
    PROVE  CollectionInv'
<1>0. /\ worker[w].at # "idle" /\ worker[w].job \in Jobs /\ CallTypes /\ TableTypes
      /\ UNCHANGED <<local, up, check, raw, asks, crashes>>
      /\ up \in BOOLEAN /\ crashes \in 0..MaxCrashes /\ messages \subseteq Jobs
      /\ lease \in LeaseRows /\ job' = ForsakenJobs(job, {w})
  BY DEF Finally, LeaveTry, CollectionInv, CallTypes, TableTypes
<1>1. /\ lease' \in LeaseRows
      /\ \A v \in Workers \ {w} :
            /\ lease'.owner = v <=> lease.owner = v
            /\ lease.owner = v => lease'.job = lease.job /\ lease'.expired = lease.expired
  <2>1. CASE lease' = ForsakenLease(lease, {w})
    BY <1>0, <2>1, ForsakenLeases
  <2>2. CASE lease' = Released(w)
    BY <1>0, <2>2 DEF Released, LeaseRows, Owners
  <2> QED
    BY <2>1, <2>2 DEF Finally, LeaveTry
<1>2. /\ CallTypes' /\ worker'[w].at \in {"idle", "claim", "refresh"}
      /\ worker'[w].heartbeat = "off"
      /\ \A v \in Workers \ {w} : worker'[v] = worker[v]
      /\ messages' \subseteq Jobs
  <2>1. CASE \E again \in BOOLEAN : Return(w, again)
    BY <1>0, <2>1, ReturnCall
  <2>2. CASE /\ worker' = [worker EXCEPT ![w] = [Idle EXCEPT !.at = "refresh", !.job = worker[w].job]]
             /\ UNCHANGED messages
    <3> DEFINE l == [Idle EXCEPT !.at = "refresh", !.job = worker[w].job]
    <3>1. l \in Calls /\ l.at = "refresh" /\ l.job = worker[w].job /\ l.heartbeat = "off"
      BY <1>0, IdleType DEF Idle
    <3> HIDE DEF l
    <3>2. worker' = [worker EXCEPT ![w] = l]
      BY <2>2 DEF l
    <3>3. CallTypes' /\ worker'[w] = l /\ \A v \in Workers \ {w} : worker'[v] = worker[v]
      BY <1>0, <3>1, <3>2, CallStep DEF Asking
    <3> QED
      BY <1>0, <2>2, <3>1, <3>3
  <2> QED
    BY <2>1, <2>2 DEF Finally, LeaveTry
<1> QED
  BY <1>0, <1>1, <1>2, ForsakenStep

\* Leases expire or are renewed and keep their owners; a call may be told that
\* it has lost its own.
LEMMA TimeStep ==
    ASSUME CollectionInv, UNCHANGED <<local, up, check, raw, messages, asks, crashes>>,
           job' \in [Jobs -> JobRows],
           \A j \in Jobs : /\ job'[j].status = job[j].status /\ job'[j].current = job[j].current
                           /\ job'[j].owner = job[j].owner,
           lease' \in LeaseRows, lease'.owner = lease.owner, lease'.job = lease.job,
           CallTypes',
           \A v \in Workers :
              \/ worker'[v] = worker[v] /\ (Prompt(v) /\ lease.owner = v => lease.expired \/ ~lease'.expired)
              \/ /\ worker'[v].at = worker[v].at /\ worker'[v].job = worker[v].job
                 /\ worker'[v].question = worker[v].question
                 /\ worker'[v].heartbeat = "off" /\ worker'[v].at \in Claimed /\ ~Fence(v)'
    PROVE  CollectionInv'
<1> USE DEF CollectionInv
<1>1. TableTypes'
  BY DEF TableTypes, Questions
<1>2. JobsInv'
  BY JobsStand DEF Moved
<1>3. CallsInv'
  <2>1. ASSUME NEW v \in Workers, worker'[v] = worker[v], Fence(v)',
               worker'[v].at \in Asking \cup {"finalize"}
        PROVE  Fence(v)
    <3>1. worker[v].job \in Jobs
      BY <2>1 DEF CallTypes, Asking
    <3> QED
      BY <2>1, <3>1 DEF Fence
  <2> QED
    BY <2>1, CallsStand
<1>4. AskInv'
  BY AsksStand
<1>5. LeaseInv'
  <2>1. ASSUME NEW v \in Workers
        PROVE  /\ worker'[v].heartbeat # "off" => worker'[v].at \in Claimed
               /\ Prompt(v)' => /\ Prompt(v) /\ worker'[v].job = worker[v].job
                                /\ lease.owner = v => /\ lease'.owner = v /\ lease'.job = lease.job
                                                      /\ lease.expired \/ ~lease'.expired
    <3>1. CASE worker'[v] = worker[v] /\ (Prompt(v) /\ lease.owner = v => lease.expired \/ ~lease'.expired)
      BY <3>1 DEF Prompt, LeaseInv
    <3>2. CASE worker'[v].heartbeat = "off" /\ worker'[v].at \in Claimed
      BY <3>2 DEF Prompt, Claimed, Driving, Writing
    <3> QED
      BY <3>1, <3>2
  <2> QED
    BY <2>1, LeaseStands
<1> QED
  BY <1>1, <1>2, <1>3, <1>4, <1>5

\* LEASE_DURATION passes, but not for a prompt call.
LEMMA ExpireStep ==
    ASSUME CollectionInv, NEW o \in Workers \cup {Ghost}, Expire(o)
    PROVE  CollectionInv'
<1>0. /\ job \in [Jobs -> JobRows] /\ lease \in LeaseRows /\ CallTypes
      /\ UNCHANGED <<local, up, check, raw, messages, worker, asks, crashes>>
  BY DEF Expire, CollectionInv, TableTypes
<1>1. /\ job' \in [Jobs -> JobRows]
      /\ \A j \in Jobs : /\ job'[j].status = job[j].status /\ job'[j].current = job[j].current
                         /\ job'[j].owner = job[j].owner
  BY <1>0 DEF Expire, JobRows
<1>2. lease' \in LeaseRows /\ lease'.owner = lease.owner /\ lease'.job = lease.job
  BY <1>0 DEF Expire, LeaseRows
<1>3. \A v \in Workers : Prompt(v) /\ lease.owner = v => lease.expired \/ ~lease'.expired
  BY DEF Expire, MayExpire
<1>4. CallTypes'
  BY <1>0 DEF CallTypes, Questions
<1>5. \A v \in Workers : worker'[v] = worker[v]
  BY <1>0
<1> QED
  BY <1>0, <1>1, <1>2, <1>3, <1>4, <1>5, TimeStep

\* _heartbeat renews what is its own, or tells its call.
LEMMA HeartbeatStep ==
    ASSUME CollectionInv, NEW w \in Workers, Heartbeat(w)
    PROVE  CollectionInv'
<1>0. /\ job \in [Jobs -> JobRows] /\ lease \in LeaseRows /\ CallTypes
      /\ worker \in [Workers -> Calls] /\ worker[w] \in Calls /\ worker[w].at \in Claimed
      /\ worker[w].heartbeat = "on"
      /\ UNCHANGED <<local, up, check, raw, messages, asks, crashes>>
  BY DEF Heartbeat, CollectionInv, CallTypes, TableTypes, LeaseInv
<1>j. PICK j \in Jobs : j = worker[w].job
  BY <1>0 DEF CallTypes, Claimed, Driving, Writing
<1>1. /\ job' \in [Jobs -> JobRows]
      /\ \A d \in Jobs : /\ job'[d].status = job[d].status /\ job'[d].current = job[d].current
                         /\ job'[d].owner = job[d].owner
  <2>0. \A r \in JobRows : /\ Renewed(r, w) \in JobRows /\ Renewed(r, w).status = r.status
                           /\ Renewed(r, w).current = r.current /\ Renewed(r, w).owner = r.owner
    BY DEF Renewed, JobRows
  <2>1. PICK row \in JobRows : /\ row = Renewed(job[j], w)
                               /\ row.status = job[j].status /\ row.current = job[j].current
                               /\ row.owner = job[j].owner
    BY <1>0, <2>0
  <2>2. job' \in {job, [job EXCEPT ![j] = row]}
    BY <1>j, <2>1 DEF Heartbeat
  <2> QED
    BY <1>0, <2>1, <2>2
<1>2. /\ lease' \in LeaseRows /\ lease'.owner = lease.owner /\ lease'.job = lease.job
      /\ lease.expired \/ ~lease'.expired
  BY <1>0 DEF Heartbeat, Renewed, LeaseRows
<1>3. CASE worker' = worker
  <2>1. CallTypes' /\ \A v \in Workers : worker'[v] = worker[v]
    BY <1>0, <1>3 DEF CallTypes, Questions
  <2> QED
    BY <1>0, <1>1, <1>2, <2>1, TimeStep
<1>4. CASE /\ ~Fence(w)
           /\ worker' = [worker EXCEPT ![w].heartbeat = "off", ![w].lost = TRUE]
  <2> DEFINE l == [worker[w] EXCEPT !.heartbeat = "off", !.lost = TRUE]
  <2>1. /\ l \in Calls /\ l.at = worker[w].at /\ l.job = worker[w].job /\ l.heartbeat = "off"
        /\ l.question = worker[w].question /\ l.capture = worker[w].capture
        /\ l.seen = worker[w].seen
    BY <1>0 DEF Calls
  <2>2. worker' = [worker EXCEPT ![w] = l]
    BY <1>0, <1>4
  <2> HIDE DEF l
  <2>3. CallTypes' /\ worker'[w] = l /\ \A v \in Workers \ {w} : worker'[v] = worker[v]
    BY <1>0, <2>1, <2>2, CallStep DEF CallTypes
  <2>4. ~Fence(w)'
    BY <1>j, <1>1, <1>2, <1>4, <2>1, <2>3 DEF Fence
  <2> QED
    BY <1>0, <1>1, <1>2, <2>1, <2>3, <2>4, TimeStep
<1> QED
  BY <1>3, <1>4 DEF Heartbeat, Fence

\* Calls are cut off without a word, those of one worker or of the API process.
LEMMA CrashStep ==
    ASSUME CollectionInv, ApiCrash \/ \E w \in Workers : Kill(w)
    PROVE  CollectionInv'
<1>0. /\ CallTypes /\ TableTypes /\ worker \in [Workers -> Calls] /\ messages \subseteq Jobs
      /\ up \in BOOLEAN /\ crashes \in 0..MaxCrashes
  BY DEF CollectionInv, CallTypes, TableTypes
<1>c. crashes < MaxCrashes /\ crashes' = crashes + 1 => crashes' \in 0..MaxCrashes
  BY <1>0
<1>1. ASSUME NEW W \in SUBSET Workers, job' = ForsakenJobs(job, W), lease' = ForsakenLease(lease, W),
             worker' = [v \in Workers |-> IF v \in W THEN Idle ELSE worker[v]],
             messages' \subseteq Jobs, up' \in BOOLEAN, crashes' \in 0..MaxCrashes,
             UNCHANGED <<local, check, raw, asks>>
      PROVE  CollectionInv'
  <2>1. /\ \A v \in W : worker'[v] = Idle
        /\ \A v \in Workers \ W : worker'[v] = worker[v]
        /\ worker' \in [Workers -> Calls]
    BY <1>0, <1>1, IdleType
  <2>2. CallTypes'
    BY <1>0, <2>1, IdleType DEF CallTypes, Asking, Questions
  <2>3. /\ lease' \in LeaseRows
        /\ \A v \in Workers \ W :
              /\ lease'.owner = v <=> lease.owner = v
              /\ lease.owner = v => lease'.job = lease.job /\ lease'.expired = lease.expired
    BY <1>0, <1>1, ForsakenLeases
  <2>4. \A v \in W : worker'[v].at \in {"idle", "claim", "refresh"} /\ worker'[v].heartbeat = "off"
    BY <2>1, IdleType
  <2> QED
    BY <1>1, <2>1, <2>2, <2>3, <2>4, ForsakenStep
<1>2. CASE ApiCrash
  <2>1. CASE local
    <3>1. /\ job' = ForsakenJobs(job, Workers) /\ lease' = ForsakenLease(lease, Workers)
          /\ worker' = [v \in Workers |-> IF v \in Workers THEN Idle ELSE worker[v]]
          /\ messages' \subseteq Jobs /\ up' \in BOOLEAN /\ crashes' \in 0..MaxCrashes
          /\ UNCHANGED <<local, check, raw, asks>>
      BY <1>2, <1>c, <2>1 DEF ApiCrash
    <3> QED
      BY <1>1, <3>1
  <2>2. CASE ~local
    <3>1. /\ UNCHANGED <<local, check, raw, asks, worker, job, lease, messages>>
          /\ up' \in BOOLEAN /\ crashes' \in 0..MaxCrashes
      BY <1>2, <1>c, <2>2 DEF ApiCrash
    <3>2. TableTypes' /\ CallTypes'
      BY <1>0, <3>1 DEF TableTypes, CallTypes, Questions
    <3>3. JobsInv' /\ CallsInv'
      BY <3>1, JobsStand, CallsStand DEF CollectionInv, Moved, Fence
    <3>4. AskInv' /\ LeaseInv'
      BY <3>1, AsksStand, LeaseStands DEF CollectionInv, Prompt, LeaseInv
    <3> QED
      BY <3>2, <3>3, <3>4 DEF CollectionInv
  <2> QED
    BY <2>1, <2>2
<1>3. ASSUME NEW w \in Workers, Kill(w)
      PROVE  CollectionInv'
  <2>1. worker[w].job \in Jobs
    BY <1>0, <1>3 DEF Kill, CallTypes
  <2>2. /\ job' = ForsakenJobs(job, {w}) /\ lease' = ForsakenLease(lease, {w})
        /\ worker' = [v \in Workers |-> IF v \in {w} THEN Idle ELSE worker[v]]
        /\ messages' \subseteq Jobs /\ up' \in BOOLEAN /\ crashes' \in 0..MaxCrashes
        /\ UNCHANGED <<local, check, raw, asks>>
    BY <1>0, <1>3, <1>c, <2>1 DEF Kill
  <2> QED
    BY <1>1, <2>2
<1> QED
  BY <1>2, <1>3

\* recover_collection_jobs gives up expired jobs, whose calls lose the fence.
LEMMA RestartStep ==
    ASSUME CollectionInv, ApiRestart
    PROVE  CollectionInv'
<1> USE DEF CollectionInv
<1>0. /\ job \in [Jobs -> JobRows] /\ UNCHANGED <<local, check, raw, lease, worker, asks, crashes>>
      /\ up' \in BOOLEAN /\ messages' \subseteq Jobs
  BY DEF ApiRestart, TableTypes
<1>1. /\ job' \in [Jobs -> JobRows]
      /\ \A j \in Jobs : /\ job'[j].current = job[j].current
                         /\ job'[j].status \in {job[j].status, "queued"}
                         /\ job'[j].status = "running" => job'[j] = job[j]
  <2> DEFINE Queued(r) == [r EXCEPT !.status = "queued", !.owner = NoOwner, !.expired = FALSE]
  <2>1. \A r \in JobRows : /\ Queued(r) \in JobRows /\ Queued(r).status = "queued"
                           /\ Queued(r).current = r.current
    BY DEF JobRows, JobStatus, Owners
  <2>2. job' = [j \in Jobs |-> IF job[j].status = "running" /\ job[j].expired
                               THEN Queued(job[j]) ELSE job[j]]
    BY DEF ApiRestart
  <2> HIDE DEF Queued
  <2> QED
    BY <1>0, <2>1, <2>2
<1>2. TableTypes' /\ CallTypes'
  BY <1>0, <1>1 DEF TableTypes, CallTypes, Questions
<1>3. JobsInv'
  BY <1>0, <1>1, JobsStand DEF Moved
<1>4. CallsInv'
  <2>1. ASSUME NEW v \in Workers, Fence(v)', worker[v].at \in Asking \cup {"finalize"}
        PROVE  Fence(v)
    <3>1. worker[v].job \in Jobs
      BY <2>1 DEF CallTypes, Asking
    <3> QED
      BY <1>0, <1>1, <2>1, <3>1 DEF Fence
  <2> QED
    BY <1>0, <2>1, CallsStand
<1>5. AskInv' /\ LeaseInv'
  BY <1>0, AsksStand, LeaseStands DEF Prompt, LeaseInv
<1> QED
  BY <1>2, <1>3, <1>4, <1>5

\* A file is damaged from outside.
LEMMA DamageStep ==
    ASSUME CollectionInv, NEW j \in Jobs, NEW q \in Questions(j), Damage(j, q)
    PROVE  CollectionInv'
<1> USE DEF CollectionInv
<1>0. /\ UNCHANGED <<local, up, job, check, lease, messages, worker, asks, crashes>>
      /\ raw' = [raw EXCEPT ![j][q] = Damaged]
      /\ DOMAIN raw = Jobs /\ \A d \in Jobs : raw[d] \in [Questions(d) -> Contents]
  BY DEF Damage, TableTypes
<1>1. PICK rw \in [Questions(j) -> Contents] : rw = [raw[j] EXCEPT ![q] = Damaged]
  BY <1>0 DEF Contents
<1>2. /\ rw[q] = Damaged /\ \A p \in Questions(j) \ {q} : rw[p] = raw[j][p]
      /\ DOMAIN raw' = Jobs /\ raw'[j] = rw /\ \A d \in Jobs \ {j} : raw'[d] = raw[d]
  BY <1>0, <1>1
<1>3. TableTypes' /\ CallTypes'
  BY <1>0, <1>2 DEF TableTypes, CallTypes, Questions
<1>4. JobsInv'
  <2>1. PICK st, cur, ck : st = job[j].status /\ cur = job[j].current /\ ck = check[j]
    OBVIOUS
  <2>2. Row1(j, st, cur, ck, raw[j])
    BY <2>1 DEF JobsInv
  <2>3. Row1(j, st, cur, ck, rw)
    BY <1>2, <2>2 DEF Row1
  <2> QED
    BY <1>0, <1>2, <2>1, <2>3, OneJobStep
<1>5. CallsInv'
  BY <1>0, CallsStand DEF Fence
<1>6. AskInv' /\ LeaseInv'
  BY <1>0, AsksStand, LeaseStands DEF Prompt, LeaseInv
<1> QED
  BY <1>3, <1>4, <1>5, <1>6

-----------------------------------------------------------------------------
(* The theorems *)

LEMMA CollectionInit == Init => CollectionInv
<1> SUFFICES ASSUME Init PROVE CollectionInv
  OBVIOUS
<1>1. TableTypes
  BY DEF Init, TableTypes, JobRows, JobStatus, Owners, LeaseRows, Row, CheckStatus, Contents
<1>2. CallTypes
  BY IdleType DEF Init, CallTypes, Asking
<1>3. JobsInv
  BY DEF Init, JobsInv, Row1, Waiting
<1>4. CallsInv
  BY DEF Init, CallsInv, Fence
<1>5. AskInv
  <2>1. \A w \in Workers : worker[w].at # "ask"
    BY IdleType DEF Init
  <2>2. \A j \in Jobs : \A q \in Questions(j) : asks[j][q] = 0
    BY DEF Init
  <2> QED
    BY <2>1, <2>2 DEF AskInv, MayAsk
<1>6. LeaseInv
  BY IdleType DEF Init, LeaseInv, Prompt
<1> QED
  BY <1>1, <1>2, <1>3, <1>4, <1>5, <1>6 DEF CollectionInv

LEMMA CollectionStep == CollectionInv /\ [Next]_vars => CollectionInv'
<1> SUFFICES ASSUME CollectionInv, [Next]_vars
             PROVE  CollectionInv'
  OBVIOUS
<1>1. ASSUME NEW j \in Jobs, EnsureCollection(j) \/ ResumeCollection(j)
      PROVE  CollectionInv'
  BY <1>1, EnsureStep, ResumeStep
<1>2. ASSUME NEW w \in Workers, NEW j \in Jobs, Begin(w, j)
      PROVE  CollectionInv'
  BY <1>2, LooseSteps
<1>3. ASSUME NEW w \in Workers, Progress(w) \/ Raises(w)
      PROVE  CollectionInv'
  <2>1. CASE Claim(w) \/ Setup(w) \/ Finally(w)
    BY <2>1, ClaimStep, SetupStep, FinallyStep
  <2>2. CASE ClaimRefused(w) \/ Refresh(w)
    BY <2>2, LooseSteps
  <2>3. CASE ScheduleResume(w)
    <3>1. worker[w].at = "review" \/ worker[w].at = "resume"
      BY <2>3 DEF ScheduleResume
    <3> QED
      BY <2>3, <3>1, LooseSteps, QuietSteps
  <2>4. CASE \/ Preflight(w) \/ Loop(w) \/ FenceLost(w) \/ DriverReturns(w) \/ DriverCancelled(w)
             \/ Raises(w)
    BY <2>4, QuietSteps
  <2>5. CASE MarkInProgress(w) \/ Ask(w)
    BY <2>5, MarkStep, AskStep
  <2>6. CASE AcceptCapture(w) \/ MarkWaiting(w) \/ FailQuestion(w) \/ FinalizeJob(w)
    BY <2>6, FencedSteps
  <2> QED
    BY <1>3, <2>1, <2>2, <2>3, <2>4, <2>5, <2>6 DEF Progress
<1>4. ASSUME NEW w \in Workers, Heartbeat(w) \/ HeartbeatRaises(w) \/ Kill(w)
      PROVE  CollectionInv'
  BY <1>4, HeartbeatStep, QuietSteps, CrashStep
<1>5. ASSUME NEW o \in Workers \cup {Ghost}, Expire(o)
      PROVE  CollectionInv'
  BY <1>5, ExpireStep
<1>6. ASSUME NEW j \in Jobs, NEW q \in Questions(j), Damage(j, q)
      PROVE  CollectionInv'
  BY <1>6, DamageStep
<1>7. CASE ApiCrash \/ ApiRestart
  BY <1>7, CrashStep, RestartStep
<1>8. CASE UNCHANGED vars
  BY <1>8 DEF vars, CollectionInv, TableTypes, CallTypes, JobsInv, CallsInv, AskInv, LeaseInv,
              Row1, Position, MayAsk, Fence, Prompt, Questions
<1> QED
  BY <1>1, <1>2, <1>3, <1>4, <1>5, <1>6, <1>7, <1>8 DEF Next

(***************************************************************************)
(* The inductive invariant of run_collection_job and its runtimes.  It     *)
(* adds to the properties below what they rest on: the questions of a job  *)
(* are taken in order and the one in between is the current one, a call    *)
(* under its fence still knows its job, and the permission to ask that     *)
(* _mark_in_progress gives is unique.                                      *)
(***************************************************************************)
THEOREM CollectionInvariant == Spec => []CollectionInv
<1>1. Init => CollectionInv
  BY CollectionInit
<1>2. CollectionInv /\ [Next]_vars => CollectionInv'
  BY CollectionStep
<1> QED
  BY <1>1, <1>2, PTL DEF Spec

(***************************************************************************)
(* Rows, files and calls have their types: a call that is past its claim   *)
(* has a job, one with a question has one of that job, and _finalize_job   *)
(* compares with the checkpoints of its own job.                           *)
(***************************************************************************)
THEOREM TypeCorrect == Spec => []TypeOK
<1>1. CollectionInv => TypeOK
  BY DEF CollectionInv, TableTypes, CallTypes, TypeOK, JobRows, LeaseRows, Calls, Asking
<1> QED
  BY <1>1, CollectionInvariant, PTL

(***************************************************************************)
(* No crash, takeover, late worker, repeated message or resumption makes   *)
(* a second driver.collect() of one question: resume_collection never      *)
(* sets a question back to pending, and _mark_in_progress moves it on once.*)
(***************************************************************************)
THEOREM QuestionsAskedOnce == Spec => []AskedOnce
<1>1. CollectionInv => AskedOnce
  BY DEF CollectionInv, AskInv, AskedOnce
<1> QED
  BY <1>1, CollectionInvariant, PTL

(***************************************************************************)
(* _accept_capture writes the raw file and passes the checkpoint under one *)
(* fence, so the file of a passed question is the one its digest was taken *)
(* of, or was damaged from outside; a job in review has passed throughout. *)
(***************************************************************************)
THEOREM EvidenceStandsAlways == Spec => []EvidenceStands
<1>1. CollectionInv => EvidenceStands
  BY DEF CollectionInv, JobsInv, Row1, EvidenceStands
<1> QED
  BY <1>1, CollectionInvariant, PTL

(***************************************************************************)
(* resume_collection finds the checkpoint that waits in every waiting job: *)
(* the row names it from _mark_in_progress to _mark_waiting, whichever     *)
(* worker has taken the job over in between.                               *)
(***************************************************************************)
THEOREM WaitingJobsResumable == Spec => []WaitingIsResumable
<1>1. CollectionInv => WaitingIsResumable
  BY DEF CollectionInv, JobsInv, Row1, WaitingIsResumable
<1> QED
  BY <1>1, CollectionInvariant, PTL

(***************************************************************************)
(* A worker whose heartbeat works has the global lease while its driver    *)
(* runs: _claim takes an expired or a free one only, and _release and the  *)
(* crashes of others touch what is theirs.                                 *)
(***************************************************************************)
THEOREM DriversHoldLease == Spec => []DriverHoldsLease
<1>1. CollectionInv => DriverHoldsLease
  BY DEF CollectionInv, LeaseInv, DriverHoldsLease
<1> QED
  BY <1>1, CollectionInvariant, PTL

\* The only step into review is _finalize_job's.
LEMMA ReviewEntered ==
    ASSUME CollectionInv, Next, NEW j \in Jobs,
           job'[j].status = "reviewing", job[j].status # "reviewing"
    PROVE  \E w \in Workers : /\ FinalizeJob(w) /\ worker[w].job = j
                              /\ job' = Settled(j, "reviewing")
<1>0. job \in [Jobs -> JobRows]
  BY DEF CollectionInv, TableTypes
<1>s. ASSUME NEW d \in Jobs, NEW st \in JobStatus \ {"reviewing"}, job' = Settled(d, st)
      PROVE  FALSE
  BY <1>0, <1>s, SettledRow
<1>f. ASSUME NEW W \in SUBSET Workers, job' = ForsakenJobs(job, W)
      PROVE  FALSE
  BY <1>f, ForsakenRows DEF CollectionInv
<1>t. {"failed", "succeeded", "blocked"} \cup Waiting \subseteq JobStatus \ {"reviewing"}
  BY DEF JobStatus, Waiting, Finished
<1>1. ASSUME NEW d \in Jobs, EnsureCollection(d) \/ ResumeCollection(d)
      PROVE  FALSE
  BY <1>0, <1>1 DEF EnsureCollection, ResumeCollection, JobRows
<1>2. ASSUME NEW w \in Workers, NEW d \in Jobs, Begin(w, d)
      PROVE  FALSE
  BY <1>2 DEF Begin
<1>3. ASSUME NEW w \in Workers, Progress(w) \/ Raises(w)
      PROVE  FinalizeJob(w) /\ worker[w].job = j /\ job' = Settled(j, "reviewing")
  <2>w. worker[w].at # "idle" => worker[w].job \in Jobs
    BY DEF CollectionInv, CallTypes
  <2>1. CASE Claim(w)
    <3>1. worker[w].job \in Jobs
      BY <2>1, <2>w DEF Claim
    <3> QED
      BY <1>0, <2>1, <3>1 DEF Claim, JobRows
  <2>2. CASE Setup(w) \/ Finally(w)
    <3>1. UNCHANGED job \/ job' = ForsakenJobs(job, {w})
      BY <2>2 DEF Setup, Finally, LeaveTry
    <3>2. {w} \in SUBSET Workers
      OBVIOUS
    <3> QED
      BY <1>f, <3>1, <3>2
  <2>3. CASE \/ ClaimRefused(w) \/ Refresh(w) \/ FenceLost(w) \/ DriverReturns(w)
             \/ DriverCancelled(w) \/ Raises(w) \/ Ask(w)
    <3>1. UNCHANGED job
      BY <2>3 DEF ClaimRefused, Refresh, FenceLost, DriverReturns, DriverCancelled, Raises, Ask
    <3> QED
      BY <3>1
  <2>4. CASE Preflight(w) \/ Loop(w)
    <3>1. /\ worker[w].job \in Jobs
          /\ UNCHANGED job \/ \E st \in {"blocked", "failed"} : job' = Settled(worker[w].job, st)
      BY <2>4, <2>w DEF Preflight, Loop
    <3> QED
      BY <1>s, <1>t, <3>1
  <2>5. CASE ScheduleResume(w)
    BY <1>s, <1>t, <2>5, <2>w DEF ScheduleResume, Reviewed
  <2>6. CASE MarkInProgress(w)
    <3>1. worker[w].job \in Jobs
      BY <2>6, <2>w DEF MarkInProgress
    <3> QED
      BY <1>0, <2>6, <3>1 DEF MarkInProgress, JobRows
  <2>7. CASE AcceptCapture(w)
    <3>1. worker[w].job \in Jobs
      BY <2>7, <2>w DEF AcceptCapture
    <3>2. job' # [job EXCEPT ![worker[w].job].current = 0]
      BY <1>0, <3>1 DEF JobRows
    <3> QED
      BY <1>s, <1>t, <2>7, <3>1, <3>2 DEF AcceptCapture
  <2>8. CASE MarkWaiting(w) \/ FailQuestion(w)
    <3>1. worker[w].job \in Jobs /\ \E st \in {"failed"} \cup Waiting : job' = Settled(worker[w].job, st)
      BY <2>8, <2>w DEF MarkWaiting, FailQuestion
    <3> QED
      BY <1>s, <1>t, <3>1
  <2>9. CASE FinalizeJob(w)
    <3>1. worker[w].job \in Jobs
      BY <2>9, <2>w DEF FinalizeJob
    <3>2. job' = Settled(worker[w].job, "reviewing")
      BY <1>s, <1>t, <2>9, <3>1 DEF FinalizeJob
    <3>3. worker[w].job = j
      BY <1>0, <3>1, <3>2, SettledRow DEF JobStatus
    <3> QED
      BY <2>9, <3>2, <3>3
  <2> QED
    BY <1>3, <2>1, <2>2, <2>3, <2>4, <2>5, <2>6, <2>7, <2>8, <2>9 DEF Progress
<1>4. ASSUME NEW w \in Workers, Heartbeat(w) \/ HeartbeatRaises(w) \/ Kill(w)
      PROVE  FALSE
  <2>1. CASE Kill(w)
    BY <1>f, <2>1 DEF Kill
  <2>2. CASE HeartbeatRaises(w)
    BY <2>2 DEF HeartbeatRaises
  <2>3. CASE Heartbeat(w)
    <3>1. worker[w].job \in Jobs
      BY <2>3 DEF Heartbeat, CollectionInv, CallTypes, LeaseInv, Claimed, Driving, Writing
    <3>2. \A r \in JobRows : Renewed(r, w).status = r.status
      BY DEF Renewed, JobRows
    <3> QED
      BY <1>0, <2>3, <3>1, <3>2 DEF Heartbeat
  <2> QED
    BY <1>4, <2>1, <2>2, <2>3
<1>5. ASSUME NEW o \in Workers \cup {Ghost}, Expire(o)
      PROVE  FALSE
  BY <1>0, <1>5 DEF Expire, JobRows
<1>6. ASSUME NEW d \in Jobs, NEW q \in Questions(d), Damage(d, q)
      PROVE  FALSE
  BY <1>6 DEF Damage
<1>7. CASE ApiCrash \/ ApiRestart
  <2>1. ~ApiRestart
    BY <1>0 DEF ApiRestart, JobRows
  <2> QED
    BY <1>f, <1>7, <2>1 DEF ApiCrash
<1> QED
  BY <1>1, <1>2, <1>3, <1>4, <1>5, <1>6, <1>7 DEF Next

(***************************************************************************)
(* A job enters review over files that are intact at that moment.          *)
(* _finalize_job compares them with digests the loop has read before it    *)
(* locked the fence; they are still the digests of the rows, as nobody     *)
(* else has written them while this call kept its leases.                  *)
(***************************************************************************)
THEOREM ReviewsAreIntact == Spec => ReviewedIntact
<1> DEFINE Entered(j) == job'[j].status = "reviewing" /\ job[j].status # "reviewing"
           Intact(j) == \A q \in Questions(j) : raw[j][q] = check[j][q].digest
<1>1. CollectionInv /\ [Next]_vars => [\A j \in Jobs : Entered(j) => Intact(j)]_vars
  <2> SUFFICES ASSUME CollectionInv, Next, NEW j \in Jobs, Entered(j)
               PROVE  Intact(j)
    OBVIOUS
  <2>1. PICK w \in Workers : FinalizeJob(w) /\ worker[w].job = j /\ job' = Settled(j, "reviewing")
    BY ReviewEntered
  <2>2. worker[w].at = "finalize" /\ Fence(w)
    BY <2>1 DEF FinalizeJob
  <2>3. worker[w].seen = check[j]
    BY <2>1, <2>2 DEF CollectionInv, CallsInv, Position
  <2>4. job \in [Jobs -> JobRows]
    BY DEF CollectionInv, TableTypes
  <2>5. ~ \E q : job' = Settled(j, "failed")
    BY <2>4, SettledRow DEF JobStatus, Finished
  <2>6. {q \in Questions(j) : ~Valid(raw[j][q], check[j][q])} = {}
    BY <2>1, <2>3, <2>5 DEF FinalizeJob
  <2> QED
    BY <2>6 DEF Valid
<1> QED
  BY <1>1, CollectionInvariant, PTL DEF Spec, ReviewedIntact
=============================================================================
