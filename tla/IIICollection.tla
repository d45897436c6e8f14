---------------------------- MODULE IIICollection ----------------------------
(***************************************************************************)
(* The Admin side of a collection through III: one command, its single     *)
(* attempt and its outbox row, from submission to the lifecycle callbacks  *)
(* of the bridge (workflow/iii_collection_store.py, iii_collection_        *)
(* dispatch.py, api/v1/iii_collections.py).                                *)
(*                                                                         *)
(* Every call is a request handler with a session of its own.  No handler  *)
(* locks the outbox row: it reads a copy, awaits, and flushes the columns  *)
(* it changed by primary key, so the steps of two handlers interleave at   *)
(* every await.  Only the claim is a conditional UPDATE.                   *)
(*                                                                         *)
(* A handler awaits the trigger in a process of its own, which a timeout   *)
(* kills and the end of the handler does not.  Time passes in ticks, and   *)
(* nothing obliges a handler to keep pace: "late" records that one has     *)
(* held its claim for longer than the lease reckons with.                  *)
(*                                                                         *)
(* External: the III command line and the bridge.  A started trigger may   *)
(* reach III whatever its exit code, and the bridge reports its stages in  *)
(* any order, repeatedly, and with a changed summary if the work ran twice.*)
(***************************************************************************)
EXTENDS Naturals, Sequences

CONSTANTS
    Calls,          \* request handlers
    Bodies,         \* canonical payloads a submission may carry under the one idempotency key
    Summaries,      \* contents of a lifecycle callback
    NoBody,         \* no command row, or no payload of the handler's own
    NoSummary,      \* no observation of this sequence number
    DispatchLease,  \* iii_dispatch_lease_seconds, in ticks
    TriggerTimeout, \* iii_trigger_timeout_seconds, in ticks
    MaxClaims       \* bound on the number of successful claims

ASSUME IIIAssumption ==
    /\ NoBody \notin Bodies
    /\ NoSummary \notin Summaries
    /\ DispatchLease \in Nat /\ TriggerTimeout \in Nat
    /\ MaxClaims \in Nat

Sequences123 == 1 .. 3      \* bridge_accepted, collector_started, collector_returned

Stage == <<"bridge_accepted", "collector_started", "collector_returned">>

States == {"pending", "dispatching", "submitted_to_iii", "bridge_unavailable",
           "cancelled", "cancel_requested"} \cup {Stage[s] : s \in Sequences123}

\* The columns of IIICollectionOutboundV1 a handler decides on from its copy.  No decision
\* reads dispatch_count, dispatched_at and last_error.
Row == [state : States, requested : BOOLEAN, cancelled : BOOLEAN]

PendingRow == [state |-> "pending", requested |-> FALSE, cancelled |-> FALSE]

\* The lease is the configured one, whatever the trigger may take.
LeaseAsConfigured == DispatchLease

\* lease_seconds of _claim_outbound: it outlives the trigger timeout by a tick at least.
Lease == IF DispatchLease > TriggerTimeout + 1 THEN DispatchLease ELSE TriggerTimeout + 1

VARIABLES
    command,        \* payload of the committed IIICollectionCommandV1, or NoBody
    row,            \* the outbox row (meaningful once the command is committed)
    lease,          \* ticks until its available_at, 0 when it has passed
    observed,       \* [1 .. 3 -> Summaries or NoSummary]: IIICollectionLifecycleObservationV1
    events,         \* stages appended to the run's event log
    claims,         \* successful claims so far (bound only)
    sent,           \* III may have received the collection
    stage,          \* how far the bridge has come, 0 .. 3
    timer,          \* of every handler: ticks until it kills its trigger process
    orphan,         \* a trigger process whose handler is gone may still run
    late,           \* history: some handler has outstayed what the lease reckons with
    pc, want, held  \* of every handler: control point, its own input, its copy of the row

ledger == <<command, observed, events>>
iii == <<sent, stage>>
outbox == <<row, lease>>
local == <<timer, orphan, late>>
iiiVars == <<command, row, lease, observed, events, claims, sent, stage, timer, orphan, late,
             pc, want, held>>

PCs == {"idle", "insert", "claim", "invoke", "running", "unsent", "unknown", "returned",
        "flush", "cancel", "observe"}

\* The handlers between a claim and the end of the trigger process they wait for.
Triggering == {h \in Calls : pc[h] \in {"invoke", "running"}}

\* A claim was won and nothing started: the spawn or its failure is still to be dealt with.
NothingStarted(h) ==
    pc[h] \in {"invoke", "unsent"} \/ (pc[h] = "flush" /\ want[h] = "unsent")

Inputs == Bodies \cup {NoBody} \cup {<<s, c>> : s \in Sequences123, c \in Summaries}
                 \cup {"unsent", "unknown", "returned"}

IIIInit ==
    /\ command = NoBody
    /\ row = PendingRow
    /\ lease = 0
    /\ observed = [s \in Sequences123 |-> NoSummary]
    /\ events = {}
    /\ claims = 0
    /\ sent = FALSE
    /\ stage = 0
    /\ timer = [h \in Calls |-> 0]
    /\ orphan = FALSE
    /\ late = FALSE
    /\ pc = [h \in Calls |-> "idle"]
    /\ want = [h \in Calls |-> NoBody]
    /\ held = [h \in Calls |-> PendingRow]

Goto(h, label) == pc' = [pc EXCEPT ![h] = label]

\* The handler answers; its session is closed.
Answer(h) ==
    /\ pc' = [pc EXCEPT ![h] = "idle"]
    /\ want' = [want EXCEPT ![h] = NoBody]
    /\ held' = [held EXCEPT ![h] = PendingRow]

Copy(h) == held' = [held EXCEPT ![h] = row]

-----------------------------------------------------------------------------
(* submit_collection and the dispatch that follows it                       *)

\* A losing insert is only compared with the winner's payload by a later submission.
SubmitExistingUnchecked(h, b) ==
    /\ Goto(h, "claim")
    /\ want' = [want EXCEPT ![h] = b]
    /\ UNCHANGED <<ledger, outbox, held>>

\* An existing command under the key must carry the same payload.
SubmitExisting(h, b) ==
    /\ IF command = b
       THEN Goto(h, "claim") /\ want' = [want EXCEPT ![h] = b] /\ UNCHANGED held
       ELSE Answer(h)
    /\ UNCHANGED <<ledger, outbox>>

Submit(h, b) ==
    /\ pc[h] = "idle"
    /\ \/ /\ command = NoBody
          /\ Goto(h, "insert")
          /\ want' = [want EXCEPT ![h] = b]
          /\ UNCHANGED <<ledger, outbox, held>>
       \/ command # NoBody /\ SubmitExisting(h, b)
    /\ UNCHANGED <<claims, iii>>

\* The unique key (run, idempotency key) admits one insert; the loser rolls back and compares.
SubmitInsert(h) ==
    /\ pc[h] = "insert"
    /\ \/ /\ command = NoBody
          /\ command' = want[h]
          /\ row' = PendingRow /\ lease' = 0
          /\ events' = events \cup {"admin_requested"}
          /\ Goto(h, "claim")
          /\ UNCHANGED <<observed, want, held>>
       \/ command # NoBody /\ SubmitExisting(h, want[h])
    /\ UNCHANGED <<claims, iii>>

\* resume_iii_collection
Resume(h) ==
    /\ pc[h] = "idle" /\ command # NoBody
    /\ Goto(h, "claim")
    /\ UNCHANGED <<ledger, outbox, claims, iii, want, held>>

-----------------------------------------------------------------------------
(* dispatch_collection_attempt                                              *)

\* The WHERE clause of _claim_outbound.  It does not look at cancel_requested_at.
Claimable ==
    /\ row.state \in {"pending", "bridge_unavailable", "dispatching"}
    /\ ~row.cancelled
    /\ lease = 0

Claim(h) ==
    /\ pc[h] = "claim"
    /\ \/ /\ Claimable /\ claims < MaxClaims
          /\ row' = [row EXCEPT !.state = "dispatching"] /\ lease' = Lease
          /\ claims' = claims + 1
          /\ Goto(h, "invoke")
          /\ UNCHANGED <<want, held>>
       \/ /\ ~Claimable
          /\ Answer(h)
          /\ UNCHANGED <<outbox, claims>>
    /\ UNCHANGED <<ledger, iii>>

\* No callback URL, a bad III URL, or the process could not be spawned.
InvokeUnsent(h) ==
    /\ pc[h] = "invoke"
    /\ Goto(h, "unsent")
    /\ UNCHANGED <<ledger, outbox, claims, iii, want, held>>

\* The process is spawned and awaited with a timeout.  From here on III may have the work.
InvokeStart(h) ==
    /\ pc[h] = "invoke"
    /\ sent' = TRUE
    /\ timer' = [timer EXCEPT ![h] = TriggerTimeout]
    /\ Goto(h, "running")
    /\ UNCHANGED <<ledger, outbox, claims, stage, orphan, late, want, held>>

\* Timeout (the process is killed) or a non-zero exit code: unknown; otherwise returned.
InvokeEnd(h) ==
    /\ pc[h] = "running"
    /\ \E label \in {"unknown", "returned"} : Goto(h, label)
    /\ timer' = [timer EXCEPT ![h] = 0]
    /\ UNCHANGED <<ledger, outbox, claims, iii, orphan, late, want, held>>

\* _finish_claim refreshes its copy of the row ...
FinishRefresh(h) ==
    /\ pc[h] \in {"unsent", "unknown", "returned"}
    /\ want' = [want EXCEPT ![h] = pc[h]]
    /\ Copy(h)
    /\ Goto(h, "flush")
    /\ UNCHANGED <<ledger, outbox, claims, iii>>

StateAfter == [unsent |-> "pending", unknown |-> "bridge_unavailable",
               returned |-> "submitted_to_iii"]

\* The state _finish_claim assigns to its copy.
Finished(copy, outcome) ==
    IF copy.requested THEN "cancel_requested"
    ELSE IF copy.state = "dispatching" THEN StateAfter[outcome] ELSE copy.state

\* ... and flushes the columns it changed: a state the copy already had is not written, and
\* after definitely_unsent the row is available, whoever holds it by then.
FinishFlush(h) ==
    /\ pc[h] = "flush"
    /\ LET state == Finished(held[h], want[h]) IN
       row' = [row EXCEPT !.state = IF state = held[h].state THEN @ ELSE state]
    /\ lease' = IF want[h] = "unsent" THEN 0 ELSE lease
    /\ Answer(h)
    /\ UNCHANGED <<ledger, claims, iii>>

\* The lease reckons with a handler that comes from its claim to the trigger, or to the
\* finish of what was never sent, without delay, and kills the trigger at its timeout.
Outstays(h) == NothingStarted(h) \/ (pc[h] = "running" /\ timer[h] = 0)

Tick ==
    /\ lease > 0
    /\ lease' = lease - 1
    /\ timer' = [h \in Calls |-> IF timer[h] > 0 THEN timer[h] - 1 ELSE 0]
    /\ late' = (late \/ \E h \in Calls : Outstays(h))
    /\ UNCHANGED <<ledger, row, claims, iii, orphan, pc, want, held>>

\* The process of a handler ends, or its session fails: nothing it has not committed remains.
\* Nobody kills the trigger process it was waiting for.
Crash(h) ==
    /\ pc[h] # "idle"
    /\ Answer(h)
    /\ timer' = [timer EXCEPT ![h] = 0]
    /\ orphan' \in {orphan, orphan \/ pc[h] = "running"}
    /\ UNCHANGED <<ledger, outbox, claims, iii, late>>

\* External: the last of the triggers nobody waits for ends by itself.
OrphanEnds ==
    /\ orphan
    /\ orphan' = FALSE
    /\ UNCHANGED <<ledger, outbox, claims, iii, timer, late, pc, want, held>>

-----------------------------------------------------------------------------
(* cancel_collection                                                        *)

CancelRead(h) ==
    /\ pc[h] = "idle" /\ command # NoBody
    /\ ~row.requested
    /\ Copy(h)
    /\ Goto(h, "cancel")
    /\ UNCHANGED <<ledger, outbox, claims, iii, want>>

\* Decided on the copy.
CancelsUnsent(copy) == copy.state \in {"pending", "bridge_unavailable"}

\* An event that is already in the log is skipped.
RepeatedIsSkipped(event) == FALSE

\* The event id is fixed and its payload holds the time: appending it again is a conflict,
\* which rolls the transaction of the later cancellation back.
Repeated(event) == event \in events

CancelCommit(h) ==
    /\ pc[h] = "cancel"
    /\ \/ /\ ~Repeated("cancel_requested")
          /\ row' = IF CancelsUnsent(held[h])
                    THEN [row EXCEPT !.requested = TRUE, !.cancelled = TRUE,
                                     !.state = "cancelled"]
                    ELSE [row EXCEPT !.requested = TRUE]
          /\ events' = events \cup {"cancel_requested"}
       \/ Repeated("cancel_requested") /\ UNCHANGED <<row, events>>
    /\ Answer(h)
    /\ UNCHANGED <<command, lease, observed, claims, iii>>

-----------------------------------------------------------------------------
(* ingest_lifecycle                                                         *)

\* A callback is only compared with the callback of its own number.
InOrderUnchecked(s) == observed[s] = NoSummary

\* The highest retained number must be s - 1; what is already retained is answered as a
\* duplicate or a conflict, without a change.
InOrder(s) ==
    /\ \A t \in Sequences123 : t >= s => observed[t] = NoSummary
    /\ s > 1 => observed[s - 1] # NoSummary

LifecycleRead(h, s, c) ==
    /\ pc[h] = "idle" /\ s <= stage
    /\ InOrder(s)
    /\ want' = [want EXCEPT ![h] = <<s, c>>]
    /\ Copy(h)
    /\ Goto(h, "observe")
    /\ UNCHANGED <<ledger, outbox, claims, iii>>

Rank(state) == IF \E s \in Sequences123 : Stage[s] = state
               THEN CHOOSE s \in Sequences123 : Stage[s] = state
               ELSE 0

\* The state advances on a copy that is behind and not cancelled.
Advances(copy, s) == ~copy.requested /\ Rank(copy.state) < s

\* The observation is merged into the one that is retained.
LifecycleCommitUpserts(h) ==
    /\ pc[h] = "observe"
    /\ LET s == want[h][1] IN
       /\ observed' = [observed EXCEPT ![s] = want[h][2]]
       /\ events' = events \cup {Stage[s]}
       /\ row' = IF Advances(held[h], s) THEN [row EXCEPT !.state = Stage[s]] ELSE row
    /\ Answer(h)
    /\ UNCHANGED <<command, lease, claims, iii>>

\* The observation, its event and the state are one transaction; a callback that was
\* overtaken by its own replay is rolled back.
LifecycleCommit(h) ==
    /\ pc[h] = "observe"
    /\ LET s == want[h][1] IN
       \/ /\ ~Repeated(Stage[s])
          /\ observed' = [observed EXCEPT ![s] = want[h][2]]
          /\ events' = events \cup {Stage[s]}
          /\ row' = IF Advances(held[h], s) THEN [row EXCEPT !.state = Stage[s]] ELSE row
       \/ Repeated(Stage[s]) /\ UNCHANGED <<observed, events, row>>
    /\ Answer(h)
    /\ UNCHANGED <<command, lease, claims, iii>>

\* External: the bridge accepts, starts the collector and has its result.
BridgeAdvances ==
    /\ sent /\ stage < 3
    /\ stage' = stage + 1
    /\ UNCHANGED <<ledger, outbox, claims, sent, pc, want, held>>

-----------------------------------------------------------------------------
HandlerStep(h) ==
    \/ \E b \in Bodies : Submit(h, b)
    \/ SubmitInsert(h) \/ Resume(h) \/ Claim(h) \/ InvokeUnsent(h)
    \/ FinishRefresh(h) \/ FinishFlush(h)
    \/ CancelRead(h) \/ CancelCommit(h)
    \/ \E s \in Sequences123, c \in Summaries : LifecycleRead(h, s, c)
    \/ LifecycleCommit(h)

IIINext ==
    \/ \E h \in Calls : HandlerStep(h) /\ UNCHANGED local
    \/ \E h \in Calls : InvokeStart(h) \/ InvokeEnd(h) \/ Crash(h)
    \/ OrphanEnds \/ Tick
    \/ BridgeAdvances /\ UNCHANGED local

IIISpec == IIIInit /\ [][IIINext]_iiiVars

-----------------------------------------------------------------------------
(* collection_status, for an attempt without collector report and receipt   *)

StatusState == IF row.requested /\ row.state # "cancelled" THEN "cancel_requested" ELSE row.state

\* side_effect_uncertainty
Uncertain == StatusState \notin {"cancelled", "pending"}

-----------------------------------------------------------------------------
(* Properties                                                               *)

IIITypeOK ==
    /\ command \in Bodies \cup {NoBody}
    /\ row \in Row
    /\ lease \in 0 .. Lease
    /\ observed \in [Sequences123 -> Summaries \cup {NoSummary}]
    /\ events \subseteq {"admin_requested", "cancel_requested"} \cup {Stage[s] : s \in Sequences123}
    /\ claims \in 0 .. MaxClaims
    /\ sent \in BOOLEAN
    /\ stage \in 0 .. 3
    /\ timer \in [Calls -> 0 .. TriggerTimeout]
    /\ orphan \in BOOLEAN /\ late \in BOOLEAN
    /\ pc \in [Calls -> PCs]
    /\ want \in [Calls -> Inputs]
    /\ held \in [Calls -> Row]

(* As long as no handler has outstayed what the lease reckons with, two    *)
(* handlers never trigger the attempt at once, whatever they submit,       *)
(* resume, cancel and finish and wherever they die: a lease never runs out *)
(* under a handler that keeps its timeout, and a finish that sent nothing  *)
(* frees no lease but its own (_claim_outbound, _finish_claim).            *)
OneTriggerAtOnce == ~late => \A g, h \in Triggering : g = h

(* A submission that goes on to the dispatch has its own payload committed *)
(* as the command, however many submissions race for the idempotency key:  *)
(* no caller is answered with a collection it did not ask for.             *)
IntentIsCommitted ==
    \A h \in Calls :
        pc[h] \in {"claim", "invoke", "running"} =>
            /\ command # NoBody
            /\ "admin_requested" \in events
            /\ want[h] \in {NoBody, command}

(* The run's event log and the ledger tell the same story: the stages in   *)
(* the log are exactly the retained observations and the recorded          *)
(* cancellation, and the observations have no gap, although callbacks come *)
(* repeated, out of order and on several handlers at once.                 *)
LogMatchesLedger ==
    /\ \A s \in Sequences123 : Stage[s] \in events <=> observed[s] # NoSummary
    /\ \A s \in 2 .. 3 : observed[s] # NoSummary => observed[s - 1] # NoSummary
    /\ "cancel_requested" \in events <=> row.requested

(* An open cancellation stays open: once the status answers                *)
(* cancel_requested (work may be in flight), no later claim, finish,       *)
(* callback or second cancel request turns it into the certain answer      *)
(* "cancelled", and nothing withdraws it.                                  *)
OpenCancellationStays ==
    [][command # NoBody /\ StatusState = "cancel_requested"
        => StatusState' = "cancel_requested"]_iiiVars

(* A retained observation is never replaced, by a replay with a changed    *)
(* summary or by a callback that was checked before it was there.          *)
ObservationStands ==
    [][\A s \in Sequences123 : observed[s] # NoSummary => observed'[s] = observed[s]]_iiiVars

(* What the specification of the III vertical asks for: an answer without  *)
(* side_effect_uncertainty means that nothing was sent to III.             *)
CertainMeansUnsent == command # NoBody /\ ~Uncertain => ~sent

(* What the comment of _claim_outbound concludes from the length of the    *)
(* lease: an expired claim has no still-running local trigger, and the     *)
(* attempt can be delivered again.                                         *)
ExpiredClaimIsQuiet ==
    ~late /\ row.state = "dispatching" /\ lease = 0
        => ~orphan /\ \A h \in Calls : pc[h] # "running"
=============================================================================
