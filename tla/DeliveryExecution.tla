-------------------------- MODULE DeliveryExecution --------------------------
(***************************************************************************)
(* Execution of one frozen delivery decision                               *)
(* (backend/workflow/delivery_execution.py): concurrent execute, cancel    *)
(* and reconcile calls on one durable row, its append-only evidence, and   *)
(* the controlled receiver (backend/api/v1/controlled_receiver_routes.py). *)
(*                                                                         *)
(* A call is a sequence of database reads and commits with network I/O and *)
(* sleeps between them.  SELECT ... FOR UPDATE holds the row until the     *)
(* commit on PostgreSQL (RowLocks) and holds nothing on SQLite, where the  *)
(* clause is not rendered.  An ORM flush writes the attributes that differ *)
(* from the copy the session has read, WHERE id = ... only.                *)
(***************************************************************************)
EXTENDS Naturals, FiniteSets

CONSTANTS
    Callers,      \* API calls; an id also stands for the lease tokens it draws
    NoCaller,     \* lease_token IS NULL, or no row lock held
    MaxAttempts,  \* retry.maxAttempts of the frozen policy
    RowLocks      \* TRUE: PostgreSQL, FALSE: SQLite

ASSUME DeliveryAssumption ==
    /\ NoCaller \notin Callers
    /\ MaxAttempts \in Nat \ {0}
    /\ RowLocks \in BOOLEAN

VARIABLES
    row,      \* the delivery_executions row
    stale,    \* lease_acquired_at is 60 seconds old
    results,  \* delivery_execution_results, by attempt number
    evidence, \* outcomes of delivery_execution_reconciliations
    lock,     \* holder of the row lock
    call,     \* the calls in progress
    wire,     \* posts the receiver has not processed
    posts,    \* number of posts per attempt (2 stands for more)
    durable   \* ControlledReceiverDelivery.durable_status

vars == <<row, stale, results, evidence, lock, call, wire, posts, durable>>
ledger == <<results, evidence>>
network == <<wire, posts, durable>>

Attempts == 1..MaxAttempts
Receipts == {"accepted", "rejected"}
Outcomes == Receipts \cup {"none", "unknown"}

Row == [state : {"none", "pending", "reserved", "in-flight",
                 "completed", "blocked", "cancelled"},
        token : Callers \cup {NoCaller},
        sent : BOOLEAN,                 \* send_started_at
        attempt : 0..MaxAttempts,       \* reserved_attempt_number
        cancel : BOOLEAN,               \* cancel_requested_at
        final : Outcomes]               \* final_outcome

NoRow == [state |-> "none", token |-> NoCaller, sent |-> FALSE,
          attempt |-> 0, cancel |-> FALSE, final |-> "none"]

\* What one attempt observed: a verified receipt; a timeout, network error or
\* 5xx; an unverified answer below 500; a ControlledReceiverSecurityError; a
\* lease found after a crash.
Responses == Receipts \cup {"none", "retryable", "unverified", "protocol-error"}
Observations == Responses \cup {"crash-ambiguous"}

CallPCs == {"idle",
            "insert", "reset", "ambiguous", "reopen", "refresh", "cancelWrite",
            "reserve", "headers", "headersWrite", "boundaryWrite",
            "boundaryCancel", "post", "waiting", "result", "record",
            "cancelFlush", "query", "reconRefresh", "reconWrite"}

\* copy: the row as the session last read it; retry: the local variable of the
\* retry loop, unbound until an attempt assigns it.
Call == [at : CallPCs, copy : Row, n : 0..MaxAttempts,
         response : Responses, retry : {"unbound", "yes", "no"}]

IdleCall == [at |-> "idle", copy |-> NoRow, n |-> 0,
             response |-> "none", retry |-> "unbound"]

TypeOK ==
    /\ row \in Row
    /\ stale \in BOOLEAN
    /\ results \in [Attempts -> Observations]
    /\ evidence \in SUBSET Receipts
    /\ lock \in Callers \cup {NoCaller}
    /\ call \in [Callers -> Call]
    /\ wire \in SUBSET (Callers \X Attempts)
    /\ posts \in [Attempts -> 0..2]
    /\ durable \in Receipts \cup {"none"}

Init ==
    /\ row = NoRow
    /\ stale = FALSE
    /\ results = [a \in Attempts |-> "none"]
    /\ evidence = {}
    /\ lock = NoCaller
    /\ call = [c \in Callers |-> IdleCall]
    /\ wire = {}
    /\ posts = [a \in Attempts |-> 0]
    /\ durable = "none"

-----------------------------------------------------------------------------
(* Transactions *)

MayLock(c) == lock = NoCaller
Holds(c) == IF RowLocks THEN c ELSE NoCaller
Release(c) == IF lock = c THEN NoCaller ELSE lock

\* An UPDATE waits for a row lock another transaction holds.
MayWrite(c) == lock \in {c, NoCaller}

\* The columns of an ORM flush: those in which new differs from the copy.
Flushed(copy, new) ==
    [state   |-> IF new.state # copy.state THEN new.state ELSE row.state,
     token   |-> IF new.token # copy.token THEN new.token ELSE row.token,
     sent    |-> IF new.sent # copy.sent THEN new.sent ELSE row.sent,
     attempt |-> IF new.attempt # copy.attempt THEN new.attempt ELSE row.attempt,
     cancel  |-> IF new.cancel # copy.cancel THEN new.cancel ELSE row.cancel,
     final   |-> IF new.final # copy.final THEN new.final ELSE row.final]

Commit(c, new) ==
    /\ MayWrite(c)
    /\ row' = Flushed(call[c].copy, new)
    /\ lock' = Release(c)

\* A read that goes on to step at, under a lock or not.
ReadTo(c, at) == call' = [call EXCEPT ![c].at = at, ![c].copy = row]
Goto(c, at) == call' = [call EXCEPT ![c].at = at, ![c].copy = NoRow]
Return(c) == call' = [call EXCEPT ![c] = IdleCall]

\* _record: the INSERT meets uq_delivery_execution_result_attempt.
Unrecorded(a) == results[a] = "none"
Recorded(a, o) == results' = [results EXCEPT ![a] = o]

Prior == Cardinality({a \in Attempts : results[a] # "none"})

WithoutLease(r) == [r EXCEPT !.token = NoCaller, !.sent = FALSE, !.attempt = 0]
Finalized(r, state, outcome) == [r EXCEPT !.state = state, !.final = outcome]

-----------------------------------------------------------------------------
(* execute_delivery: opening the claim *)

StartExecute(c) ==
    /\ call[c].at = "idle"
    /\ row.token # c                     \* lease tokens are fresh
    /\ \A a \in Attempts : <<c, a>> \notin wire

\* _claim finds no row: the INSERT and the reservation commit together.
OpenNew(c) ==
    /\ StartExecute(c) /\ MayLock(c)
    /\ row.state = "none"
    /\ call' = [call EXCEPT ![c].at = "insert"]
    /\ lock' = Holds(c)
    /\ UNCHANGED <<row, stale, ledger, network>>

\* A second INSERT for the decision: the caller reads the winner's row and returns.
Insert(c) ==
    /\ call[c].at = "insert"
    /\ \/ /\ row.state = "none"
          /\ row' = [NoRow EXCEPT !.state = "reserved", !.token = c, !.attempt = 1]
          /\ stale' = FALSE
          /\ call' = [call EXCEPT ![c].at = "headers", ![c].n = 1]
       \/ /\ row.state # "none"
          /\ Return(c)
          /\ UNCHANGED <<row, stale>>
    /\ lock' = Release(c)
    /\ UNCHANGED <<ledger, network>>

\* Mutant: recovery does not ask whether the stale lease had started to send.
OpenLeasedAsUnsent(c) ==
    /\ StartExecute(c) /\ MayLock(c)
    /\ row.state # "none" /\ row.final = "none" /\ row.token # NoCaller
    /\ stale
    /\ ReadTo(c, "reset")
    /\ lock' = Holds(c)
    /\ UNCHANGED <<row, stale, ledger, network>>

\* An unfinished row under a lease: live leases are left alone, stale ones taken.
OpenLeased(c) ==
    /\ StartExecute(c) /\ MayLock(c)
    /\ row.state # "none" /\ row.final = "none" /\ row.token # NoCaller
    /\ stale
    /\ ReadTo(c, IF row.state = "reserved" /\ ~row.sent THEN "reset" ELSE "ambiguous")
    /\ lock' = Holds(c)
    /\ UNCHANGED <<row, stale, ledger, network>>

\* A stale reservation that never started to send is given back.
Reset(c) ==
    LET new == [call[c].copy EXCEPT !.state = "pending", !.token = NoCaller,
                                    !.attempt = 0]
    IN  /\ call[c].at = "reset"
        /\ Commit(c, new)
        /\ call' = [call EXCEPT ![c].at = "reopen", ![c].copy = new]
        /\ UNCHANGED <<stale, ledger, network>>

\* Mutant: the ambiguous attempt is finalized without its result row.
AmbiguousUnrecorded(c) ==
    /\ call[c].at = "ambiguous"
    /\ Commit(c, Finalized(WithoutLease(call[c].copy), "blocked", "unknown"))
    /\ Return(c)
    /\ UNCHANGED <<stale, ledger, network>>

\* Any other stale lease may have sent: the attempt is recorded as unknown.
Ambiguous(c) ==
    LET copy == call[c].copy
        reserved == IF copy.attempt # 0 THEN copy.attempt ELSE Prior + 1
    IN  /\ call[c].at = "ambiguous"
        /\ \/ /\ Unrecorded(reserved)
              /\ Recorded(reserved, "crash-ambiguous")
              /\ Commit(c, Finalized(WithoutLease(copy), "blocked", "unknown"))
           \/ /\ ~Unrecorded(reserved)
              /\ lock' = Release(c)
              /\ UNCHANGED <<row, results>>
        /\ Return(c)
        /\ UNCHANGED <<stale, evidence, network>>

\* The recursive call with _allow_existing_pending: the session still holds the
\* object it has just committed, so the locked SELECT does not reload it.
Reopen(c) ==
    /\ call[c].at = "reopen" /\ MayLock(c)
    /\ \/ /\ call[c].copy.cancel
          /\ call' = [call EXCEPT ![c].at = "cancelWrite"]
          /\ lock' = Holds(c)
       \/ /\ ~call[c].copy.cancel /\ Prior < MaxAttempts
          /\ call' = [call EXCEPT ![c].at = "refresh", ![c].n = Prior + 1]
          /\ lock' = Holds(c)
       \/ /\ ~call[c].copy.cancel /\ Prior = MaxAttempts    \* "loop exhausted"
          /\ Return(c)
          /\ UNCHANGED lock
    /\ UNCHANGED <<row, stale, ledger, network>>

-----------------------------------------------------------------------------
(* execute_delivery: one iteration of the retry loop *)

\* db.refresh at the head of the loop.
Refresh(c) ==
    /\ call[c].at = "refresh"
    /\ ReadTo(c, IF row.cancel THEN "cancelWrite" ELSE "reserve")
    /\ UNCHANGED <<row, stale, ledger, lock, network>>

CancelWrite(c) ==
    /\ call[c].at = "cancelWrite"
    /\ Commit(c, Finalized(call[c].copy, "cancelled", "unknown"))
    /\ Return(c)
    /\ UNCHANGED <<stale, ledger, network>>

\* The pre-send reservation.
Reserve(c) ==
    /\ call[c].at = "reserve"
    /\ Commit(c, [call[c].copy EXCEPT !.state = "reserved", !.token = c,
                                      !.sent = FALSE, !.attempt = call[c].n])
    /\ stale' = FALSE
    /\ Goto(c, "headers")
    /\ UNCHANGED <<ledger, network>>

StillMine(c) == row.final = "none" /\ row.token = c

\* request_headers raises: the row is refreshed, then the attempt is closed.
HeadersFail(c) ==
    /\ call[c].at = "headers"
    /\ \/ StillMine(c) /\ ReadTo(c, "headersWrite")
       \/ ~StillMine(c) /\ Return(c)
    /\ UNCHANGED <<row, stale, ledger, lock, network>>

HeadersWrite(c) ==
    /\ call[c].at = "headersWrite"
    /\ \/ /\ Unrecorded(call[c].n)
          /\ Recorded(call[c].n, "protocol-error")
          /\ Commit(c, Finalized(WithoutLease(call[c].copy), "blocked", "unknown"))
       \/ ~Unrecorded(call[c].n) /\ UNCHANGED <<row, results, lock>>
    /\ Return(c)
    /\ UNCHANGED <<stale, evidence, network>>

\* Mutant: cancel_requested_at is not looked at again before the send.
BoundaryReadUncancelled(c) ==
    /\ call[c].at = "headers" /\ MayLock(c)
    /\ \/ /\ StillMine(c)
          /\ ReadTo(c, "boundaryWrite")
          /\ lock' = Holds(c)
       \/ ~StillMine(c) /\ Return(c) /\ UNCHANGED lock
    /\ UNCHANGED <<row, stale, ledger, network>>

\* SELECT ... FOR UPDATE and refresh before the send.
BoundaryRead(c) ==
    /\ call[c].at = "headers" /\ MayLock(c)
    /\ \/ /\ StillMine(c)
          /\ ReadTo(c, IF row.cancel THEN "boundaryCancel" ELSE "boundaryWrite")
          /\ lock' = Holds(c)
       \/ ~StillMine(c) /\ Return(c) /\ UNCHANGED lock
    /\ UNCHANGED <<row, stale, ledger, network>>

BoundaryCancel(c) ==
    /\ call[c].at = "boundaryCancel"
    /\ Commit(c, Finalized(WithoutLease(call[c].copy), "cancelled", "unknown"))
    /\ Return(c)
    /\ UNCHANGED <<stale, ledger, network>>

BoundaryWrite(c) ==
    /\ call[c].at = "boundaryWrite"
    /\ Commit(c, [call[c].copy EXCEPT !.state = "in-flight", !.sent = TRUE])
    /\ Goto(c, "post")
    /\ UNCHANGED <<stale, ledger, network>>

\* pinned_post puts the request on the wire, or refuses the address first.
Post(c) ==
    LET n == call[c].n IN
    /\ call[c].at = "post"
    /\ posts' = [posts EXCEPT ![n] = IF @ < 2 THEN @ + 1 ELSE @]
    /\ wire' = wire \cup {<<c, n>>}
    /\ call' = [call EXCEPT ![c].at = "waiting"]
    /\ UNCHANGED <<row, stale, ledger, lock, durable>>

\* How a response leaves the loop's local variables; a security error does not
\* assign retry.
Answered(c, response) ==
    call' = [call EXCEPT ![c].at = "result", ![c].response = response,
                         ![c].retry = CASE response = "retryable" -> "yes"
                                        [] response = "unverified" -> "no"
                                        [] OTHER -> @]

PostRefused(c) ==
    /\ call[c].at = "post"
    /\ Answered(c, "protocol-error")
    /\ UNCHANGED <<row, stale, ledger, lock, network>>

\* httpx.TimeoutException or HTTPError; the request may still arrive.
Timeout(c) ==
    /\ call[c].at = "waiting"
    /\ Answered(c, "retryable")
    /\ UNCHANGED <<row, stale, ledger, lock, network>>

\* The receiver processes a post: the first one fixes durable_status, a
\* duplicate returns the stored receipt, a failure stores nothing.
Arrives(c, n) ==
    /\ <<c, n>> \in wire
    /\ wire' = wire \ {<<c, n>>}
    /\ durable' \in IF durable = "none" THEN Receipts \cup {"none"} ELSE {durable}
    /\ \/ UNCHANGED call
       \/ /\ call[c].at = "waiting" /\ call[c].n = n
          /\ \E r \in {durable', "retryable", "unverified", "protocol-error"} \ {"none"} :
                Answered(c, r)
    /\ UNCHANGED <<row, stale, ledger, lock, posts>>

\* db.refresh after the response.
ResultRead(c) ==
    /\ call[c].at = "result"
    /\ \/ StillMine(c) /\ ReadTo(c, "record")
       \/ ~StillMine(c) /\ Return(c)
    /\ UNCHANGED <<row, stale, ledger, lock, network>>

\* Mutant: an answer below 500 counts as accepted without its signed receipt.
AfterResultUnverified(c) ==
    LET free == WithoutLease(call[c].copy)
        r == call[c].response
    IN  IF r \in Receipts THEN Finalized(free, "completed", r)
        ELSE IF r = "unverified" THEN Finalized(free, "completed", "accepted")
        ELSE Finalized(free, IF call[c].copy.cancel THEN "cancelled" ELSE "blocked", "unknown")

\* The row after _record, by the order of the checks that follow it.
AfterResult(c) ==
    LET free == WithoutLease(call[c].copy)
        r == call[c].response
    IN  IF r \in Receipts THEN Finalized(free, "completed", r)
        ELSE Finalized(free, IF call[c].copy.cancel THEN "cancelled" ELSE "blocked", "unknown")

\* The attempt ends the delivery: a receipt, a cancellation seen by the refresh,
\* a response that is not retried, or the last attempt.
Ends(c) ==
    \/ call[c].response \in Receipts
    \/ call[c].copy.cancel
    \/ call[c].retry = "no"
    \/ call[c].retry = "yes" /\ call[c].n = MaxAttempts

Unbound(c) ==
    call[c].response \notin Receipts /\ ~call[c].copy.cancel /\ call[c].retry = "unbound"

Record(c) ==
    LET n == call[c].n IN
    /\ call[c].at = "record"
    /\ \/ /\ Unrecorded(n) /\ Ends(c)
          /\ Recorded(n, call[c].response)
          /\ Commit(c, AfterResult(c))
          /\ Return(c)
       \/ /\ Unrecorded(n) /\ ~Ends(c) /\ ~Unbound(c)
          /\ Recorded(n, call[c].response)
          /\ Commit(c, WithoutLease(call[c].copy))
          /\ call' = [call EXCEPT ![c] = [IdleCall EXCEPT !.at = "refresh", !.n = n + 1,
                                                          !.retry = call[c].retry]]
       \/ /\ ~Unrecorded(n) \/ Unbound(c)       \* the exception rolls back
          /\ Return(c)
          /\ UNCHANGED <<row, results, lock>>
    /\ UNCHANGED <<stale, evidence, network>>

-----------------------------------------------------------------------------
(* cancel_delivery_execution and reconcile_delivery_execution *)

CancelRead(c) ==
    /\ call[c].at = "idle" /\ MayLock(c)
    /\ row.state # "none" /\ row.final = "none"
    /\ ReadTo(c, "cancelFlush")
    /\ lock' = Holds(c)
    /\ UNCHANGED <<row, stale, ledger, network>>

CancelFlush(c) ==
    LET requested == [call[c].copy EXCEPT !.cancel = TRUE] IN
    /\ call[c].at = "cancelFlush"
    /\ Commit(c, IF requested.state = "in-flight" THEN requested
                 ELSE Finalized(requested, "cancelled", "unknown"))
    /\ Return(c)
    /\ UNCHANGED <<stale, ledger, network>>

ReconcileRead(c) ==
    /\ call[c].at = "idle"
    /\ row.final = "unknown"
    /\ Goto(c, "query")
    /\ UNCHANGED <<row, stale, ledger, lock, network>>

\* Mutant: the status is polled until the receiver knows the delivery.
QueryPolls(c) ==
    /\ call[c].at = "query"
    /\ \/ /\ durable # "none"
          /\ call' = [call EXCEPT ![c].at = "reconRefresh", ![c].response = durable]
       \/ durable = "none" /\ UNCHANGED call
    /\ UNCHANGED <<row, stale, ledger, lock, network>>

\* The status route answers with the stored receipt; 404 or a failure is a 409.
Query(c) ==
    /\ call[c].at = "query"
    /\ \/ /\ durable # "none"
          /\ call' = [call EXCEPT ![c].at = "reconRefresh", ![c].response = durable]
       \/ Return(c)
    /\ UNCHANGED <<row, stale, ledger, lock, network>>

ReconcileRefresh(c) ==
    /\ call[c].at = "reconRefresh"
    /\ \/ row.final = "unknown" /\ ReadTo(c, "reconWrite")
       \/ row.final # "unknown" /\ Return(c)
    /\ UNCHANGED <<row, stale, ledger, lock, network>>

ReconcileWrite(c) ==
    /\ call[c].at = "reconWrite"
    /\ Commit(c, Finalized(call[c].copy, "completed", call[c].response))
    /\ evidence' = evidence \cup {call[c].response}
    /\ Return(c)
    /\ UNCHANGED <<stale, results, network>>

-----------------------------------------------------------------------------
(* Environment *)

\* The process dies or the session fails: the open transaction rolls back.
Crash(c) ==
    /\ call[c].at # "idle"
    /\ Return(c)
    /\ lock' = Release(c)
    /\ UNCHANGED <<row, stale, ledger, network>>

\* Sixty seconds pass on an unfinished lease.
LeaseAges ==
    /\ row.token # NoCaller /\ row.final = "none" /\ ~stale
    /\ stale' = TRUE
    /\ UNCHANGED <<row, ledger, lock, call, network>>

Opening(c) == OpenNew(c) \/ Insert(c) \/ OpenLeased(c) \/ Reset(c) \/ Ambiguous(c) \/ Reopen(c)

Sending(c) ==
    \/ Refresh(c) \/ CancelWrite(c) \/ Reserve(c)
    \/ HeadersFail(c) \/ HeadersWrite(c)
    \/ BoundaryRead(c) \/ BoundaryCancel(c) \/ BoundaryWrite(c)
    \/ Post(c) \/ PostRefused(c) \/ Timeout(c)
    \/ (\E n \in Attempts : Arrives(c, n))
    \/ ResultRead(c) \/ Record(c)

Controlling(c) ==
    \/ CancelRead(c) \/ CancelFlush(c)
    \/ ReconcileRead(c) \/ Query(c) \/ ReconcileRefresh(c) \/ ReconcileWrite(c)

Next ==
    \/ \E c \in Callers : Opening(c) \/ Sending(c) \/ Controlling(c) \/ Crash(c)
    \/ LeaseAges

Spec == Init /\ [][Next]_vars

(***************************************************************************)
(* Fairness: a call that is waiting for the database, the network timeout  *)
(* or its backoff goes on; PostgreSQL grants a row lock in queue order, so *)
(* a step that is enabled again and again is taken.  Nothing is assumed    *)
(* about clients, crashes or the receiver.                                 *)
(***************************************************************************)
Progress(c) ==
    \/ Insert(c) \/ Reset(c) \/ Ambiguous(c) \/ Reopen(c)
    \/ Refresh(c) \/ CancelWrite(c) \/ Reserve(c) \/ HeadersWrite(c)
    \/ BoundaryRead(c) \/ BoundaryCancel(c) \/ BoundaryWrite(c)
    \/ Post(c) \/ Timeout(c) \/ ResultRead(c) \/ Record(c)
    \/ CancelFlush(c) \/ Query(c) \/ ReconcileRefresh(c) \/ ReconcileWrite(c)

FairSpec == Spec /\ \A c \in Callers : SF_vars(Progress(c))

-----------------------------------------------------------------------------
(* Properties *)

(***************************************************************************)
(* "Cancellation before this locked boundary cannot cause a post": once    *)
(* cancel_requested_at is set and no send has started, none starts, in any *)
(* later attempt and by any caller.                                        *)
(***************************************************************************)
CancelBeforeBoundary ==
    [][(row.cancel /\ ~row.sent) => ~row'.sent]_vars

(***************************************************************************)
(* The locals of a call are assigned before they are used: the retry loop  *)
(* works on an attempt number of the policy, however it was entered or     *)
(* left, and a reconciliation past its query holds a receipt.              *)
(***************************************************************************)
LoopPCs == {"refresh", "reserve", "headers", "headersWrite", "boundaryWrite",
            "boundaryCancel", "post", "waiting", "result", "record"}

LocalsAssigned ==
    \A c \in Callers :
        /\ call[c].at \in LoopPCs => call[c].n \in Attempts
        /\ call[c].at \in {"reconRefresh", "reconWrite"} => call[c].response \in Receipts

(***************************************************************************)
(* What FOR UPDATE is for: between the locked read of a call and its       *)
(* commit the row is exactly the copy the call decides on, although other  *)
(* calls flush without locking first; and a call about to cross the send   *)
(* boundary has seen no cancellation.                                      *)
(***************************************************************************)
LockedPCs == {"insert", "reset", "ambiguous", "boundaryWrite", "boundaryCancel", "cancelFlush"}

LockedCopyIsCurrent ==
    RowLocks => \A c \in Callers :
        /\ call[c].at \in LockedPCs =>
               lock = c /\ (call[c].at # "insert" => call[c].copy = row)
        /\ call[c].at = "boundaryWrite" => ~call[c].copy.cancel

(***************************************************************************)
(* Concurrent, recovered and retried executions never send one attempt     *)
(* number twice.                                                           *)
(***************************************************************************)
AttemptPostedOnce == \A a \in Attempts : posts[a] <= 1

(***************************************************************************)
(* No send is forgotten: an attempt on the wire has its immutable result,  *)
(* or the row still shows it as the started attempt of a lease.            *)
(***************************************************************************)
EveryPostIsAccounted ==
    \A a \in Attempts : posts[a] > 0 =>
        results[a] # "none" \/ (row.sent /\ row.attempt = a /\ row.token # NoCaller)

(***************************************************************************)
(* accepted and rejected come only from the receiver's durable decision    *)
(* and are backed by the evidence tables, whichever of the sender, a late  *)
(* answer or a reconciliation wrote them.                                  *)
(***************************************************************************)
OutcomeIsReceipted ==
    row.final \in Receipts =>
        /\ durable = row.final
        /\ row.final \in evidence \/ \E a \in Attempts : results[a] = row.final

(***************************************************************************)
(* Every execute, cancel and reconcile call returns: neither the row lock  *)
(* held across statements, the takeover recursion nor the retry loop keeps *)
(* one waiting for ever.                                                   *)
(***************************************************************************)
CallsReturn == \A c \in Callers : (call[c].at # "idle") ~> (call[c].at = "idle")
=============================================================================
