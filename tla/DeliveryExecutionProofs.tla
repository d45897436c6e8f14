----------------------- MODULE DeliveryExecutionProofs -----------------------
(***************************************************************************)
(* Proofs about DeliveryExecution for any number of callers and attempts:  *)
(* type correctness, the locking discipline, that outcomes are backed by   *)
(* receipts, and, where rows are locked (PostgreSQL), that a cancellation  *)
(* before the send boundary holds, that an attempt is sent once and that   *)
(* no send is forgotten.                                                   *)
(***************************************************************************)
EXTENDS DeliveryExecution, FiniteSetTheorems, TLAPS

USE DeliveryAssumption

-----------------------------------------------------------------------------
(* Rows *)

\* The literals the rows and calls are compared with.
LEMMA RowLiterals ==
    /\ NoRow \in Row
    /\ IdleCall \in Call
  BY DEF NoRow, Row, IdleCall, Call, CallPCs, Responses, Receipts, Outcomes

\* An ORM flush of a well-typed copy leaves a well-typed row.
LEMMA FlushedType ==
    ASSUME row \in Row, NEW copy \in Row, NEW new \in Row
    PROVE  Flushed(copy, new) \in Row
  BY DEF Flushed, Row

\* Assigning one column keeps a row well typed.
LEMMA RowFields ==
    ASSUME NEW r \in Row
    PROVE  /\ \A s \in {"none", "pending", "reserved", "in-flight", "completed",
                       "blocked", "cancelled"} : [r EXCEPT !.state = s] \in Row
           /\ \A t \in Callers \cup {NoCaller} : [r EXCEPT !.token = t] \in Row
           /\ \A b \in BOOLEAN : [r EXCEPT !.sent = b] \in Row
           /\ \A n \in 0..MaxAttempts : [r EXCEPT !.attempt = n] \in Row
           /\ [r EXCEPT !.cancel = TRUE] \in Row
           /\ \A o \in Outcomes : [r EXCEPT !.final = o] \in Row
  BY DEF Row

\* Clearing the lease columns and finalizing keep a row well typed.
LEMMA RowUpdates ==
    ASSUME NEW r \in Row
    PROVE  /\ WithoutLease(r) \in Row
           /\ \A s \in {"blocked", "completed", "cancelled"}, o \in Outcomes :
                 Finalized(r, s, o) \in Row
<1>1. WithoutLease(r) \in Row
  <2>1. 0 \in 0..MaxAttempts
    OBVIOUS
  <2> QED
    BY <2>1, RowFields DEF WithoutLease
<1>2. ASSUME NEW s \in {"blocked", "completed", "cancelled"}, NEW o \in Outcomes
      PROVE  Finalized(r, s, o) \in Row
  BY <1>2, RowFields DEF Finalized
<1> QED
  BY <1>1, <1>2

\* len(prior) is a number.
LEMMA PriorType == Prior \in Nat
<1>1. IsFiniteSet(Attempts)
  BY FS_Interval DEF Attempts
<1>2. IsFiniteSet({a \in Attempts : results[a] # "none"})
  BY <1>1, FS_Subset
<1> QED
  BY <1>2, FS_CardinalityType DEF Prior

-----------------------------------------------------------------------------
(* Type correctness *)

\* A commit keeps the row and the lock well typed.
LEMMA CommitType ==
    ASSUME TypeOK, NEW c \in Callers, NEW new \in Row, Commit(c, new)
    PROVE  row' \in Row /\ lock' \in Callers \cup {NoCaller}
<1>1. call[c].copy \in Row /\ row \in Row
  BY DEF TypeOK, Call
<1>2. Flushed(call[c].copy, new) \in Row
  BY <1>1, FlushedType
<1> QED
  BY <1>2 DEF Commit, Release, TypeOK

\* Assigning one field of one call keeps the calls well typed.
LEMMA CallFields ==
    ASSUME NEW f \in [Callers -> Call], NEW c \in Callers
    PROVE  /\ [f EXCEPT ![c] = IdleCall] \in [Callers -> Call]
           /\ \A at \in CallPCs : [f EXCEPT ![c].at = at] \in [Callers -> Call]
           /\ \A r \in Row : [f EXCEPT ![c].copy = r] \in [Callers -> Call]
           /\ \A n \in 0..MaxAttempts : [f EXCEPT ![c].n = n] \in [Callers -> Call]
           /\ \A a \in Responses : [f EXCEPT ![c].response = a] \in [Callers -> Call]
           /\ \A q \in {"unbound", "yes", "no"} : [f EXCEPT ![c].retry = q] \in [Callers -> Call]
  BY RowLiterals DEF Call

\* Returning, moving on and reading the row keep the calls well typed.
LEMMA CallType ==
    ASSUME TypeOK, NEW c \in Callers
    PROVE  /\ [call EXCEPT ![c] = IdleCall] \in [Callers -> Call]
           /\ \A at \in CallPCs :
                 /\ [call EXCEPT ![c].at = at, ![c].copy = row] \in [Callers -> Call]
                 /\ [call EXCEPT ![c].at = at, ![c].copy = NoRow] \in [Callers -> Call]
                 /\ [call EXCEPT ![c].at = at] \in [Callers -> Call]
  BY CallFields, RowLiterals DEF TypeOK

\* The opening of an execution.
LEMMA OpeningType ==
    ASSUME TypeOK, NEW c \in Callers, Opening(c)
    PROVE  TypeOK'
<1> USE DEF CallPCs
<1>0. call[c] \in Call /\ call[c].copy \in Row
  BY DEF TypeOK, Call
<1>1. CASE OpenNew(c)
  BY <1>1, CallType DEF OpenNew, Holds, TypeOK, ledger, network
<1>2. CASE Insert(c)
  <2>1. row' \in Row
    <3>1. 1 \in 0..MaxAttempts
      OBVIOUS
    <3>2. [NoRow EXCEPT !.state = "reserved", !.token = c, !.attempt = 1] \in Row
      BY <3>1, RowLiterals, RowFields
    <3> QED
      BY <1>2, <3>2 DEF Insert, TypeOK
  <2>2. call' \in [Callers -> Call]
    <3>1. 1 \in 0..MaxAttempts
      OBVIOUS
    <3>2. [call EXCEPT ![c].at = "headers", ![c].n = 1] \in [Callers -> Call]
      BY <3>1, CallFields DEF TypeOK
    <3>3. [call EXCEPT ![c] = IdleCall] \in [Callers -> Call]
      BY CallType
    <3> QED
      BY <1>2, <3>2, <3>3 DEF Insert, Return
  <2> QED
    BY <1>2, <2>1, <2>2 DEF Insert, Release, TypeOK, ledger, network
<1>3. CASE OpenLeased(c)
  BY <1>3, CallType DEF OpenLeased, ReadTo, Holds, TypeOK, ledger, network
<1>4. CASE Reset(c)
  <2> DEFINE new == [call[c].copy EXCEPT !.state = "pending", !.token = NoCaller,
                                         !.attempt = 0]
  <2>1. new \in Row
    <3>1. 0 \in 0..MaxAttempts
      OBVIOUS
    <3> QED
      BY <1>0, <3>1, RowFields
  <2>2. Commit(c, new) /\ call' = [call EXCEPT ![c].at = "reopen", ![c].copy = new]
    BY <1>4 DEF Reset
  <2>3. row' \in Row /\ lock' \in Callers \cup {NoCaller}
    BY <2>1, <2>2, CommitType
  <2>4. call' \in [Callers -> Call]
    BY <2>1, <2>2, CallFields DEF TypeOK
  <2> QED
    BY <1>4, <2>3, <2>4 DEF Reset, TypeOK, ledger, network
<1>5. CASE Ambiguous(c)
  <2> DEFINE new == Finalized(WithoutLease(call[c].copy), "blocked", "unknown")
  <2>1. new \in Row
    BY <1>0, RowUpdates DEF Outcomes
  <2>2. row' \in Row /\ lock' \in Callers \cup {NoCaller}
    BY <1>5, <2>1, CommitType DEF Ambiguous, Release, TypeOK
  <2>3. call' \in [Callers -> Call]
    BY <1>5, CallType DEF Ambiguous, Return
  <2>4. results' \in [Attempts -> Observations]
    BY <1>5 DEF Ambiguous, Recorded, Observations, TypeOK
  <2> QED
    BY <1>5, <2>2, <2>3, <2>4 DEF Ambiguous, TypeOK, network
<1>6. CASE Reopen(c)
  <2>1. Prior < MaxAttempts => Prior + 1 \in 0..MaxAttempts
    BY PriorType
  <2>2. call' \in [Callers -> Call]
    <3>1. ASSUME Prior < MaxAttempts
          PROVE  [call EXCEPT ![c].at = "refresh", ![c].n = Prior + 1] \in [Callers -> Call]
      BY <3>1, <2>1, CallFields DEF TypeOK
    <3>2. /\ [call EXCEPT ![c] = IdleCall] \in [Callers -> Call]
          /\ [call EXCEPT ![c].at = "cancelWrite"] \in [Callers -> Call]
      BY CallType
    <3> QED
      BY <1>6, <3>1, <3>2 DEF Reopen, Return
  <2> QED
    BY <1>6, <2>2 DEF Reopen, Holds, TypeOK, ledger, network
<1> QED
  BY <1>1, <1>2, <1>3, <1>4, <1>5, <1>6 DEF Opening

\* The steps of one attempt.
LEMMA SendingType ==
    ASSUME TypeOK, LocalsAssigned, NEW c \in Callers, Sending(c)
    PROVE  TypeOK'
<1> USE DEF CallPCs
<1>0. /\ call \in [Callers -> Call] /\ call[c] \in Call
      /\ call[c].copy \in Row /\ call[c].n \in 0..MaxAttempts
      /\ call[c].response \in Responses
  BY DEF TypeOK, Call
<1>i. [call EXCEPT ![c] = IdleCall] \in [Callers -> Call]
  BY CallType
<1>1. CASE Refresh(c)
  BY <1>1, CallType DEF Refresh, ReadTo, TypeOK, ledger, network
<1>2. CASE CancelWrite(c)
  <2>1. Finalized(call[c].copy, "cancelled", "unknown") \in Row
    BY <1>0, RowUpdates DEF Outcomes
  <2>2. row' \in Row /\ lock' \in Callers \cup {NoCaller}
    BY <1>2, <2>1, CommitType DEF CancelWrite
  <2> QED
    BY <1>2, <1>i, <2>2 DEF CancelWrite, Return, TypeOK, ledger, network
<1>3. CASE Reserve(c)
  <2> DEFINE new == [call[c].copy EXCEPT !.state = "reserved", !.token = c,
                                         !.sent = FALSE, !.attempt = call[c].n]
  <2>1. new \in Row
    BY <1>0, RowFields
  <2>2. row' \in Row /\ lock' \in Callers \cup {NoCaller}
    BY <1>3, <2>1, CommitType DEF Reserve
  <2>3. call' \in [Callers -> Call]
    BY <1>3, CallType DEF Reserve, Goto
  <2> QED
    BY <1>3, <2>2, <2>3 DEF Reserve, TypeOK, ledger, network
<1>4. CASE HeadersFail(c)
  <2>1. [call EXCEPT ![c].at = "headersWrite", ![c].copy = row] \in [Callers -> Call]
    BY CallType
  <2> QED
    BY <1>4, <1>i, <2>1 DEF HeadersFail, ReadTo, Return, TypeOK, ledger, network
<1>5. CASE HeadersWrite(c)
  <2>1. Finalized(WithoutLease(call[c].copy), "blocked", "unknown") \in Row
    BY <1>0, RowUpdates DEF Outcomes
  <2>2. row' \in Row /\ lock' \in Callers \cup {NoCaller}
    BY <1>5, <2>1, CommitType DEF HeadersWrite, TypeOK
  <2>3. results' \in [Attempts -> Observations]
    BY <1>5 DEF HeadersWrite, Recorded, Observations, Responses, TypeOK
  <2> QED
    BY <1>5, <1>i, <2>2, <2>3 DEF HeadersWrite, Return, TypeOK, network
<1>6. CASE BoundaryRead(c)
  <2>1. call' \in [Callers -> Call]
    <3>1. /\ [call EXCEPT ![c].at = "boundaryCancel", ![c].copy = row] \in [Callers -> Call]
          /\ [call EXCEPT ![c].at = "boundaryWrite", ![c].copy = row] \in [Callers -> Call]
      BY CallType
    <3> QED
      BY <1>6, <1>i, <3>1 DEF BoundaryRead, ReadTo, Return
  <2> QED
    BY <1>6, <2>1 DEF BoundaryRead, Holds, TypeOK, ledger, network
<1>7. CASE BoundaryCancel(c)
  <2>1. Finalized(WithoutLease(call[c].copy), "cancelled", "unknown") \in Row
    BY <1>0, RowUpdates DEF Outcomes
  <2>2. row' \in Row /\ lock' \in Callers \cup {NoCaller}
    BY <1>7, <2>1, CommitType DEF BoundaryCancel
  <2> QED
    BY <1>7, <1>i, <2>2 DEF BoundaryCancel, Return, TypeOK, ledger, network
<1>8. CASE BoundaryWrite(c)
  <2>1. [call[c].copy EXCEPT !.state = "in-flight", !.sent = TRUE] \in Row
    BY <1>0, RowFields
  <2>2. row' \in Row /\ lock' \in Callers \cup {NoCaller}
    BY <1>8, <2>1, CommitType DEF BoundaryWrite
  <2>3. call' \in [Callers -> Call]
    BY <1>8, CallType DEF BoundaryWrite, Goto
  <2> QED
    BY <1>8, <2>2, <2>3 DEF BoundaryWrite, TypeOK, ledger, network
<1>a. ASSUME NEW r \in Responses
      PROVE  Answered(c, r) => call' \in [Callers -> Call]
  <2> DEFINE q == CASE r = "retryable" -> "yes" [] r = "unverified" -> "no"
                    [] OTHER -> call[c].retry
  <2>1. q \in {"unbound", "yes", "no"}
    BY <1>0 DEF Call
  <2>2. [call EXCEPT ![c].at = "result", ![c].response = r, ![c].retry = q] \in [Callers -> Call]
    BY <1>0, <1>a, <2>1, CallFields
  <2> QED
    BY <2>2 DEF Answered
<1>9. CASE Post(c)
  <2>1. call' \in [Callers -> Call]
    BY <1>9, CallType DEF Post
  <2>3. call[c].n \in Attempts
    BY <1>9 DEF Post, LocalsAssigned, LoopPCs
  <2>2. posts' \in [Attempts -> 0..2]
    <3>1. posts \in [Attempts -> 0..2] /\ posts[call[c].n] \in 0..2
      BY <2>3 DEF TypeOK
    <3> DEFINE m == IF posts[call[c].n] < 2 THEN posts[call[c].n] + 1 ELSE posts[call[c].n]
    <3>2. m \in 0..2
      BY <3>1
    <3>3. posts' = [posts EXCEPT ![call[c].n] = m]
      BY <1>9 DEF Post
    <3> QED
      BY <3>1, <3>2, <3>3
  <2>4. wire' = wire \cup {<<c, call[c].n>>}
    BY <1>9 DEF Post
  <2>5. wire' \in SUBSET (Callers \X Attempts)
    BY <2>3, <2>4 DEF TypeOK
  <2> QED
    BY <1>9, <2>1, <2>2, <2>5 DEF Post, TypeOK, ledger
<1>10. CASE PostRefused(c)
  <2>1. "protocol-error" \in Responses
    BY DEF Responses
  <2> QED
    BY <1>10, <1>a, <2>1 DEF PostRefused, TypeOK, ledger, network
<1>11. CASE Timeout(c)
  <2>1. "retryable" \in Responses
    BY DEF Responses
  <2> QED
    BY <1>11, <1>a, <2>1 DEF Timeout, TypeOK, ledger, network
<1>12. ASSUME NEW n \in Attempts, Arrives(c, n)
       PROVE  TypeOK'
  <2>1. durable' \in Receipts \cup {"none"}
    BY <1>12 DEF Arrives, TypeOK
  <2>2. call' \in [Callers -> Call]
    BY <1>0, <1>12, <1>a, <2>1 DEF Arrives, Responses
  <2> QED
    BY <1>12, <2>1, <2>2 DEF Arrives, TypeOK, ledger
<1>13. CASE ResultRead(c)
  <2>1. [call EXCEPT ![c].at = "record", ![c].copy = row] \in [Callers -> Call]
    BY CallType
  <2> QED
    BY <1>13, <1>i, <2>1 DEF ResultRead, ReadTo, Return, TypeOK, ledger, network
<1>14. CASE Record(c)
  <2> DEFINE n == call[c].n
             again == [call EXCEPT ![c] = [IdleCall EXCEPT !.at = "refresh", !.n = n + 1,
                                                           !.retry = call[c].retry]]
  <2>1. AfterResult(c) \in Row /\ WithoutLease(call[c].copy) \in Row
    BY <1>0, RowUpdates DEF AfterResult, Outcomes
  <2>2. row' \in Row /\ lock' \in Callers \cup {NoCaller}
    BY <1>14, <2>1, CommitType DEF Record, TypeOK
  <2>3. results' \in [Attempts -> Observations]
    BY <1>0, <1>14 DEF Record, Recorded, Observations, TypeOK
  <2>4. ASSUME ~Ends(c), ~Unbound(c)
        PROVE  again \in [Callers -> Call]
    <3>1. call[c].retry = "yes" /\ n # MaxAttempts
      BY <1>0, <2>4 DEF Ends, Unbound, Call
    <3>2. n + 1 \in 0..MaxAttempts
      BY <1>0, <3>1
    <3>3. [IdleCall EXCEPT !.at = "refresh", !.n = n + 1, !.retry = call[c].retry] \in Call
      BY <1>0, <3>2, RowLiterals DEF Call
    <3> QED
      BY <1>0, <3>3
  <2>5. call' \in [Callers -> Call]
    BY <1>14, <1>i, <2>4 DEF Record, Return
  <2> QED
    BY <1>14, <2>2, <2>3, <2>5 DEF Record, TypeOK, network
<1> QED
  BY <1>1, <1>2, <1>3, <1>4, <1>5, <1>6, <1>7, <1>8, <1>9, <1>10, <1>11, <1>12,
     <1>13, <1>14 DEF Sending

\* cancel, reconcile, a crash and the passing of time.
LEMMA ControllingType ==
    ASSUME TypeOK, LocalsAssigned, NEW c \in Callers, Controlling(c) \/ Crash(c)
    PROVE  TypeOK'
<1> USE DEF CallPCs
<1>0. call \in [Callers -> Call] /\ call[c] \in Call /\ call[c].copy \in Row
  BY DEF TypeOK, Call
<1>i. [call EXCEPT ![c] = IdleCall] \in [Callers -> Call]
  BY CallType
<1>1. CASE CancelRead(c)
  BY <1>1, CallType DEF CancelRead, ReadTo, Holds, TypeOK, ledger, network
<1>2. CASE CancelFlush(c)
  <2> DEFINE requested == [call[c].copy EXCEPT !.cancel = TRUE]
  <2>1. requested \in Row
    BY <1>0, RowFields
  <2>2. Finalized(requested, "cancelled", "unknown") \in Row
    BY <2>1, RowUpdates DEF Outcomes
  <2>3. row' \in Row /\ lock' \in Callers \cup {NoCaller}
    BY <1>2, <2>1, <2>2, CommitType DEF CancelFlush
  <2> QED
    BY <1>2, <1>i, <2>3 DEF CancelFlush, Return, TypeOK, ledger, network
<1>3. CASE ReconcileRead(c)
  BY <1>3, CallType DEF ReconcileRead, Goto, TypeOK, ledger, network
<1>4. CASE Query(c)
  <2>1. durable # "none" => durable \in Responses
    BY DEF TypeOK, Responses
  <2>2. durable # "none" =>
          [call EXCEPT ![c].at = "reconRefresh", ![c].response = durable] \in [Callers -> Call]
    BY <1>0, <2>1, CallFields
  <2> QED
    BY <1>4, <1>i, <2>2 DEF Query, Return, TypeOK, ledger, network
<1>5. CASE ReconcileRefresh(c)
  <2>1. [call EXCEPT ![c].at = "reconWrite", ![c].copy = row] \in [Callers -> Call]
    BY CallType
  <2> QED
    BY <1>5, <1>i, <2>1 DEF ReconcileRefresh, ReadTo, Return, TypeOK, ledger, network
<1>6. CASE ReconcileWrite(c)
  <2>1. call[c].response \in Receipts
    BY <1>6 DEF ReconcileWrite, LocalsAssigned
  <2>2. Finalized(call[c].copy, "completed", call[c].response) \in Row
    BY <1>0, <2>1, RowUpdates DEF Outcomes
  <2>3. row' \in Row /\ lock' \in Callers \cup {NoCaller}
    BY <1>6, <2>2, CommitType DEF ReconcileWrite
  <2>4. evidence' \in SUBSET Receipts
    BY <1>6, <2>1 DEF ReconcileWrite, TypeOK
  <2> QED
    BY <1>6, <1>i, <2>3, <2>4 DEF ReconcileWrite, Return, TypeOK, network
<1>7. CASE Crash(c)
  BY <1>7, <1>i DEF Crash, Return, Release, TypeOK, ledger, network
<1> QED
  BY <1>1, <1>2, <1>3, <1>4, <1>5, <1>6, <1>7 DEF Controlling

-----------------------------------------------------------------------------
(* Locals *)

\* What the steps of one call leave of the calls.
LEMMA OtherCalls ==
    ASSUME TypeOK, NEW c \in Callers, NEW d \in Callers, c # d,
           Opening(c) \/ Sending(c) \/ Controlling(c) \/ Crash(c)
    PROVE  call'[d] = call[d]
<1> USE DEF TypeOK, Return, ReadTo, Goto, Answered
<1>1. CASE Opening(c)
  BY <1>1 DEF Opening, OpenNew, Insert, OpenLeased, Reset, Ambiguous, Reopen
<1>2. CASE Sending(c)
  BY <1>2 DEF Sending, Refresh, CancelWrite, Reserve, HeadersFail, HeadersWrite,
     BoundaryRead, BoundaryCancel, BoundaryWrite, Post, PostRefused, Timeout, Arrives,
     ResultRead, Record
<1>3. CASE Controlling(c) \/ Crash(c)
  BY <1>3 DEF Controlling, CancelRead, CancelFlush, ReconcileRead, Query,
     ReconcileRefresh, ReconcileWrite, Crash
<1> QED
  BY <1>1, <1>2, <1>3

\* The steps of a call assign its locals before they are used.
LEMMA LocalsStep ==
    ASSUME TypeOK, LocalsAssigned, NEW c \in Callers,
           Opening(c) \/ Sending(c) \/ Controlling(c) \/ Crash(c)
    PROVE  LocalsAssigned'
<1> DEFINE Good(k) == /\ k.at \in LoopPCs => k.n \in Attempts
                      /\ k.at \in {"reconRefresh", "reconWrite"} => k.response \in Receipts
<1>0. /\ call \in [Callers -> Call] /\ call[c] \in Call
      /\ call[c].n \in 0..MaxAttempts /\ Good(call[c])
  BY DEF TypeOK, Call, LocalsAssigned
<1> SUFFICES Good(call'[c])
  BY OtherCalls DEF LocalsAssigned
<1> USE DEF LoopPCs, Return, ReadTo, Goto, IdleCall, Call
<1>1. CASE Opening(c)
  <2>1. CASE Insert(c)
    <3>1. 1 \in Attempts
      BY DEF Attempts
    <3> QED
      BY <1>0, <2>1, <3>1 DEF Insert
  <2>2. CASE Reopen(c)
    <3>1. Prior < MaxAttempts => Prior + 1 \in Attempts
      BY PriorType DEF Attempts
    <3> QED
      BY <1>0, <2>2, <3>1 DEF Reopen
  <2>3. CASE OpenNew(c) \/ OpenLeased(c) \/ Reset(c) \/ Ambiguous(c)
    BY <1>0, <2>3 DEF OpenNew, OpenLeased, Reset, Ambiguous
  <2> QED
    BY <1>1, <2>1, <2>2, <2>3 DEF Opening
<1>2. CASE Sending(c)
  <2>1. CASE Refresh(c) \/ CancelWrite(c) \/ Reserve(c) \/ HeadersFail(c) \/ HeadersWrite(c)
    BY <1>0, <2>1 DEF Refresh, CancelWrite, Reserve, HeadersFail, HeadersWrite
  <2>2. CASE BoundaryRead(c) \/ BoundaryCancel(c) \/ BoundaryWrite(c) \/ Post(c)
    BY <1>0, <2>2 DEF BoundaryRead, BoundaryCancel, BoundaryWrite, Post
  <2>3. CASE PostRefused(c) \/ Timeout(c) \/ \E n \in Attempts : Arrives(c, n)
    <3>1. ASSUME NEW r, Answered(c, r), call[c].at \in {"post", "waiting"}
          PROVE  Good(call'[c])
      <4>1. call'[c].at = "result" /\ call'[c].n = call[c].n
        BY <1>0, <3>1 DEF Answered
      <4> QED
        BY <1>0, <3>1, <4>1
    <3>2. CASE PostRefused(c)
      BY <3>1, <3>2 DEF PostRefused
    <3>3. CASE Timeout(c)
      BY <3>1, <3>3 DEF Timeout
    <3>4. ASSUME NEW n \in Attempts, Arrives(c, n)
          PROVE  Good(call'[c])
      BY <1>0, <3>1, <3>4 DEF Arrives
    <3> QED
      BY <2>3, <3>2, <3>3, <3>4
  <2>4. CASE ResultRead(c)
    BY <1>0, <2>4 DEF ResultRead
  <2>5. CASE Record(c)
    <3>1. call[c].n \in Attempts
      BY <1>0, <2>5 DEF Record
    <3>2. ~Ends(c) /\ ~Unbound(c) => call[c].n + 1 \in Attempts
      BY <1>0, <3>1 DEF Ends, Unbound, Attempts
    <3>3. CASE call' = [call EXCEPT ![c] = IdleCall]
      BY <1>0, <3>3
    <3>4. CASE /\ ~Ends(c) /\ ~Unbound(c)
               /\ call' = [call EXCEPT ![c] = [IdleCall EXCEPT !.at = "refresh",
                              !.n = call[c].n + 1, !.retry = call[c].retry]]
      <4>1. call'[c].at = "refresh" /\ call'[c].n = call[c].n + 1
        BY <1>0, <3>4
      <4> QED
        BY <3>2, <3>4, <4>1
    <3> QED
      BY <2>5, <3>3, <3>4 DEF Record
  <2> QED
    BY <1>2, <2>1, <2>2, <2>3, <2>4, <2>5 DEF Sending
<1>3. CASE Controlling(c) \/ Crash(c)
  BY <1>0, <1>3 DEF Controlling, CancelRead, CancelFlush, ReconcileRead, Query,
     ReconcileRefresh, ReconcileWrite, Crash, TypeOK
<1> QED
  BY <1>1, <1>2, <1>3

\* Type correctness and the locals, together one inductive invariant.
THEOREM TypeCorrect == Spec => []TypeOK /\ []LocalsAssigned
<1>1. Init => TypeOK /\ LocalsAssigned
  <2> SUFFICES ASSUME Init PROVE TypeOK /\ LocalsAssigned
    OBVIOUS
  <2>1. TypeOK
    <3>1. row \in Row /\ call \in [Callers -> Call]
      BY RowLiterals DEF Init
    <3>2. results \in [Attempts -> Observations] /\ posts \in [Attempts -> 0..2]
      BY DEF Init, Observations, Responses
    <3> QED
      BY <3>1, <3>2 DEF Init, TypeOK
  <2>2. LocalsAssigned
    BY DEF Init, LocalsAssigned, LoopPCs, IdleCall
  <2> QED
    BY <2>1, <2>2
<1>2. TypeOK /\ LocalsAssigned /\ [Next]_vars => TypeOK' /\ LocalsAssigned'
  <2> SUFFICES ASSUME TypeOK, LocalsAssigned, [Next]_vars
               PROVE  TypeOK' /\ LocalsAssigned'
    OBVIOUS
  <2>1. CASE \E c \in Callers : Opening(c) \/ Sending(c) \/ Controlling(c) \/ Crash(c)
    BY <2>1, OpeningType, SendingType, ControllingType, LocalsStep
  <2>2. CASE LeaseAges
    BY <2>2 DEF LeaseAges, ledger, network, TypeOK, LocalsAssigned
  <2>3. CASE UNCHANGED vars
    BY <2>3 DEF vars, TypeOK, LocalsAssigned
  <2> QED
    BY <2>1, <2>2, <2>3 DEF Next
<1> QED
  BY <1>1, <1>2, PTL DEF Spec

(***************************************************************************)
(* The retry loop of execute_delivery always works on an attempt number of *)
(* the policy, on every path through takeovers, crashes and errors, and a  *)
(* reconciliation past its query holds a receipt.                          *)
(***************************************************************************)
THEOREM LocalsAreAssigned == Spec => []LocalsAssigned
BY TypeCorrect, PTL

-----------------------------------------------------------------------------
(* The locked boundary *)

\* A step of d leaves a row that another call holds, and the lock, alone.
LEMMA OthersRespectLock ==
    ASSUME TypeOK, LockedCopyIsCurrent, RowLocks, NEW c \in Callers, NEW d \in Callers,
           c # d, lock = c, Opening(d) \/ Sending(d) \/ Controlling(d) \/ Crash(d)
    PROVE  UNCHANGED <<row, lock>>
<1>0. lock \notin {d, NoCaller}
  OBVIOUS
<1>1. ~MayLock(d) /\ Release(d) = lock /\ \A new : ~Commit(d, new)
  BY <1>0 DEF MayLock, Release, Commit, MayWrite
<1>2. call[d].at # "insert"
  BY <1>0 DEF LockedCopyIsCurrent, LockedPCs
<1>3. CASE Opening(d)
  BY <1>1, <1>2, <1>3 DEF Opening, OpenNew, Insert, OpenLeased, Reset, Ambiguous, Reopen
<1>4. CASE Sending(d)
  BY <1>1, <1>4 DEF Sending, Refresh, CancelWrite, Reserve, HeadersFail, HeadersWrite,
     BoundaryRead, BoundaryCancel, BoundaryWrite, Post, PostRefused, Timeout, Arrives,
     ResultRead, Record
<1>5. CASE Controlling(d) \/ Crash(d)
  BY <1>1, <1>5 DEF Controlling, CancelRead, CancelFlush, ReconcileRead, Query,
     ReconcileRefresh, ReconcileWrite, Crash
<1> QED
  BY <1>3, <1>4, <1>5

\* A call enters a locked step only by the locked read itself; an arrival of
\* one of its earlier posts does not disturb it there.
LEMMA OwnLock ==
    ASSUME TypeOK, LockedCopyIsCurrent, RowLocks, NEW c \in Callers,
           Opening(c) \/ Sending(c) \/ Controlling(c) \/ Crash(c),
           call'[c].at \in LockedPCs
    PROVE  /\ lock' = c
           /\ call'[c].at # "insert" => call'[c].copy = row'
           /\ call'[c].at = "boundaryWrite" => ~call'[c].copy.cancel
<1>0. call \in [Callers -> Call] /\ call[c] \in Call
  BY DEF TypeOK
<1> USE <1>0 DEF LockedPCs, Return, ReadTo, Goto, IdleCall, Call, Holds
<1>1. CASE Opening(c)
  BY <1>1 DEF Opening, OpenNew, Insert, OpenLeased, Reset, Ambiguous, Reopen
<1>2. CASE Sending(c)
  <2>1. ASSUME NEW r, Answered(c, r)
        PROVE  call'[c].at = "result"
    BY <2>1 DEF Answered
  <2>2. CASE BoundaryRead(c)
    BY <2>2 DEF BoundaryRead
  <2>3. CASE PostRefused(c) \/ Timeout(c)
    BY <2>1, <2>3 DEF PostRefused, Timeout
  <2>4. ASSUME NEW n \in Attempts, Arrives(c, n)
        PROVE  UNCHANGED <<row, lock, call>>
    BY <2>1, <2>4 DEF Arrives
  <2>5. CASE \E n \in Attempts : Arrives(c, n)
    BY <2>4, <2>5 DEF LockedCopyIsCurrent
  <2>6. CASE Record(c)
    <3>1. call'[c].at \in {"idle", "refresh"}
      <4>1. CASE call' = [call EXCEPT ![c] = IdleCall]
        BY <4>1
      <4>2. CASE call' = [call EXCEPT ![c] = [IdleCall EXCEPT !.at = "refresh",
                             !.n = call[c].n + 1, !.retry = call[c].retry]]
        BY <4>2
      <4> QED
        BY <2>6, <4>1, <4>2 DEF Record
    <3> QED
      BY <3>1
  <2>7. CASE Refresh(c) \/ CancelWrite(c) \/ Reserve(c) \/ HeadersFail(c) \/ HeadersWrite(c)
    BY <2>7 DEF Refresh, CancelWrite, Reserve, HeadersFail, HeadersWrite
  <2>8. CASE BoundaryCancel(c) \/ BoundaryWrite(c) \/ Post(c) \/ ResultRead(c)
    BY <2>8 DEF BoundaryCancel, BoundaryWrite, Post, ResultRead
  <2> QED
    BY <1>2, <2>2, <2>3, <2>5, <2>6, <2>7, <2>8 DEF Sending
<1>3. CASE Controlling(c) \/ Crash(c)
  BY <1>3 DEF Controlling, CancelRead, CancelFlush, ReconcileRead, Query,
     ReconcileRefresh, ReconcileWrite, Crash
<1> QED
  BY <1>1, <1>2, <1>3

\* The locked copy of every call is the row: no call flushes over a lock.
LEMMA LockStep ==
    ASSUME TypeOK, LockedCopyIsCurrent, [Next]_vars
    PROVE  LockedCopyIsCurrent'
<1> SUFFICES ASSUME RowLocks, NEW c \in Callers
             PROVE  /\ call'[c].at \in LockedPCs =>
                         lock' = c /\ (call'[c].at # "insert" => call'[c].copy = row')
                    /\ call'[c].at = "boundaryWrite" => ~call'[c].copy.cancel
  BY DEF LockedCopyIsCurrent
<1>1. ASSUME NEW d \in Callers, Opening(d) \/ Sending(d) \/ Controlling(d) \/ Crash(d),
             call'[c].at \in LockedPCs
      PROVE  /\ lock' = c /\ (call'[c].at # "insert" => call'[c].copy = row')
             /\ call'[c].at = "boundaryWrite" => ~call'[c].copy.cancel
  <2>1. CASE c = d
    BY <1>1, <2>1, OwnLock
  <2>2. CASE c # d
    <3>1. call'[c] = call[c]
      BY <1>1, <2>2, OtherCalls
    <3>2. lock = c
      BY <1>1, <3>1 DEF LockedCopyIsCurrent
    <3>3. UNCHANGED <<row, lock>>
      BY <1>1, <2>2, <3>2, OthersRespectLock
    <3> QED
      BY <1>1, <3>1, <3>3 DEF LockedCopyIsCurrent
  <2> QED
    BY <2>1, <2>2
<1>2. CASE \E d \in Callers : Opening(d) \/ Sending(d) \/ Controlling(d) \/ Crash(d)
  BY <1>1, <1>2 DEF LockedPCs
<1>3. CASE LeaseAges \/ UNCHANGED vars
  BY <1>3 DEF LeaseAges, vars, LockedCopyIsCurrent
<1> QED
  BY <1>2, <1>3 DEF Next

(***************************************************************************)
(* With row locks, a call that has read the row FOR UPDATE decides on the  *)
(* current row, whatever the other calls write without locking.            *)
(***************************************************************************)
THEOREM LockedReadsAreCurrent == Spec => []LockedCopyIsCurrent
<1>1. Init => LockedCopyIsCurrent
  BY DEF Init, LockedCopyIsCurrent, LockedPCs, IdleCall
<1>2. TypeOK /\ LockedCopyIsCurrent /\ [Next]_vars => LockedCopyIsCurrent'
  BY LockStep
<1> QED
  BY <1>1, <1>2, TypeCorrect, PTL DEF Spec

\* A flush that does not set send_started_at leaves it clear.
LEMMA FlushKeepsUnsent ==
    ASSUME NEW c \in Callers, NEW new, ~row.sent, Commit(c, new),
           new.sent = FALSE \/ new.sent = call[c].copy.sent
    PROVE  ~row'.sent
  BY DEF Commit, Flushed

\* Only the boundary commit sets send_started_at.
LEMMA OnlyBoundarySends ==
    ASSUME TypeOK, NEW c \in Callers, ~row.sent,
           Opening(c) \/ Sending(c) \/ Controlling(c) \/ Crash(c), ~BoundaryWrite(c)
    PROVE  ~row'.sent
<1>0. call[c].copy \in Row
  BY DEF TypeOK, Call
<1> USE <1>0, FlushKeepsUnsent DEF Row, WithoutLease, Finalized
<1>1. CASE Opening(c)
  BY <1>1 DEF Opening, OpenNew, Insert, OpenLeased, Reset, Ambiguous, Reopen, NoRow
<1>2. CASE Sending(c)
  BY <1>2 DEF Sending, Refresh, CancelWrite, Reserve, HeadersFail, HeadersWrite,
     BoundaryRead, BoundaryCancel, Post, PostRefused, Timeout, Arrives,
     ResultRead, Record, AfterResult
<1>3. CASE Controlling(c) \/ Crash(c)
  BY <1>3 DEF Controlling, CancelRead, CancelFlush, ReconcileRead, Query,
     ReconcileRefresh, ReconcileWrite, Crash
<1> QED
  BY <1>1, <1>2, <1>3

(***************************************************************************)
(* "Cancellation before this locked boundary cannot cause a post"          *)
(* (delivery_execution.py), for every number of callers and attempts, on a *)
(* database that has row locks.                                            *)
(***************************************************************************)
THEOREM CancellationHolds ==
    ASSUME RowLocks
    PROVE  Spec => CancelBeforeBoundary
<1>1. TypeOK /\ LockedCopyIsCurrent /\ [Next]_vars
        => [(row.cancel /\ ~row.sent) => ~row'.sent]_vars
  <2> SUFFICES ASSUME TypeOK, LockedCopyIsCurrent, Next, row.cancel, ~row.sent
               PROVE  ~row'.sent
    OBVIOUS
  <2>1. ASSUME NEW c \in Callers, Opening(c) \/ Sending(c) \/ Controlling(c) \/ Crash(c)
        PROVE  ~row'.sent
    <3>1. ~BoundaryWrite(c)
      BY DEF BoundaryWrite, LockedCopyIsCurrent, LockedPCs
    <3> QED
      BY <2>1, <3>1, OnlyBoundarySends
  <2>2. CASE LeaseAges
    BY <2>2 DEF LeaseAges
  <2> QED
    BY <2>1, <2>2 DEF Next
<1> QED
  BY <1>1, TypeCorrect, LockedReadsAreCurrent, PTL DEF Spec, CancelBeforeBoundary

-----------------------------------------------------------------------------
(* One send per attempt *)

\* Where a call goes on with an attempt nobody has a lease for; where it has
\* reserved one; where it has begun to send it.
HeirPCs == {"reopen", "refresh", "reserve", "cancelWrite"}
HeadPCs == {"headers", "headersWrite", "boundaryWrite", "boundaryCancel"}
SentPCs == {"post", "waiting", "result", "record"}

\* The attempts with a result are the first ones.
Prefix == \E m \in 0..MaxAttempts : \A a \in Attempts : results[a] # "none" <=> a <= m
Follows(n) == \A b \in Attempts : b < n => results[b] # "none"

PostsRecorded == \A a \in Attempts : posts[a] > 0 => results[a] # "none"

\* Before the INSERT nobody has done anything.
NewRow ==
    row.state = "none" =>
        /\ row.token = NoCaller /\ row.final = "none" /\ ~row.sent
        /\ \A a \in Attempts : results[a] = "none" /\ posts[a] = 0
        /\ \A c \in Callers : call[c].at \in {"idle", "insert"}

\* A lease is for the first attempt without a result.
LeaseIsNext ==
    row.final = "none" =>
        /\ row.token # NoCaller =>
              /\ row.attempt \in Attempts
              /\ Follows(row.attempt) /\ Unrecorded(row.attempt)
        /\ row.sent => row.state = "in-flight" /\ row.token # NoCaller

\* An unfinished row without a lease has one heir.
HeirInv(c) ==
    (call[c].at \in HeirPCs /\ row.final = "none") =>
        /\ row.token = NoCaller
        /\ call[c].at \in {"refresh", "reserve"} => Unrecorded(call[c].n)
        /\ call[c].at = "reserve" => call[c].copy.attempt = row.attempt
        /\ \A d \in Callers : call[d].at \in HeirPCs => d = c

HeadInv(c) ==
    (call[c].at \in HeadPCs /\ row.final = "none" /\ row.token = c) =>
        row.attempt = call[c].n /\ ~row.sent

\* A call that has sent keeps the row until its attempt has a result.
SentInv(c) ==
    (call[c].at \in SentPCs /\ Unrecorded(call[c].n)) =>
        /\ row.final = "none" /\ row.token = c /\ row.attempt = call[c].n /\ row.sent
        /\ call[c].at = "record" => call[c].copy.sent

PostInv(c) ==
    call[c].at = "post" =>
        /\ posts[call[c].n] = 0
        /\ \A d \in Callers : call[d].at = "post" /\ call[d].n = call[c].n => d = c

\* What a call has read, as far as the row cannot have lost it.
CopyInv(c) ==
    /\ call[c].at \in {"reset", "ambiguous", "reopen", "headersWrite", "boundaryWrite",
                       "boundaryCancel", "record"} => call[c].copy.final = "none"
    /\ call[c].at = "cancelWrite" /\ call[c].copy.final # "none" => row.final # "none"
    /\ call[c].at \in {"reset", "ambiguous"} => call[c].copy.token # NoCaller
    /\ call[c].at = "reset" => ~call[c].copy.sent
    /\ call[c].at \in {"headersWrite", "boundaryWrite", "boundaryCancel", "record"} =>
          call[c].copy.token = c
    /\ call[c].at \in {"result", "record"} => call[c].response # "none"
    /\ call[c].at \in {"query", "reconRefresh", "reconWrite"} => row.final # "none"

CallInv(c) ==
    /\ call[c].at \in LoopPCs => Follows(call[c].n)
    /\ HeirInv(c) /\ HeadInv(c) /\ SentInv(c) /\ PostInv(c) /\ CopyInv(c)

ExecInv ==
    /\ Prefix /\ NewRow /\ LeaseIsNext
    /\ EveryPostIsAccounted /\ AttemptPostedOnce
    /\ row.final # "none" => PostsRecorded
    /\ \A c \in Callers : CallInv(c)

(* len(prior) + 1 is the first attempt without a result. *)
LEMMA PriorIsLast ==
    ASSUME Prefix
    PROVE  /\ Prior \in 0..MaxAttempts
           /\ Follows(Prior + 1)
           /\ Prior + 1 \in Attempts => Unrecorded(Prior + 1)
<1>1. PICK m \in 0..MaxAttempts : \A a \in Attempts : results[a] # "none" <=> a <= m
  BY DEF Prefix
<1>2. {a \in Attempts : results[a] # "none"} = 1..m
  <2>1. m \in Nat /\ m <= MaxAttempts
    BY <1>1
  <2>2. \A a : a \in 1..m <=> a \in Attempts /\ a <= m
    BY <2>1 DEF Attempts
  <2> QED
    BY <1>1, <2>2
<1>3. Prior = m
  <2>1. m \in Nat
    BY <1>1
  <2>2. Cardinality(1..m) = IF 1 > m THEN 0 ELSE m - 1 + 1
    BY <2>1, FS_Interval
  <2>3. (IF 1 > m THEN 0 ELSE m - 1 + 1) = m
    BY <2>1
  <2> QED
    BY <1>2, <2>2, <2>3 DEF Prior
<1> QED
  BY <1>1, <1>3 DEF Follows, Unrecorded, Attempts

(* There is only one first attempt without a result. *)
LEMMA NextIsUnique ==
    ASSUME NEW n \in Attempts, NEW k \in Attempts, Follows(n), Follows(k),
           Unrecorded(n), Unrecorded(k)
    PROVE  n = k
  BY DEF Follows, Unrecorded, Attempts

(* Recording the first attempt without a result leaves a prefix. *)
LEMMA RecordNext ==
    ASSUME TypeOK, Prefix, NEW n \in Attempts, Follows(n), Unrecorded(n),
           NEW o, o # "none", results' = [results EXCEPT ![n] = o]
    PROVE  /\ Prefix' /\ results'[n] # "none"
           /\ \A a \in Attempts : results[a] # "none" => results'[a] # "none"
           /\ \A a \in Attempts : a # n => results'[a] = results[a]
           /\ Follows(n + 1)'
           /\ n + 1 \in Attempts => results'[n + 1] = "none"
<1>1. PICK m \in 0..MaxAttempts : \A a \in Attempts : results[a] # "none" <=> a <= m
  BY DEF Prefix
<1>2. n = m + 1
  <2>1. n > m
    BY <1>1 DEF Unrecorded, Attempts
  <2>2. n > m + 1 => m + 1 \in Attempts /\ m + 1 < n
    <3>1. m \in 0..MaxAttempts /\ n \in 1..MaxAttempts /\ MaxAttempts \in Nat
      BY <1>1 DEF Attempts
    <3> QED
      BY <3>1 DEF Attempts
  <2>3. m + 1 \in Attempts => results[m + 1] = "none"
    BY <1>1 DEF Attempts
  <2> QED
    BY <1>1, <2>1, <2>2, <2>3 DEF Follows, Attempts
<1>3. \A a \in Attempts : results'[a] = IF a = n THEN o ELSE results[a]
  BY DEF TypeOK
<1>4. \A a \in Attempts : results'[a] # "none" <=> a <= n
  BY <1>1, <1>2, <1>3 DEF Attempts
<1>5. n \in 0..MaxAttempts
  BY DEF Attempts
<1> QED
  BY <1>1, <1>2, <1>3, <1>4, <1>5 DEF Prefix, Follows, Attempts

(* The columns after a commit. *)
LEMMA CommitColumns ==
    ASSUME NEW c \in Callers, NEW new, Commit(c, new)
    PROVE  LET copy == call[c].copy IN
           /\ row'.state = IF new.state # copy.state THEN new.state ELSE row.state
           /\ row'.token = IF new.token # copy.token THEN new.token ELSE row.token
           /\ row'.sent = IF new.sent # copy.sent THEN new.sent ELSE row.sent
           /\ row'.attempt = IF new.attempt # copy.attempt THEN new.attempt ELSE row.attempt
           /\ row'.final = IF new.final # copy.final THEN new.final ELSE row.final
  BY DEF Commit, Flushed

(* Finalizing a row sets its state and outcome. *)
LEMMA FinalizedColumns ==
    ASSUME NEW r \in Row, NEW s, NEW o
    PROVE  /\ Finalized(r, s, o).state = s /\ Finalized(r, s, o).final = o
           /\ Finalized(WithoutLease(r), s, o).state = s
           /\ Finalized(WithoutLease(r), s, o).final = o
<1>1. WithoutLease(r) \in Row
  BY RowUpdates
<1> QED
  BY <1>1 DEF Finalized, Row

(* A step that changes neither the lease columns nor the outcome, nor any *)
(* result or post.                                                        *)
LEMMA QuietStep ==
    ASSUME ExecInv, NEW c \in Callers, \A d \in Callers \ {c} : call'[d] = call[d],
           row'.state = row.state, row'.token = row.token, row'.sent = row.sent,
           row'.attempt = row.attempt, row'.final = row.final,
           results' = results, posts' = posts,
           row.state = "none" => call'[c].at \in {"idle", "insert"},
           call'[c].at \in HeirPCs => call[c].at \in HeirPCs,
           call'[c].at # "post" \/ call'[c] = call[c],
           CallInv(c)'
    PROVE  ExecInv'
<1>1. Prefix' /\ LeaseIsNext' /\ EveryPostIsAccounted' /\ AttemptPostedOnce'
  BY DEF ExecInv, Prefix, LeaseIsNext, Follows, Unrecorded, EveryPostIsAccounted,
         AttemptPostedOnce
<1>2. NewRow'
  BY DEF ExecInv, NewRow
<1>3. (row.final # "none" => PostsRecorded)'
  BY DEF ExecInv, PostsRecorded
<1>4. ASSUME NEW d \in Callers, d # c
      PROVE  CallInv(d)'
  <2>1. call'[d] = call[d] /\ CallInv(d)
    BY <1>4 DEF ExecInv
  <2>2. HeirInv(d)'
    BY <1>4, <2>1 DEF CallInv, HeirInv, Unrecorded
  <2>3. HeadInv(d)' /\ SentInv(d)' /\ CopyInv(d)'
    BY <2>1 DEF CallInv, HeadInv, SentInv, CopyInv, Unrecorded
  <2>4. PostInv(d)'
    BY <1>4, <2>1 DEF CallInv, PostInv
  <2>5. (call[d].at \in LoopPCs => Follows(call[d].n))'
    BY <2>1 DEF CallInv, Follows
  <2> QED
    BY <2>2, <2>3, <2>4, <2>5 DEF CallInv
<1> QED
  BY <1>1, <1>2, <1>3, <1>4 DEF ExecInv

(* A step that finishes the row: every attempt on the wire or about to be *)
(* has a result then.                                                     *)
LEMMA FinishStep ==
    ASSUME ExecInv, NEW c \in Callers, \A d \in Callers \ {c} : call'[d] = call[d],
           row'.final # "none", row'.state # "none", posts' = posts,
           call'[c].at = "idle",
           Prefix', \A a \in Attempts : results[a] # "none" => results'[a] # "none",
           PostsRecorded', LocalsAssigned,
           \A d \in Callers \ {c} : call[d].at \in SentPCs => results'[call[d].n] # "none"
    PROVE  ExecInv'
<1>1. NewRow' /\ LeaseIsNext' /\ EveryPostIsAccounted' /\ AttemptPostedOnce'
  BY DEF ExecInv, NewRow, LeaseIsNext, EveryPostIsAccounted, AttemptPostedOnce, PostsRecorded
<1>2. ASSUME NEW d \in Callers, d # c
      PROVE  CallInv(d)'
  <2>1. call'[d] = call[d] /\ CallInv(d)
    BY <1>2 DEF ExecInv
  <2>2. HeirInv(d)' /\ HeadInv(d)'
    BY DEF HeirInv, HeadInv
  <2>3. SentInv(d)'
    BY <1>2, <2>1 DEF SentInv, Unrecorded
  <2>4. PostInv(d)'
    BY <1>2, <2>1 DEF CallInv, PostInv
  <2>5. CopyInv(d)'
    BY <2>1 DEF CallInv, CopyInv
  <2>6. (call[d].at \in LoopPCs => Follows(call[d].n))'
    BY <2>1 DEF CallInv, Follows
  <2> QED
    BY <2>2, <2>3, <2>4, <2>5, <2>6 DEF CallInv
<1>3. CallInv(c)'
  BY DEF CallInv, HeirInv, HeadInv, SentInv, PostInv, CopyInv, LoopPCs, HeirPCs, HeadPCs, SentPCs
<1> QED
  BY <1>1, <1>2, <1>3 DEF ExecInv

(* A call that has returned stakes nothing. *)
LEMMA IdleInv ==
    ASSUME NEW c \in Callers, call'[c].at = "idle"
    PROVE  CallInv(c)'
  BY DEF CallInv, HeirInv, HeadInv, SentInv, PostInv, CopyInv, LoopPCs, HeirPCs, HeadPCs, SentPCs

(* A call returns without having written anything. *)
LEMMA ReturnStep ==
    ASSUME TypeOK, ExecInv, NEW c \in Callers, Return(c), UNCHANGED <<row, results, posts>>
    PROVE  ExecInv'
<1>1. call' = [call EXCEPT ![c] = IdleCall] /\ call \in [Callers -> Call]
  BY DEF Return, TypeOK
<1>2. call'[c].at = "idle" /\ \A d \in Callers \ {c} : call'[d] = call[d]
  BY <1>1 DEF IdleCall
<1> QED
  BY <1>2, IdleInv, QuietStep DEF HeirPCs

(* A call reads the row, under a lock or not, and goes on. *)
LEMMA ReadStep ==
    ASSUME TypeOK, ExecInv, NEW c \in Callers, NEW at,
           ReadTo(c, at), UNCHANGED <<row, results, posts>>, row.state # "none",
           \/ /\ at \in {"reset", "ambiguous"} /\ row.final = "none" /\ row.token # NoCaller
              /\ at = "reset" => ~row.sent
           \/ at \in {"cancelWrite", "reserve"} /\ call[c].at = "refresh"
           \/ at \in {"headersWrite", "boundaryWrite", "boundaryCancel"}
              /\ call[c].at = "headers" /\ StillMine(c)
           \/ at = "record" /\ call[c].at = "result" /\ StillMine(c)
           \/ at = "cancelFlush"
           \/ at = "reconWrite" /\ row.final = "unknown"
    PROVE  ExecInv'
<1>1. /\ call \in [Callers -> Call] /\ call[c] \in Call
      /\ call' = [call EXCEPT ![c].at = at, ![c].copy = row]
  BY DEF ReadTo, TypeOK
<1>2. /\ call'[c].at = at /\ call'[c].copy = row /\ call'[c].n = call[c].n
      /\ call'[c].response = call[c].response
      /\ \A d \in Callers \ {c} : call'[d] = call[d]
  BY <1>1 DEF Call
<1>3. CallInv(c)
  BY DEF ExecInv
<1>4. HeirInv(c)'
  BY <1>2, <1>3 DEF CallInv, HeirInv, HeirPCs, Unrecorded
<1>5. HeadInv(c)' /\ SentInv(c)' /\ PostInv(c)'
  BY <1>2, <1>3 DEF CallInv, HeadInv, HeadPCs, SentInv, SentPCs, PostInv, Unrecorded
<1>6. CopyInv(c)'
  BY <1>2, <1>3 DEF CallInv, CopyInv, StillMine
<1>7. (call[c].at \in LoopPCs => Follows(call[c].n))'
  BY <1>2, <1>3 DEF CallInv, LoopPCs, Follows
<1>8. CallInv(c)'
  BY <1>4, <1>5, <1>6, <1>7 DEF CallInv
<1>9. call'[c].at \in HeirPCs => call[c].at \in HeirPCs
  BY <1>2 DEF HeirPCs
<1> QED
  BY <1>2, <1>8, <1>9, QuietStep

(* A response is taken. *)
LEMMA AnswerStep ==
    ASSUME TypeOK, ExecInv, NEW c \in Callers, NEW r, r # "none",
           call[c].at \in {"post", "waiting"}, Answered(c, r),
           UNCHANGED <<row, results, posts>>
    PROVE  ExecInv'
<1>1. /\ call \in [Callers -> Call] /\ call[c] \in Call
  BY DEF TypeOK
<1>2. /\ call'[c].at = "result" /\ call'[c].n = call[c].n /\ call'[c].response = r
      /\ \A d \in Callers \ {c} : call'[d] = call[d]
  BY <1>1 DEF Call, Answered
<1>3. CallInv(c) /\ NewRow
  BY DEF ExecInv
<1>4. HeirInv(c)' /\ HeadInv(c)' /\ PostInv(c)' /\ CopyInv(c)'
  BY <1>2 DEF HeirInv, HeirPCs, HeadInv, HeadPCs, PostInv, CopyInv
<1>5. SentInv(c)'
  BY <1>2, <1>3 DEF CallInv, SentInv, SentPCs, Unrecorded
<1>6. (call[c].at \in LoopPCs => Follows(call[c].n))'
  BY <1>2, <1>3 DEF CallInv, LoopPCs, Follows
<1>7. row.state # "none"
  BY <1>3 DEF NewRow
<1> QED
  BY <1>2, <1>4, <1>5, <1>6, <1>7, QuietStep DEF CallInv, HeirPCs

(* The steps that write neither row nor result. *)
LEMMA ReadingSteps ==
    ASSUME TypeOK, LocalsAssigned, ExecInv, NEW c \in Callers,
           \/ OpenNew(c) \/ OpenLeased(c) \/ Reopen(c) \/ Refresh(c) \/ HeadersFail(c)
           \/ BoundaryRead(c) \/ PostRefused(c) \/ Timeout(c)
           \/ (\E n \in Attempts : Arrives(c, n)) \/ ResultRead(c)
           \/ CancelRead(c) \/ ReconcileRead(c) \/ Query(c) \/ ReconcileRefresh(c) \/ Crash(c)
    PROVE  ExecInv'
<1>0. /\ call \in [Callers -> Call] /\ call[c] \in Call
      /\ CallInv(c) /\ NewRow /\ Prefix
  BY DEF TypeOK, ExecInv
<1>n. call[c].at \notin {"idle", "insert"} \/ row.final # "none" => row.state # "none"
  BY <1>0 DEF NewRow
<1> USE DEF ledger, network
<1>1. CASE OpenNew(c)
  <2>1. /\ call'[c].at = "insert" /\ UNCHANGED <<row, results, posts>>
        /\ \A d \in Callers \ {c} : call'[d] = call[d]
    BY <1>0, <1>1 DEF OpenNew, Call
  <2>2. CallInv(c)'
    BY <2>1 DEF CallInv, HeirInv, HeadInv, SentInv, PostInv, CopyInv, LoopPCs, HeirPCs,
                HeadPCs, SentPCs
  <2> QED
    BY <2>1, <2>2, QuietStep DEF HeirPCs
<1>2. CASE OpenLeased(c)
  BY <1>2, ReadStep DEF OpenLeased
<1>3. CASE Reopen(c)
  <2>1. UNCHANGED <<row, results, posts>> /\ call[c].at = "reopen" /\ row.state # "none"
    BY <1>3, <1>n DEF Reopen
  <2>2. CASE Return(c)
    BY <2>1, <2>2, ReturnStep
  <2>3. CASE call' = [call EXCEPT ![c].at = "cancelWrite"]
    <3>1. /\ call'[c].at = "cancelWrite" /\ call'[c].copy = call[c].copy
          /\ \A d \in Callers \ {c} : call'[d] = call[d]
      BY <1>0, <2>3 DEF Call
    <3>2. HeirInv(c)'
      BY <1>0, <2>1, <3>1 DEF CallInv, HeirInv, HeirPCs
    <3>3. CopyInv(c)'
      BY <1>0, <2>1, <3>1 DEF CallInv, CopyInv
    <3>4. CallInv(c)'
      BY <3>1, <3>2, <3>3 DEF CallInv, HeadInv, SentInv, PostInv, HeadPCs, SentPCs, LoopPCs
    <3> QED
      BY <2>1, <3>1, <3>4, QuietStep DEF HeirPCs
  <2>4. CASE /\ call' = [call EXCEPT ![c].at = "refresh", ![c].n = Prior + 1]
             /\ Prior < MaxAttempts
    <3>1. /\ call'[c].at = "refresh" /\ call'[c].n = Prior + 1
          /\ \A d \in Callers \ {c} : call'[d] = call[d]
      BY <1>0, <2>4 DEF Call
    <3>2. Follows(Prior + 1) /\ Unrecorded(Prior + 1)
      BY <1>0, <2>4, PriorIsLast DEF Attempts
    <3>3. HeirInv(c)'
      BY <1>0, <2>1, <3>1, <3>2 DEF CallInv, HeirInv, HeirPCs, Unrecorded
    <3>4. (call[c].at \in LoopPCs => Follows(call[c].n))'
      BY <2>1, <3>1, <3>2 DEF Follows
    <3>5. CallInv(c)'
      BY <3>1, <3>3, <3>4 DEF CallInv, CopyInv, HeadInv, SentInv, PostInv, HeadPCs, SentPCs
    <3> QED
      BY <2>1, <3>1, <3>5, QuietStep DEF HeirPCs
  <2> QED
    BY <1>3, <2>2, <2>3, <2>4 DEF Reopen
<1>4. CASE Refresh(c)
  BY <1>4, <1>n, ReadStep DEF Refresh
<1>5. CASE HeadersFail(c)
  BY <1>5, <1>n, ReadStep, ReturnStep DEF HeadersFail
<1>6. CASE BoundaryRead(c)
  BY <1>6, <1>n, ReadStep, ReturnStep DEF BoundaryRead
<1>7. CASE PostRefused(c)
  BY <1>7, AnswerStep DEF PostRefused
<1>8. CASE Timeout(c)
  BY <1>8, AnswerStep DEF Timeout
<1>9. ASSUME NEW n \in Attempts, Arrives(c, n)
      PROVE  ExecInv'
  <2>1. CASE UNCHANGED call
    BY <1>0, <1>9, <2>1, QuietStep DEF Arrives, NewRow, CallInv, HeirInv, HeadInv, SentInv,
       PostInv, CopyInv, Follows, Unrecorded
  <2>2. ASSUME NEW r, r # "none", call[c].at = "waiting", Answered(c, r)
        PROVE  ExecInv'
    BY <1>9, <2>2, AnswerStep DEF Arrives
  <2> QED
    BY <1>9, <2>1, <2>2 DEF Arrives
<1>10. CASE ResultRead(c)
  BY <1>10, <1>n, ReadStep, ReturnStep DEF ResultRead
<1>11. CASE CancelRead(c)
  BY <1>11, ReadStep DEF CancelRead
<1>12. CASE ReconcileRead(c)
  <2>1. /\ call'[c].at = "query" /\ UNCHANGED <<row, results, posts>> /\ row.final = "unknown"
        /\ \A d \in Callers \ {c} : call'[d] = call[d]
    BY <1>0, <1>12 DEF ReconcileRead, Goto, Call
  <2>2. CallInv(c)'
    BY <2>1 DEF CallInv, HeirInv, HeadInv, SentInv, PostInv, CopyInv, LoopPCs, HeirPCs,
                HeadPCs, SentPCs
  <2> QED
    BY <1>n, <2>1, <2>2, QuietStep DEF HeirPCs
<1>13. CASE Query(c)
  <2>1. CASE Return(c)
    BY <1>13, <2>1, ReturnStep DEF Query
  <2>2. CASE call' = [call EXCEPT ![c].at = "reconRefresh", ![c].response = durable]
    <3>1. /\ call'[c].at = "reconRefresh" /\ UNCHANGED <<row, results, posts>>
          /\ row.final # "none"
          /\ \A d \in Callers \ {c} : call'[d] = call[d]
      BY <1>0, <1>13, <2>2 DEF Query, Call, CallInv, CopyInv
    <3>2. CallInv(c)'
      BY <3>1 DEF CallInv, HeirInv, HeadInv, SentInv, PostInv, CopyInv, LoopPCs, HeirPCs,
                  HeadPCs, SentPCs
    <3> QED
      BY <1>n, <3>1, <3>2, QuietStep DEF HeirPCs
  <2> QED
    BY <1>13, <2>1, <2>2 DEF Query
<1>14. CASE ReconcileRefresh(c)
  BY <1>14, <1>n, ReadStep, ReturnStep DEF ReconcileRefresh
<1>15. CASE Crash(c)
  BY <1>15, ReturnStep DEF Crash
<1> QED
  BY <1>1, <1>2, <1>3, <1>4, <1>5, <1>6, <1>7, <1>8, <1>9, <1>10, <1>11, <1>12, <1>13,
     <1>14, <1>15

(* The steps that finish the row without a result of their own. *)
LEMMA ClosingSteps ==
    ASSUME TypeOK, LocalsAssigned, LockedCopyIsCurrent, RowLocks, ExecInv, NEW c \in Callers,
           CancelWrite(c) \/ BoundaryCancel(c) \/ CancelFlush(c) \/ ReconcileWrite(c)
    PROVE  ExecInv'
<1>0. /\ call \in [Callers -> Call] /\ call[c] \in Call /\ call[c].copy \in Row /\ row \in Row
      /\ CallInv(c) /\ NewRow /\ Prefix /\ LeaseIsNext /\ EveryPostIsAccounted
      /\ row.final # "none" => PostsRecorded
  BY DEF TypeOK, Call, ExecInv
<1>1. /\ call[c].at \notin {"idle", "insert"} /\ Return(c) /\ posts' = posts /\ results' = results
      /\ row.state # "none"
  BY <1>0 DEF CancelWrite, BoundaryCancel, CancelFlush, ReconcileWrite, ledger, network, NewRow
<1>2. call'[c].at = "idle" /\ \A d \in Callers \ {c} : call'[d] = call[d]
  BY <1>0, <1>1 DEF Return, IdleCall
\* It is enough that the row is finished and nothing that was sent is without a result.
<1>3. ASSUME row'.final # "none", row'.state # "none", PostsRecorded,
             \A d \in Callers \ {c} : call[d].at \in SentPCs => ~Unrecorded(call[d].n)
      PROVE  ExecInv'
  <2>1. Prefix' /\ PostsRecorded'
    BY <1>0, <1>1, <1>3 DEF Prefix, PostsRecorded
  <2> QED
    BY <1>1, <1>2, <1>3, <2>1, FinishStep DEF Unrecorded
<1>4. CASE row.final # "none"
  <2>1. \A d \in Callers : call[d].at \in SentPCs => ~Unrecorded(call[d].n)
    BY <1>4 DEF ExecInv, CallInv, SentInv
  <2>2. CASE CancelFlush(c) /\ [call[c].copy EXCEPT !.cancel = TRUE].state = "in-flight"
    <3> DEFINE new == [call[c].copy EXCEPT !.cancel = TRUE]
    <3>1. Commit(c, new)
      BY <2>2 DEF CancelFlush
    <3>2. new.final = call[c].copy.final /\ new.state = call[c].copy.state
      BY <1>0 DEF Row
    <3>3. row'.final = row.final /\ row'.state = row.state
      BY <3>1, <3>2, CommitColumns
    <3> QED
      BY <1>0, <1>1, <1>3, <1>4, <2>1, <3>3
  <2>3. CASE ~(CancelFlush(c) /\ [call[c].copy EXCEPT !.cancel = TRUE].state = "in-flight")
    <3>1. PICK r \in Row, s \in {"cancelled", "completed"}, o \in Outcomes \ {"none"} :
             Commit(c, Finalized(r, s, o))
      <4>1. /\ WithoutLease(call[c].copy) \in Row
            /\ [call[c].copy EXCEPT !.cancel = TRUE] \in Row
        BY <1>0, RowUpdates, RowFields
      <4> QED
        BY <1>0, <2>3, <4>1 DEF CancelWrite, BoundaryCancel, CancelFlush, ReconcileWrite,
           LocalsAssigned, Outcomes, Receipts
    <3>2. Finalized(r, s, o).final = o /\ Finalized(r, s, o).state = s
      BY DEF Finalized, Row
    <3>3. row'.final # "none" /\ row'.state # "none"
      BY <1>1, <1>4, <3>1, <3>2, CommitColumns
    <3> QED
      BY <1>0, <1>3, <1>4, <2>1, <3>3
  <2> QED
    BY <2>2, <2>3
<1>5. CASE row.final = "none" /\ CancelWrite(c)
  <2>1. /\ row.token = NoCaller /\ call[c].copy.final = "none"
        /\ Commit(c, Finalized(call[c].copy, "cancelled", "unknown"))
    BY <1>0, <1>5 DEF CancelWrite, CallInv, HeirInv, HeirPCs, CopyInv
  <2>2. row'.final = "unknown" /\ row'.state # "none"
    BY <1>0, <1>1, <2>1, CommitColumns, FinalizedColumns
  <2>3. PostsRecorded
    BY <1>0, <2>1 DEF EveryPostIsAccounted, PostsRecorded
  <2>4. \A d \in Callers \ {c} : call[d].at \in SentPCs => ~Unrecorded(call[d].n)
    BY <2>1 DEF ExecInv, CallInv, SentInv
  <2> QED
    BY <1>3, <2>2, <2>3, <2>4
<1>6. CASE row.final = "none" /\ BoundaryCancel(c)
  <2>1. /\ row.token = c /\ call[c].copy = row /\ ~row.sent
        /\ Commit(c, Finalized(WithoutLease(call[c].copy), "cancelled", "unknown"))
    BY <1>0, <1>6 DEF BoundaryCancel, LockedCopyIsCurrent, LockedPCs, CallInv, HeadInv,
       HeadPCs, CopyInv
  <2>2. row'.final = "unknown" /\ row'.state # "none"
    BY <1>0, <1>1, <1>6, <2>1, CommitColumns, FinalizedColumns
  <2>3. PostsRecorded
    BY <1>0, <2>1 DEF EveryPostIsAccounted, PostsRecorded
  <2>4. \A d \in Callers \ {c} : call[d].at \in SentPCs => ~Unrecorded(call[d].n)
    BY <2>1 DEF ExecInv, CallInv, SentInv
  <2> QED
    BY <1>3, <2>2, <2>3, <2>4
<1>7. CASE row.final = "none" /\ CancelFlush(c)
  <2> DEFINE new == [row EXCEPT !.cancel = TRUE]
  <2>1. /\ call[c].copy = row
        /\ Commit(c, IF new.state = "in-flight" THEN new ELSE Finalized(new, "cancelled", "unknown"))
    BY <1>0, <1>7 DEF CancelFlush, LockedCopyIsCurrent, LockedPCs
  <2>2. /\ new.state = row.state /\ new.token = row.token /\ new.sent = row.sent
        /\ new.attempt = row.attempt /\ new.final = row.final
        /\ Finalized(new, "cancelled", "unknown").final = "unknown"
        /\ Finalized(new, "cancelled", "unknown").state = "cancelled"
    BY <1>0 DEF Row, Finalized
  <2> HIDE DEF new
  <2>3. CASE row.state = "in-flight"
    <3>1. /\ row'.state = row.state /\ row'.token = row.token /\ row'.sent = row.sent
          /\ row'.attempt = row.attempt /\ row'.final = row.final
      BY <2>1, <2>2, <2>3, CommitColumns
    <3> QED
      BY <1>1, <1>2, <3>1, IdleInv, QuietStep DEF HeirPCs
  <2>4. CASE row.state # "in-flight"
    <3>1. ~row.sent
      BY <1>0, <1>7, <2>4 DEF LeaseIsNext
    <3>2. row'.final = "unknown" /\ row'.state # "none"
      BY <1>1, <1>7, <2>1, <2>2, <2>4, CommitColumns
    <3>3. PostsRecorded
      BY <1>0, <3>1 DEF EveryPostIsAccounted, PostsRecorded
    <3>4. \A d \in Callers \ {c} : call[d].at \in SentPCs => ~Unrecorded(call[d].n)
      BY <3>1 DEF ExecInv, CallInv, SentInv
    <3> QED
      BY <1>3, <3>2, <3>3, <3>4
  <2> QED
    BY <2>3, <2>4
<1>8. CASE row.final = "none" /\ ReconcileWrite(c)
  BY <1>0, <1>8 DEF ReconcileWrite, CallInv, CopyInv
<1> QED
  BY <1>4, <1>5, <1>6, <1>7, <1>8

(* The steps that record an attempt and finish the row. *)
LEMMA RecordingSteps ==
    ASSUME TypeOK, LocalsAssigned, LockedCopyIsCurrent, RowLocks, ExecInv, NEW c \in Callers,
           Ambiguous(c) \/ HeadersWrite(c)
    PROVE  ExecInv'
<1>0. /\ call \in [Callers -> Call] /\ call[c] \in Call /\ call[c].copy \in Row /\ row \in Row
      /\ CallInv(c) /\ NewRow /\ Prefix /\ LeaseIsNext /\ EveryPostIsAccounted
      /\ row.final # "none" => PostsRecorded
  BY DEF TypeOK, Call, ExecInv
<1>1. /\ call[c].at \notin {"idle", "insert"} /\ Return(c) /\ posts' = posts
      /\ row.state # "none"
  BY <1>0 DEF Ambiguous, HeadersWrite, network, NewRow
<1>2. call'[c].at = "idle" /\ \A d \in Callers \ {c} : call'[d] = call[d]
  BY <1>0, <1>1 DEF Return, IdleCall
<1>3. CASE UNCHANGED <<row, results>>
  BY <1>1, <1>3, ReturnStep
\* The attempt that is recorded is the first without a result, so every other call that works
\* on one without a result works on this one.
<1>4. ASSUME NEW n \in Attempts, Follows(n), Unrecorded(n), NEW o, o # "none", Recorded(n, o),
             call[c].copy.final = "none",
             Commit(c, Finalized(WithoutLease(call[c].copy), "blocked", "unknown"))
      PROVE  ExecInv'
  <2>1. /\ Prefix' /\ results'[n] # "none"
        /\ \A a \in Attempts : results[a] # "none" => results'[a] # "none"
    BY <1>0, <1>4, RecordNext DEF Recorded
  <2>2. row'.final = "unknown" /\ row'.state # "none"
    BY <1>0, <1>1, <1>4, CommitColumns, FinalizedColumns
  <2>3. PostsRecorded'
    <3> SUFFICES ASSUME NEW a \in Attempts, posts[a] > 0, Unrecorded(a)
                 PROVE  a = n
      BY <1>1, <2>1 DEF PostsRecorded, Unrecorded
    <3>1. row.final = "none" /\ row.token # NoCaller /\ row.attempt = a
      BY <1>0 DEF EveryPostIsAccounted, PostsRecorded, Unrecorded
    <3> QED
      BY <1>0, <1>4, <3>1, NextIsUnique DEF LeaseIsNext
  <2>4. \A d \in Callers \ {c} : call[d].at \in SentPCs => results'[call[d].n] # "none"
    <3> SUFFICES ASSUME NEW d \in Callers \ {c}, call[d].at \in SentPCs
                 PROVE  results'[call[d].n] # "none"
      OBVIOUS
    <3>1. call[d].n \in Attempts /\ Follows(call[d].n)
      BY DEF LocalsAssigned, ExecInv, CallInv, SentPCs, LoopPCs
    <3> QED
      BY <1>4, <2>1, <3>1, NextIsUnique DEF Unrecorded
  <2> QED
    BY <1>1, <1>2, <2>1, <2>2, <2>3, <2>4, FinishStep
<1>5. CASE HeadersWrite(c) /\ ~UNCHANGED <<row, results>>
  <2>1. /\ call[c].n \in Attempts /\ Follows(call[c].n) /\ Unrecorded(call[c].n)
        /\ call[c].copy.final = "none"
    BY <1>0, <1>5 DEF HeadersWrite, LocalsAssigned, LoopPCs, CallInv, CopyInv
  <2>2. /\ Recorded(call[c].n, "protocol-error")
        /\ Commit(c, Finalized(WithoutLease(call[c].copy), "blocked", "unknown"))
    BY <1>5, <2>1 DEF HeadersWrite
  <2> QED
    BY <1>4, <2>1, <2>2
<1>6. CASE Ambiguous(c) /\ ~UNCHANGED <<row, results>>
  <2>1. call[c].copy = row /\ row.final = "none" /\ row.token # NoCaller
    BY <1>0, <1>6 DEF Ambiguous, LockedCopyIsCurrent, LockedPCs, CallInv, CopyInv
  <2>2. row.attempt \in Attempts /\ Follows(row.attempt) /\ Unrecorded(row.attempt)
    BY <1>0, <2>1 DEF LeaseIsNext
  <2>3. row.attempt # 0
    BY <2>2 DEF Attempts
  <2>4. /\ Recorded(row.attempt, "crash-ambiguous")
        /\ Commit(c, Finalized(WithoutLease(call[c].copy), "blocked", "unknown"))
    BY <1>6, <2>1, <2>2, <2>3 DEF Ambiguous
  <2> QED
    BY <1>4, <2>1, <2>2, <2>4
<1> QED
  BY <1>3, <1>5, <1>6

(* A step after which the row has a new lease or none: what it must leave the *)
(* other calls and the ledger.                                                *)
LEMMA LeaseStep ==
    ASSUME TypeOK, LocalsAssigned, ExecInv, NEW c \in Callers,
           \A d \in Callers \ {c} : call'[d] = call[d],
           row'.state # "none", row'.final = row.final, row'.token \in {c, NoCaller},
           posts' = posts, Prefix', LeaseIsNext', EveryPostIsAccounted', CallInv(c)',
           \A a \in Attempts : results[a] # "none" => results'[a] # "none",
           row.final # "none" => results' = results,
           row.final = "none" =>
              \A d \in Callers \ {c} : /\ call[d].at \notin HeirPCs
                                       /\ call[d].at \in SentPCs => ~Unrecorded(call[d].n),
           \A d \in Callers \ {c} : call[d].at = "post" /\ call'[c].at = "post"
                                       => call'[c].n # call[d].n
    PROVE  ExecInv'
<1>1. NewRow' /\ AttemptPostedOnce'
  BY DEF ExecInv, NewRow, AttemptPostedOnce
<1>2. (row.final # "none" => PostsRecorded)'
  BY DEF ExecInv, PostsRecorded
<1>3. ASSUME NEW d \in Callers, d # c
      PROVE  CallInv(d)'
  <2>1. call'[d] = call[d] /\ CallInv(d) /\ row'.token # d
    BY <1>3 DEF ExecInv
  <2>2. HeirInv(d)' /\ HeadInv(d)'
    BY <1>3, <2>1 DEF HeirInv, HeadInv
  <2>n. call[d].at \in SentPCs => call[d].n \in Attempts
    BY DEF LocalsAssigned, LoopPCs, SentPCs
  <2>3. SentInv(d)'
    <3>1. call[d].at \in SentPCs => ~Unrecorded(call[d].n)
      BY <1>3, <2>1 DEF CallInv, SentInv
    <3> QED
      BY <2>1, <2>n, <3>1 DEF SentInv, Unrecorded
  <2>4. PostInv(d)'
    BY <1>3, <2>1 DEF CallInv, PostInv
  <2>5. CopyInv(d)'
    BY <2>1 DEF CallInv, CopyInv
  <2>6. (call[d].at \in LoopPCs => Follows(call[d].n))'
    BY <2>1 DEF CallInv, Follows
  <2> QED
    BY <2>2, <2>3, <2>4, <2>5, <2>6 DEF CallInv
<1> QED
  BY <1>1, <1>2, <1>3 DEF ExecInv

(* The INSERT, and the one that loses. *)
LEMMA InsertStep ==
    ASSUME TypeOK, LocalsAssigned, ExecInv, NEW c \in Callers, Insert(c)
    PROVE  ExecInv'
<1>1. CASE row.state # "none"
  BY <1>1, ReturnStep DEF Insert, ledger, network
<1>2. CASE row.state = "none"
  <2>0. /\ call \in [Callers -> Call] /\ call[c] \in Call /\ 1 \in Attempts
        /\ NewRow /\ Prefix
    BY DEF TypeOK, ExecInv, Attempts
  <2>1. /\ call' = [call EXCEPT ![c].at = "headers", ![c].n = 1]
        /\ row' = [NoRow EXCEPT !.state = "reserved", !.token = c, !.attempt = 1]
        /\ posts' = posts /\ results' = results
    BY <1>2 DEF Insert, ledger, network
  <2>2. /\ call'[c].at = "headers" /\ call'[c].n = 1
        /\ \A d \in Callers \ {c} : call'[d] = call[d]
    BY <2>0, <2>1 DEF Call
  <2>3. /\ row'.state = "reserved" /\ row'.token = c /\ row'.attempt = 1
        /\ row'.final = "none" /\ ~row'.sent
    BY <2>1 DEF NoRow
  <2>4. Follows(1)
    BY DEF Follows, Attempts
  <2>5. Prefix' /\ LeaseIsNext' /\ EveryPostIsAccounted'
    BY <1>2, <2>0, <2>1, <2>3, <2>4
       DEF NewRow, Prefix, LeaseIsNext, Follows, Unrecorded, EveryPostIsAccounted
  <2>6. CallInv(c)'
    BY <2>1, <2>2, <2>3, <2>4 DEF CallInv, HeirInv, HeadInv, SentInv, PostInv, CopyInv,
       Follows, HeirPCs, HeadPCs, SentPCs
  <2>7. \A d \in Callers : call[d].at \in {"idle", "insert"} /\ row.final = "none"
    BY <1>2, <2>0 DEF NewRow
  <2> QED
    BY <2>1, <2>2, <2>3, <2>5, <2>6, <2>7, LeaseStep DEF HeirPCs, SentPCs
<1> QED
  BY <1>1, <1>2

(* A stale reservation is given back: it had not been sent. *)
LEMMA ResetStep ==
    ASSUME TypeOK, LocalsAssigned, LockedCopyIsCurrent, RowLocks, ExecInv, NEW c \in Callers,
           Reset(c)
    PROVE  ExecInv'
<1> DEFINE new == [call[c].copy EXCEPT !.state = "pending", !.token = NoCaller, !.attempt = 0]
<1>0. /\ call \in [Callers -> Call] /\ call[c] \in Call /\ row \in Row
      /\ CallInv(c) /\ Prefix /\ LeaseIsNext /\ EveryPostIsAccounted
  BY DEF TypeOK, ExecInv
<1>1. /\ call[c].at = "reset" /\ Commit(c, new)
      /\ call' = [call EXCEPT ![c].at = "reopen", ![c].copy = new]
      /\ posts' = posts /\ results' = results
  BY DEF Reset, ledger, network
<1>2. call[c].copy = row /\ row.final = "none" /\ row.token # NoCaller /\ ~row.sent
  BY <1>0, <1>1 DEF LockedCopyIsCurrent, LockedPCs, CallInv, CopyInv
<1>3. /\ new.state = "pending" /\ new.token = NoCaller /\ new.sent = row.sent
      /\ new.final = row.final
  BY <1>0, <1>2 DEF Row
<1> HIDE DEF new
<1>4. /\ row'.state # "none" /\ row'.token = NoCaller /\ ~row'.sent /\ row'.final = "none"
  BY <1>1, <1>2, <1>3, CommitColumns
<1>5. /\ call'[c].at = "reopen" /\ call'[c].copy = new
      /\ \A d \in Callers \ {c} : call'[d] = call[d]
  BY <1>0, <1>1 DEF Call
<1>6. Prefix' /\ LeaseIsNext' /\ EveryPostIsAccounted'
  BY <1>0, <1>1, <1>2, <1>4 DEF Prefix, LeaseIsNext, EveryPostIsAccounted
<1>7. \A d \in Callers : /\ call[d].at \notin HeirPCs
                         /\ call[d].at \in SentPCs => ~Unrecorded(call[d].n)
  BY <1>2 DEF ExecInv, CallInv, HeirInv, SentInv
<1>8. CallInv(c)'
  BY <1>2, <1>3, <1>4, <1>5, <1>7 DEF CallInv, HeirInv, HeadInv, SentInv, PostInv, CopyInv,
     LoopPCs, HeirPCs, HeadPCs, SentPCs
<1> QED
  BY <1>1, <1>2, <1>4, <1>5, <1>6, <1>7, <1>8, LeaseStep

(* The only heir reserves the next attempt. *)
LEMMA ReserveStep ==
    ASSUME TypeOK, LocalsAssigned, ExecInv, NEW c \in Callers, Reserve(c)
    PROVE  ExecInv'
<1> DEFINE new == [call[c].copy EXCEPT !.state = "reserved", !.token = c,
                                       !.sent = FALSE, !.attempt = call[c].n]
<1>0. /\ call \in [Callers -> Call] /\ call[c] \in Call /\ row \in Row /\ call[c].copy \in Row
      /\ CallInv(c) /\ Prefix /\ LeaseIsNext /\ EveryPostIsAccounted /\ NewRow
  BY DEF TypeOK, ExecInv, Call
<1>1. /\ call[c].at = "reserve" /\ Commit(c, new) /\ Goto(c, "headers")
      /\ posts' = posts /\ results' = results
  BY DEF Reserve, ledger, network
<1>2. /\ new.state = "reserved" /\ new.token = c /\ ~new.sent /\ new.attempt = call[c].n
      /\ new.final = call[c].copy.final
  BY <1>0 DEF Row
<1> HIDE DEF new
<1>3. /\ call'[c].at = "headers" /\ call'[c].n = call[c].n
      /\ \A d \in Callers \ {c} : call'[d] = call[d]
  BY <1>0, <1>1 DEF Goto, Call
<1>4. row'.state # "none" /\ row'.final = row.final
  BY <1>0, <1>1, <1>2, CommitColumns DEF NewRow
<1>5. call[c].n \in Attempts /\ Follows(call[c].n)
  BY <1>0, <1>1 DEF LocalsAssigned, CallInv, LoopPCs
<1>6. CASE row.final = "none"
  <2>1. /\ row.token = NoCaller /\ Unrecorded(call[c].n) /\ call[c].copy.attempt = row.attempt
        /\ ~row.sent /\ \A d \in Callers \ {c} : call[d].at \notin HeirPCs
    BY <1>0, <1>1, <1>6 DEF CallInv, HeirInv, HeirPCs, LeaseIsNext
  <2>2. /\ row'.attempt = call[c].n /\ ~row'.sent /\ row'.token \in {c, NoCaller}
    BY <1>1, <1>2, <2>1, CommitColumns
  <2>3. Prefix' /\ LeaseIsNext' /\ EveryPostIsAccounted'
    BY <1>0, <1>1, <1>5, <2>1, <2>2
       DEF Prefix, LeaseIsNext, Follows, Unrecorded, EveryPostIsAccounted
  <2>4. CallInv(c)'
    BY <1>1, <1>3, <1>5, <2>2 DEF CallInv, HeirInv, HeadInv, SentInv, PostInv, CopyInv,
       Follows, HeirPCs, HeadPCs, SentPCs
  <2>5. \A d \in Callers : call[d].at \in SentPCs => ~Unrecorded(call[d].n)
    BY <2>1 DEF ExecInv, CallInv, SentInv
  <2> QED
    BY <1>1, <1>3, <1>4, <2>1, <2>2, <2>3, <2>4, <2>5, LeaseStep
\* A finished row may still be reserved by a call whose copy is older; nothing is sent then.
<1>7. CASE row.final # "none"
  <2>1. PostsRecorded
    BY <1>7 DEF ExecInv
  <2>2. Prefix' /\ LeaseIsNext' /\ EveryPostIsAccounted' /\ (row.final # "none" => PostsRecorded)'
    BY <1>0, <1>1, <1>4, <1>7, <2>1
       DEF Prefix, LeaseIsNext, EveryPostIsAccounted, PostsRecorded
  <2>3. NewRow' /\ AttemptPostedOnce'
    BY <1>1, <1>4 DEF NewRow, ExecInv, AttemptPostedOnce
  <2>4. CallInv(c)'
    BY <1>1, <1>3, <1>4, <1>5, <1>7 DEF CallInv, HeirInv, HeadInv, SentInv, PostInv, CopyInv,
       Follows, HeirPCs, HeadPCs, SentPCs
  <2>5. ASSUME NEW d \in Callers, d # c
        PROVE  CallInv(d)'
    <3>1. call'[d] = call[d] /\ CallInv(d)
      BY <1>3, <2>5 DEF ExecInv
    <3>2. HeirInv(d)' /\ HeadInv(d)'
      BY <1>4, <1>7 DEF HeirInv, HeadInv
    <3>3. SentInv(d)'
      BY <1>1, <1>7, <3>1 DEF CallInv, SentInv, Unrecorded
    <3>4. PostInv(d)'
      BY <1>1, <1>3, <3>1 DEF CallInv, PostInv
    <3>5. CopyInv(d)'
      BY <1>4, <3>1 DEF CallInv, CopyInv
    <3>6. (call[d].at \in LoopPCs => Follows(call[d].n))'
      BY <1>1, <3>1 DEF CallInv, Follows
    <3> QED
      BY <3>2, <3>3, <3>4, <3>5, <3>6 DEF CallInv
  <2> QED
    BY <2>2, <2>3, <2>4, <2>5 DEF ExecInv
<1> QED
  BY <1>6, <1>7

(* The send boundary is crossed once for an attempt. *)
LEMMA BoundaryStep ==
    ASSUME TypeOK, LocalsAssigned, LockedCopyIsCurrent, RowLocks, ExecInv, NEW c \in Callers,
           BoundaryWrite(c)
    PROVE  ExecInv'
<1> DEFINE new == [call[c].copy EXCEPT !.state = "in-flight", !.sent = TRUE]
<1>0. /\ call \in [Callers -> Call] /\ call[c] \in Call /\ row \in Row /\ posts \in [Attempts -> 0..2]
      /\ CallInv(c) /\ Prefix /\ LeaseIsNext /\ EveryPostIsAccounted /\ NewRow
  BY DEF TypeOK, ExecInv
<1>1. /\ call[c].at = "boundaryWrite" /\ Commit(c, new) /\ Goto(c, "post")
      /\ posts' = posts /\ results' = results
  BY DEF BoundaryWrite, ledger, network
<1>2. call[c].copy = row /\ row.token = c /\ row.final = "none"
  BY <1>0, <1>1 DEF LockedCopyIsCurrent, LockedPCs, CallInv, CopyInv
<1>3. /\ row.attempt = call[c].n /\ ~row.sent /\ call[c].n \in Attempts
      /\ Follows(call[c].n) /\ Unrecorded(call[c].n)
  BY <1>0, <1>1, <1>2 DEF CallInv, HeadInv, HeadPCs, LeaseIsNext
<1>4. /\ new.state = "in-flight" /\ new.sent /\ new.token = row.token
      /\ new.attempt = row.attempt /\ new.final = row.final
  BY <1>0, <1>2 DEF Row
<1> HIDE DEF new
<1>5. /\ row'.state = "in-flight" /\ row'.sent /\ row'.token = c
      /\ row'.attempt = call[c].n /\ row'.final = row.final
  BY <1>1, <1>2, <1>3, <1>4, CommitColumns
<1>6. /\ call'[c].at = "post" /\ call'[c].n = call[c].n
      /\ \A d \in Callers \ {c} : call'[d] = call[d]
  BY <1>0, <1>1 DEF Goto, Call
<1>7. posts[call[c].n] = 0
  BY <1>0, <1>3 DEF EveryPostIsAccounted, Unrecorded
<1>8. ASSUME NEW d \in Callers, d # c
      PROVE  /\ call[d].at \notin HeirPCs
             /\ call[d].at \in SentPCs => ~Unrecorded(call[d].n)
  BY <1>2, <1>3, <1>8 DEF ExecInv, CallInv, HeirInv, SentInv
<1>9. Prefix' /\ LeaseIsNext' /\ EveryPostIsAccounted'
  BY <1>0, <1>1, <1>2, <1>3, <1>5
     DEF Prefix, LeaseIsNext, Follows, Unrecorded, EveryPostIsAccounted
<1>10. \A d \in Callers \ {c} : call[d].at = "post" => call[d].n # call[c].n
  BY <1>3, <1>8 DEF SentPCs
<1>11. CallInv(c)'
  <2>1. PostInv(c)'
    BY <1>1, <1>6, <1>7, <1>10 DEF PostInv
  <2>2. SentInv(c)' /\ (call[c].at \in LoopPCs => Follows(call[c].n))'
    BY <1>1, <1>2, <1>3, <1>5, <1>6 DEF SentInv, Follows
  <2> QED
    BY <1>6, <2>1, <2>2 DEF CallInv, HeirInv, HeadInv, CopyInv, HeirPCs, HeadPCs
<1> QED
  BY <1>1, <1>2, <1>5, <1>6, <1>8, <1>9, <1>10, <1>11, LeaseStep

(* The send itself. *)
LEMMA PostStep ==
    ASSUME TypeOK, LocalsAssigned, ExecInv, NEW c \in Callers, Post(c)
    PROVE  ExecInv'
<1> DEFINE n == call[c].n
<1>0. /\ call \in [Callers -> Call] /\ call[c] \in Call /\ posts \in [Attempts -> 0..2]
      /\ CallInv(c) /\ Prefix /\ LeaseIsNext /\ EveryPostIsAccounted /\ NewRow
      /\ call[c].at = "post" /\ n \in Attempts /\ posts[n] = 0
  BY DEF TypeOK, ExecInv, Post, LocalsAssigned, LoopPCs, CallInv, PostInv
<1>1. /\ posts' = [posts EXCEPT ![n] = 1] /\ UNCHANGED <<row, results>>
      /\ call' = [call EXCEPT ![c].at = "waiting"]
  BY <1>0 DEF Post, ledger
<1>2. posts'[n] = 1 /\ \A a \in Attempts : a # n => posts'[a] = posts[a]
  BY <1>0, <1>1
<1>3. /\ call'[c].at = "waiting" /\ call'[c].n = n
      /\ \A d \in Callers \ {c} : call'[d] = call[d]
  BY <1>0, <1>1 DEF Call
<1>4. Unrecorded(n) => row.final = "none" /\ row.token = c /\ row.attempt = n /\ row.sent
  BY <1>0 DEF CallInv, SentInv, SentPCs
<1>5. EveryPostIsAccounted' /\ (row.final # "none" => PostsRecorded)'
  BY <1>0, <1>1, <1>2, <1>4 DEF EveryPostIsAccounted, PostsRecorded, Unrecorded, ExecInv
<1>6. AttemptPostedOnce'
  BY <1>2 DEF AttemptPostedOnce, ExecInv
<1>7. Prefix' /\ LeaseIsNext' /\ NewRow'
  BY <1>0, <1>1 DEF Prefix, LeaseIsNext, Follows, Unrecorded, NewRow
<1>8. CallInv(c)'
  BY <1>0, <1>1, <1>3 DEF CallInv, HeirInv, HeadInv, SentInv, PostInv, CopyInv, Follows,
     Unrecorded, LoopPCs, HeirPCs, HeadPCs, SentPCs
<1>9. ASSUME NEW d \in Callers, d # c
      PROVE  CallInv(d)'
  <2>1. call'[d] = call[d] /\ CallInv(d)
    BY <1>3, <1>9 DEF ExecInv
  <2>2. HeirInv(d)'
    BY <1>1, <1>3, <1>9, <2>1 DEF CallInv, HeirInv, HeirPCs, Unrecorded
  <2>3. HeadInv(d)' /\ SentInv(d)' /\ CopyInv(d)' /\ (call[d].at \in LoopPCs => Follows(call[d].n))'
    BY <1>1, <2>1 DEF CallInv, HeadInv, SentInv, CopyInv, Unrecorded, Follows
  <2>4. PostInv(d)'
    <3>1. call[d].at = "post" => call[d].n \in Attempts /\ call[d].n # n
      BY <1>0, <1>9 DEF LocalsAssigned, LoopPCs, CallInv, PostInv
    <3> QED
      BY <1>2, <1>3, <2>1, <3>1 DEF CallInv, PostInv
  <2> QED
    BY <2>2, <2>3, <2>4 DEF CallInv
<1> QED
  BY <1>5, <1>6, <1>7, <1>8, <1>9 DEF ExecInv

(* The answer of an attempt is recorded: the delivery ends, or goes on with *)
(* the next attempt.                                                        *)
LEMMA RecordStep ==
    ASSUME TypeOK, LocalsAssigned, ExecInv, NEW c \in Callers, Record(c)
    PROVE  ExecInv'
<1> DEFINE n == call[c].n
<1>0. /\ call \in [Callers -> Call] /\ call[c] \in Call /\ call[c].copy \in Row /\ row \in Row
      /\ call[c].at = "record" /\ posts' = posts
      /\ CallInv(c) /\ Prefix /\ LeaseIsNext /\ EveryPostIsAccounted /\ NewRow
  BY DEF TypeOK, Call, ExecInv, Record, network
<1>1. CASE Return(c) /\ UNCHANGED <<row, results>>
  BY <1>0, <1>1, ReturnStep
<1>2. CASE ~(Return(c) /\ UNCHANGED <<row, results>>)
  <2>1. /\ Unrecorded(n) /\ n \in Attempts /\ Follows(n) /\ Recorded(n, call[c].response)
        /\ call[c].response # "none"
        /\ call[c].copy.final = "none" /\ call[c].copy.token = c /\ call[c].copy.sent
        /\ row.final = "none" /\ row.token = c /\ row.attempt = n /\ row.sent
    BY <1>0, <1>2 DEF Record, LocalsAssigned, LoopPCs, CallInv, SentInv, SentPCs, CopyInv
  <2>2. /\ Prefix' /\ results'[n] # "none"
        /\ \A a \in Attempts : results[a] # "none" => results'[a] # "none"
        /\ \A a \in Attempts : a # n => results'[a] = results[a]
        /\ \A b \in Attempts : b < n + 1 => results'[b] # "none"
        /\ n + 1 \in Attempts => results'[n + 1] = "none"
    BY <1>0, <2>1, RecordNext DEF Recorded, Follows
  <2>3. \A d \in Callers \ {c} : /\ call[d].at \notin HeirPCs
                                 /\ call[d].at \in SentPCs => ~Unrecorded(call[d].n)
    BY <2>1 DEF ExecInv, CallInv, HeirInv, SentInv
  <2>4. PostsRecorded'
    BY <1>0, <2>1, <2>2 DEF PostsRecorded, EveryPostIsAccounted
  <2>5. row.state # "none"
    BY <1>0 DEF NewRow
  <2>6. CASE Ends(c)
    <3> DEFINE new == AfterResult(c)
    <3>1. Commit(c, new) /\ Return(c)
      BY <1>2, <2>6 DEF Record
    <3>2. new.final # "none" /\ new.state # "none"
      BY <1>0, <2>1, FinalizedColumns DEF AfterResult, Receipts
    <3> HIDE DEF new
    <3>3. row'.final # "none" /\ row'.state # "none"
      <4>1. call[c].copy.final = "none"
        BY <2>1
      <4> QED
        BY <2>5, <3>1, <3>2, <4>1, CommitColumns
    <3>4. call'[c].at = "idle" /\ \A d \in Callers \ {c} : call'[d] = call[d]
      BY <1>0, <3>1 DEF Return, IdleCall
    <3>5. \A d \in Callers \ {c} : call[d].at \in SentPCs => call[d].n \in Attempts
      BY DEF LocalsAssigned, LoopPCs, SentPCs
    <3> QED
      BY <1>0, <2>2, <2>3, <2>4, <3>3, <3>4, <3>5, FinishStep DEF Unrecorded
  <2>7. CASE ~Ends(c)
    <3> DEFINE new == WithoutLease(call[c].copy)
    <3>1. /\ Commit(c, new) /\ ~Unbound(c)
          /\ call' = [call EXCEPT ![c] = [IdleCall EXCEPT !.at = "refresh", !.n = n + 1,
                                                          !.retry = call[c].retry]]
      BY <1>2, <2>7 DEF Record
    <3>2. /\ new.token = NoCaller /\ ~new.sent
          /\ new.state = call[c].copy.state /\ new.final = call[c].copy.final
      BY <1>0 DEF WithoutLease, Row
    <3> HIDE DEF new
    <3>3. /\ row'.token = NoCaller /\ ~row'.sent /\ row'.state = row.state
          /\ row'.final = row.final
      <4>1. call[c].copy.token = c /\ call[c].copy.sent
        BY <2>1
      <4> QED
        BY <3>1, <3>2, <4>1, CommitColumns
    <3>4. /\ call'[c].at = "refresh" /\ call'[c].n = n + 1
          /\ \A d \in Callers \ {c} : call'[d] = call[d]
      BY <1>0, <3>1 DEF IdleCall
    <3>5. n + 1 \in Attempts
      <4>1. call[c].retry = "yes" /\ n # MaxAttempts
        BY <1>0, <2>7, <3>1 DEF Ends, Unbound, Call
      <4> QED
        BY <2>1, <4>1 DEF Attempts
    <3>6. LeaseIsNext' /\ EveryPostIsAccounted'
      BY <2>4, <3>3 DEF LeaseIsNext, EveryPostIsAccounted, PostsRecorded
    <3>7. HeirInv(c)'
      BY <2>2, <2>3, <3>3, <3>4, <3>5 DEF HeirInv, Unrecorded
    <3>8. (call[c].at \in LoopPCs => Follows(call[c].n))'
      BY <2>2, <3>4 DEF Follows
    <3>9. CallInv(c)'
      BY <3>4, <3>7, <3>8 DEF CallInv, HeadInv, SentInv, PostInv, CopyInv, HeadPCs, SentPCs
    <3>10. \A d \in Callers \ {c} : call[d].at = "post" /\ call'[c].at = "post"
                                       => call'[c].n # call[d].n
      BY <3>4
    <3> QED
      BY <1>0, <2>1, <2>2, <2>3, <2>5, <3>3, <3>4, <3>6, <3>9, <3>10, LeaseStep
  <2> QED
    BY <2>6, <2>7
<1> QED
  BY <1>1, <1>2

(* Every step keeps the invariant. *)
LEMMA ExecStep ==
    ASSUME RowLocks, TypeOK, LocalsAssigned, LockedCopyIsCurrent, ExecInv, [Next]_vars
    PROVE  ExecInv'
<1>1. ASSUME NEW c \in Callers, Opening(c)
      PROVE  ExecInv'
  BY <1>1, ReadingSteps, RecordingSteps, InsertStep, ResetStep DEF Opening
<1>2. ASSUME NEW c \in Callers, Sending(c)
      PROVE  ExecInv'
  BY <1>2, ReadingSteps, ClosingSteps, RecordingSteps, ReserveStep, BoundaryStep, PostStep,
     RecordStep DEF Sending
<1>3. ASSUME NEW c \in Callers, Controlling(c) \/ Crash(c)
      PROVE  ExecInv'
  BY <1>3, ReadingSteps, ClosingSteps DEF Controlling
<1>4. CASE UNCHANGED <<row, results, call, posts>>
  <2>1. Prefix' /\ NewRow' /\ LeaseIsNext' /\ EveryPostIsAccounted' /\ AttemptPostedOnce'
    BY <1>4 DEF ExecInv, Prefix, NewRow, LeaseIsNext, Follows, Unrecorded,
       EveryPostIsAccounted, AttemptPostedOnce
  <2>2. (row.final # "none" => PostsRecorded)'
    BY <1>4 DEF ExecInv, PostsRecorded
  <2>3. ASSUME NEW d \in Callers
        PROVE  CallInv(d)'
    <3>1. CallInv(d)
      BY DEF ExecInv
    <3> QED
      BY <1>4, <3>1 DEF CallInv, HeirInv, HeadInv, SentInv, PostInv, CopyInv, Follows, Unrecorded
  <2> QED
    BY <2>1, <2>2, <2>3 DEF ExecInv
<1>5. CASE LeaseAges
  BY <1>4, <1>5 DEF LeaseAges, ledger, network
<1>6. CASE UNCHANGED vars
  BY <1>4, <1>6 DEF vars
<1> QED
  BY <1>1, <1>2, <1>3, <1>5, <1>6 DEF Next

(* Nothing has been leased, sent or recorded at first. *)
LEMMA ExecInit ==
    ASSUME Init
    PROVE  ExecInv
<1>1. /\ row.state = "none" /\ row.token = NoCaller /\ row.final = "none" /\ ~row.sent
      /\ \A a \in Attempts : results[a] = "none" /\ posts[a] = 0
      /\ \A c \in Callers : call[c].at = "idle"
  BY DEF Init, NoRow, IdleCall
<1>2. Prefix
  <2>1. 0 \in 0..MaxAttempts /\ \A a \in Attempts : ~(a <= 0)
    BY DEF Attempts
  <2> QED
    BY <1>1, <2>1 DEF Prefix
<1>3. NewRow /\ LeaseIsNext /\ EveryPostIsAccounted /\ AttemptPostedOnce
  BY <1>1 DEF NewRow, LeaseIsNext, EveryPostIsAccounted, AttemptPostedOnce
<1>4. \A c \in Callers : CallInv(c)
  BY <1>1 DEF CallInv, HeirInv, HeadInv, SentInv, PostInv, CopyInv, LoopPCs, HeirPCs,
     HeadPCs, SentPCs
<1> QED
  BY <1>1, <1>2, <1>3, <1>4 DEF ExecInv

(***************************************************************************)
(* Where rows are locked (PostgreSQL), the calls of execute_delivery,      *)
(* cancel and reconcile keep the row, the result rows and each other in    *)
(* the relation ExecInv describes: a lease is for the first attempt that   *)
(* has no result, an unfinished row without a lease has one heir, and a    *)
(* call that has sent keeps the row until its attempt is recorded.         *)
(***************************************************************************)
THEOREM ExecutionInvariant ==
    ASSUME RowLocks
    PROVE  Spec => []ExecInv
<1>1. Init => ExecInv
  BY ExecInit
<1>2. TypeOK /\ LocalsAssigned /\ LockedCopyIsCurrent /\ ExecInv /\ [Next]_vars => ExecInv'
  BY ExecStep
<1> QED
  BY <1>1, <1>2, TypeCorrect, LockedReadsAreCurrent, PTL DEF Spec

(***************************************************************************)
(* Where rows are locked, no attempt number is put on the wire twice,      *)
(* however many calls execute, take over stale leases, retry or crash      *)
(* (the send boundary of execute_delivery).                                *)
(***************************************************************************)
THEOREM AttemptsPostedOnce ==
    ASSUME RowLocks
    PROVE  Spec => []AttemptPostedOnce
<1>1. ExecInv => AttemptPostedOnce
  BY DEF ExecInv
<1> QED
  BY <1>1, ExecutionInvariant, PTL

(***************************************************************************)
(* Where rows are locked, an attempt on the wire has its result row, or    *)
(* the row still shows it as the started attempt of a lease, so that       *)
(* recovery in _claim finds it: no send is forgotten.                      *)
(***************************************************************************)
THEOREM PostsAreAccounted ==
    ASSUME RowLocks
    PROVE  Spec => []EveryPostIsAccounted
<1>1. ExecInv => EveryPostIsAccounted
  BY DEF ExecInv
<1> QED
  BY <1>1, ExecutionInvariant, PTL

-----------------------------------------------------------------------------
(* Outcomes and receipts *)

\* A receipt in a call's local variables is the receiver's decision.
ReceiptInv ==
    \A c \in Callers : call[c].response \in Receipts => durable = call[c].response

(* What a step leaves alone: the receiver's decision, once it is made, the *)
(* results and the reconciliations.                                        *)
LEMMA EvidenceStep ==
    ASSUME TypeOK, NEW c \in Callers, Opening(c) \/ Sending(c) \/ Controlling(c) \/ Crash(c)
    PROVE  /\ durable # "none" => durable' = durable
           /\ \A a \in Attempts : results[a] # "none" => results'[a] = results[a]
           /\ evidence \subseteq evidence'
<1>0. results \in [Attempts -> Observations]
  BY DEF TypeOK
<1>1. ASSUME NEW a, Unrecorded(a), NEW o, Recorded(a, o)
      PROVE  \A b \in Attempts : results[b] # "none" => results'[b] = results[b]
  BY <1>0, <1>1 DEF Unrecorded, Recorded
<1> USE DEF ledger, network
<1>2. CASE Opening(c)
  BY <1>1, <1>2 DEF Opening, OpenNew, Insert, OpenLeased, Reset, Ambiguous, Reopen
<1>3. CASE Sending(c)
  BY <1>1, <1>3 DEF Sending, Refresh, CancelWrite, Reserve, HeadersFail, HeadersWrite,
     BoundaryRead, BoundaryCancel, BoundaryWrite, Post, PostRefused, Timeout, Arrives,
     ResultRead, Record
<1>4. CASE Controlling(c) \/ Crash(c)
  BY <1>4 DEF Controlling, CancelRead, CancelFlush, ReconcileRead, Query,
     ReconcileRefresh, ReconcileWrite, Crash
<1> QED
  BY <1>2, <1>3, <1>4

(* A response that is a receipt is the receiver's decision when it is taken. *)
LEMMA ReceiptStep ==
    ASSUME TypeOK, ReceiptInv, NEW c \in Callers,
           Opening(c) \/ Sending(c) \/ Controlling(c) \/ Crash(c)
    PROVE  ReceiptInv'
<1>0. call \in [Callers -> Call] /\ call[c] \in Call
  BY DEF TypeOK
<1>1. durable # "none" => durable' = durable
  BY EvidenceStep
<1>2. \A d \in Callers \ {c} : call'[d] = call[d]
  BY <1>0, OtherCalls
<1>3. call'[c].response = call[c].response \/ call'[c].response = durable'
        \/ call'[c].response \notin Receipts
  <2>1. IdleCall.response \notin Receipts
    BY DEF IdleCall, Receipts
  <2>2. CASE Return(c)
    BY <1>0, <2>1, <2>2 DEF Return
  <2>3. ASSUME NEW r, r \notin Receipts \/ r = durable', Answered(c, r)
        PROVE  call'[c].response = durable' \/ call'[c].response \notin Receipts
    <3>1. call'[c].response = r
      BY <1>0, <2>3 DEF Answered, Call
    <3> QED
      BY <2>3, <3>1
  <2>4. ASSUME NEW at, ReadTo(c, at) \/ Goto(c, at)
        PROVE  call'[c].response = call[c].response
    BY <1>0, <2>4 DEF ReadTo, Goto, Call
  <2>5. CASE Opening(c)
    BY <1>0, <2>2, <2>4, <2>5 DEF Opening, OpenNew, Insert, OpenLeased, Reset, Ambiguous,
       Reopen, Call
  <2>6. CASE Record(c)
    <3>1. CASE Return(c)
      BY <2>2, <3>1
    <3>2. CASE ~Return(c)
      <4>1. call'[c].response = "none"
        BY <1>0, <2>6, <3>2 DEF Record, IdleCall
      <4> QED
        BY <4>1 DEF Receipts
    <3> QED
      BY <3>1, <3>2
  <2>7. CASE Post(c)
    BY <1>0, <2>7 DEF Post, Call
  <2>8. ASSUME NEW n \in Attempts, Arrives(c, n)
        PROVE  call'[c].response = call[c].response \/ call'[c].response = durable'
                 \/ call'[c].response \notin Receipts
    BY <2>3, <2>8 DEF Arrives, Receipts
  <2>9. CASE PostRefused(c) \/ Timeout(c)
    BY <2>3, <2>9 DEF PostRefused, Timeout, Receipts
  <2>10. CASE Sending(c)
    BY <2>2, <2>4, <2>6, <2>7, <2>8, <2>9, <2>10 DEF Sending, Refresh, CancelWrite, Reserve,
       HeadersFail, HeadersWrite, BoundaryRead, BoundaryCancel, BoundaryWrite, ResultRead
  <2>11. CASE Query(c)
    <3>1. CASE call' = [call EXCEPT ![c].at = "reconRefresh", ![c].response = durable]
      BY <1>0, <2>11, <3>1 DEF Query, Call, network
    <3> QED
      BY <2>2, <2>11, <3>1 DEF Query
  <2>12. CASE Controlling(c) \/ Crash(c)
    BY <2>2, <2>4, <2>11, <2>12 DEF Controlling, CancelRead, CancelFlush, ReconcileRead,
       ReconcileRefresh, ReconcileWrite, Crash
  <2> QED
    BY <2>5, <2>10, <2>12
<1>4. \A d \in Callers : call'[d].response = call[d].response
                           \/ call'[d].response = durable' \/ call'[d].response \notin Receipts
  BY <1>2, <1>3
<1>5. "none" \notin Receipts
  BY DEF Receipts
<1> QED
  BY <1>1, <1>4, <1>5 DEF ReceiptInv

(* The outcome a step writes: accepted or rejected only from the local *)
(* response, together with its evidence row.                           *)
LEMMA OutcomeStep ==
    ASSUME TypeOK, LocalsAssigned, NEW c \in Callers,
           Opening(c) \/ Sending(c) \/ Controlling(c) \/ Crash(c)
    PROVE  \/ row'.final = row.final
           \/ row'.final \notin Receipts
           \/ /\ row'.final = call[c].response
              /\ row'.final \in evidence' \/ \E a \in Attempts : results'[a] = row'.final
<1>0. /\ call \in [Callers -> Call] /\ call[c] \in Call /\ row \in Row /\ call[c].copy \in Row
      /\ results \in [Attempts -> Observations]
  BY DEF TypeOK, Call
<1>r. ASSUME NEW n \in Attempts, NEW o, Recorded(n, o)
      PROVE  results'[n] = o
  BY <1>r DEF Recorded, TypeOK
<1>1. ASSUME NEW new, Commit(c, new), new.final = call[c].copy.final \/ new.final \notin Receipts
      PROVE  row'.final = row.final \/ row'.final \notin Receipts
  BY <1>1, CommitColumns
<1>2. /\ "unknown" \notin Receipts /\ "none" \notin Receipts
  BY DEF Receipts
<1>3. ASSUME NEW s, Commit(c, Finalized(call[c].copy, s, "unknown"))
                      \/ Commit(c, Finalized(WithoutLease(call[c].copy), s, "unknown"))
      PROVE  row'.final = row.final \/ row'.final \notin Receipts
  BY <1>0, <1>1, <1>2, <1>3, FinalizedColumns
<1>4. CASE Insert(c)
  BY <1>2, <1>4 DEF Insert, NoRow
<1>5. CASE Reset(c)
  <2> DEFINE new == [call[c].copy EXCEPT !.state = "pending", !.token = NoCaller, !.attempt = 0]
  <2>1. Commit(c, new)
    BY <1>5 DEF Reset
  <2>2. new.final = call[c].copy.final
    BY <1>0 DEF Row
  <2> QED
    BY <1>1, <2>1, <2>2
<1>6. CASE Opening(c)
  BY <1>3, <1>4, <1>5, <1>6 DEF Opening, OpenNew, OpenLeased, Ambiguous, Reopen
<1>7. CASE Reserve(c) \/ BoundaryWrite(c)
  <2> DEFINE reserved == [call[c].copy EXCEPT !.state = "reserved", !.token = c,
                                              !.sent = FALSE, !.attempt = call[c].n]
             sending == [call[c].copy EXCEPT !.state = "in-flight", !.sent = TRUE]
  <2>1. Commit(c, reserved) \/ Commit(c, sending)
    BY <1>7 DEF Reserve, BoundaryWrite
  <2>2. reserved.final = call[c].copy.final /\ sending.final = call[c].copy.final
    BY <1>0 DEF Row
  <2> HIDE DEF reserved, sending
  <2> QED
    BY <1>1, <2>1, <2>2
<1>8. CASE Record(c)
  <2>0. call[c].n \in Attempts
    BY <1>8 DEF Record, LocalsAssigned, LoopPCs
  <2>1. CASE Commit(c, WithoutLease(call[c].copy))
    <3>1. WithoutLease(call[c].copy).final = call[c].copy.final
      BY <1>0 DEF WithoutLease, Row
    <3> QED
      BY <1>1, <2>1, <3>1
  <2>2. CASE Commit(c, AfterResult(c)) /\ Recorded(call[c].n, call[c].response)
    <3>1. CASE call[c].response \in Receipts
      <4>1. Commit(c, Finalized(WithoutLease(call[c].copy), "completed", call[c].response))
        BY <2>2, <3>1 DEF AfterResult
      <4>2. row'.final \in {row.final, call[c].response}
        BY <1>0, <4>1, CommitColumns, FinalizedColumns
      <4>3. results'[call[c].n] = call[c].response
        BY <1>r, <2>0, <2>2
      <4> QED
        BY <2>0, <4>2, <4>3
    <3>2. CASE call[c].response \notin Receipts
      <4>1. PICK s : AfterResult(c) = Finalized(WithoutLease(call[c].copy), s, "unknown")
        BY <3>2 DEF AfterResult
      <4> QED
        BY <1>3, <2>2, <4>1
    <3> QED
      BY <3>1, <3>2
  <2> QED
    BY <1>8, <2>1, <2>2 DEF Record
<1>9. CASE Sending(c)
  BY <1>3, <1>7, <1>8, <1>9 DEF Sending, Refresh, CancelWrite, HeadersFail, HeadersWrite,
     BoundaryRead, BoundaryCancel, Post, PostRefused, Timeout, Arrives, ResultRead
<1>10. CASE CancelFlush(c)
  <2> DEFINE new == [call[c].copy EXCEPT !.cancel = TRUE]
  <2>1. new \in Row /\ new.final = call[c].copy.final
    BY <1>0 DEF Row
  <2>2. CASE Commit(c, new)
    BY <1>1, <2>1, <2>2
  <2>3. CASE Commit(c, Finalized(new, "cancelled", "unknown"))
    BY <1>1, <1>2, <2>1, <2>3, FinalizedColumns
  <2> QED
    BY <1>10, <2>2, <2>3 DEF CancelFlush
<1>11. CASE ReconcileWrite(c)
  <2>1. row'.final \in {row.final, call[c].response}
    BY <1>0, <1>11, CommitColumns, FinalizedColumns DEF ReconcileWrite
  <2> QED
    BY <1>11, <2>1 DEF ReconcileWrite
<1>12. CASE Controlling(c) \/ Crash(c)
  BY <1>10, <1>11, <1>12 DEF Controlling, CancelRead, ReconcileRead, Query, ReconcileRefresh,
     Crash
<1> QED
  BY <1>6, <1>9, <1>12

(***************************************************************************)
(* A final outcome accepted or rejected is the durable decision of the     *)
(* controlled receiver and has a result or reconciliation row, with row    *)
(* locks and without them.                                                 *)
(***************************************************************************)
THEOREM OutcomesAreReceipted == Spec => []OutcomeIsReceipted
<1>1. Init => ReceiptInv /\ OutcomeIsReceipted
  BY DEF Init, ReceiptInv, OutcomeIsReceipted, IdleCall, NoRow, Receipts
<1>2. TypeOK /\ LocalsAssigned /\ ReceiptInv /\ OutcomeIsReceipted /\ [Next]_vars
        => ReceiptInv' /\ OutcomeIsReceipted'
  <2> SUFFICES ASSUME TypeOK, LocalsAssigned, ReceiptInv, OutcomeIsReceipted, [Next]_vars
               PROVE  ReceiptInv' /\ OutcomeIsReceipted'
    OBVIOUS
  <2>1. ASSUME NEW c \in Callers, Opening(c) \/ Sending(c) \/ Controlling(c) \/ Crash(c)
        PROVE  ReceiptInv' /\ OutcomeIsReceipted'
    <3>1. ReceiptInv'
      BY <2>1, ReceiptStep
    <3>2. /\ durable # "none" => durable' = durable
          /\ \A a \in Attempts : results[a] # "none" => results'[a] = results[a]
          /\ evidence \subseteq evidence'
      BY <2>1, EvidenceStep
    <3>3. "none" \notin Receipts
      BY DEF Receipts
    <3>4. CASE row'.final = row.final
      BY <3>1, <3>2, <3>3, <3>4 DEF OutcomeIsReceipted
    <3>5. CASE row'.final \notin Receipts
      BY <3>1, <3>5 DEF OutcomeIsReceipted
    <3>6. CASE /\ row'.final = call[c].response /\ row'.final \in Receipts
               /\ row'.final \in evidence' \/ \E a \in Attempts : results'[a] = row'.final
      <4>1. durable' = row'.final
        BY <3>2, <3>3, <3>6 DEF ReceiptInv
      <4> QED
        BY <3>1, <3>6, <4>1 DEF OutcomeIsReceipted
    <3> QED
      BY <2>1, <3>1, <3>4, <3>5, <3>6, OutcomeStep
  <2>2. CASE LeaseAges \/ UNCHANGED vars
    BY <2>2 DEF LeaseAges, vars, ledger, network, ReceiptInv, OutcomeIsReceipted
  <2> QED
    BY <2>1, <2>2 DEF Next
<1> QED
  BY <1>1, <1>2, TypeCorrect, PTL DEF Spec
=============================================================================
