------------------------ MODULE ConversationTurnsProofs ------------------------
(***************************************************************************)
(* Proofs about ConversationTurns for any number of calls, messages,       *)
(* dispatches and other requests, and any number of crashes: one turn runs *)
(* at a time, a native execution that may still run keeps its turn and     *)
(* with it the conversation locked, and a finished turn stays finished.    *)
(* Of the gateway the proofs use what RemoteTask specifies.                *)
(***************************************************************************)
EXTENDS ConversationTurns, Integers, TLAPS

USE ConversationConstants

-----------------------------------------------------------------------------
(* The inductive invariant *)

\* Where a call runs the turn it has inserted: with no dispatch in progress, or
\* with the one in cur.
Between == {"working", "answered", "replying", "failing"}
Dispatching == {"saving", "saved", "waiting", "unresolved"}
Open == {"inserted"} \cup Between \cup Dispatching
Active == Open \cup {"closing"}

\* What a call has read still excludes that a turn was inserted since.
ClaimInv ==
    conv = "active" =>
        \A c \in Calls :
            /\ pc[c] \in {"read", "claim"} => seen[c] <= rev
            /\ pc[c] = "claim" /\ free[c] /\ seen[c] = rev => NoneRunning

\* A turn has one call, registered from before its first dispatch to its end.
CallInv ==
    /\ \A c \in Calls :
          /\ pc[c] \notin {"idle", "done"} => msg[c] \in Messages
          /\ pc[c] \in Active => turn[msg[c]] # "none"
          /\ pc[c] \in Open => Running(msg[c])
          /\ pc[c] \in Active \ {"inserted"} => msg[c] \in runners
          /\ pc[c] = "inserted" => bound[msg[c]] = NoDispatch
    /\ \A c, e \in Calls : pc[c] \in Active /\ pc[e] \in Active /\ msg[c] = msg[e] => c = e
    /\ \A m \in Messages : turn[m] = "none" => bound[m] = NoDispatch

Idle(m) == \A c \in Calls : pc[c] \in Active => msg[c] # m

\* A request goes on to recover or settle a turn that no call runs any more.
QueryInv ==
    \A q \in Requesters :
        /\ qpc[q] \notin {"idle", "close"} => qmsg[q] \in Messages /\ turn[qmsg[q]] # "none"
        /\ qpc[q] = "loaded" /\ qbound[q] # NoDispatch => bound[qmsg[q]] # NoDispatch
        /\ qpc[q] \in {"recover", "probing", "settle"} =>
              qbound[q] \in Dispatches /\ Idle(qmsg[q])
        /\ qpc[q] = "settle" => exec[qbound[q]] = "over"

\* A dispatch has a turn; at most the current one of a call may run.
DispatchInv ==
    /\ \A d \in Dispatches :
          /\ sent[d] => by[d] # NoMessage
          /\ proof[d] => exec[d] = "over"
          /\ by[d] # NoMessage => turn[by[d]] # "none"
    /\ \A c \in Calls :
          /\ pc[c] \in Between =>
                \A d \in Dispatches : by[d] = msg[c] => ~MayRun(d)
          /\ pc[c] \in Dispatching =>
                /\ cur[c] \in Dispatches /\ by[cur[c]] = msg[c]
                /\ \A d \in Dispatches \ {cur[c]} : by[d] = msg[c] => ~MayRun(d)
          /\ pc[c] \in {"saving", "saved"} => ~sent[cur[c]]
          /\ pc[c] \in {"saved", "waiting", "unresolved"} => bound[msg[c]] = cur[c]

TurnsInv == TypeOK /\ OneRunningTurn /\ ClaimInv /\ CallInv /\ QueryInv /\ DispatchInv /\ NativeIsLocked

-----------------------------------------------------------------------------
(* What a step leaves alone *)

LEMMA Points ==
    /\ Between = {"working", "answered", "replying", "failing"}
    /\ Dispatching = {"saving", "saved", "waiting", "unresolved"}
    /\ Open = {"inserted", "working", "answered", "replying", "failing", "saving", "saved",
               "waiting", "unresolved"}
    /\ Active = {"inserted", "working", "answered", "replying", "failing", "saving", "saved",
                 "waiting", "unresolved", "closing"}
  BY DEF Between, Dispatching, Open, Active

\* No turn begins, or the revision grows: what was read before is void.
LEMMA ClaimStands ==
    ASSUME TypeOK, TypeOK', ClaimInv, conv' = "active" => conv = "active" /\ rev <= rev',
           rev' > rev \/ \A m \in Messages : turn'[m] = "running" => turn[m] = "running",
           \A c \in Calls : pc'[c] \in {"read", "claim"} =>
              pc'[c] = pc[c] /\ seen'[c] = seen[c] /\ free'[c] = free[c]
    PROVE  ClaimInv'
<1>1. rev \in Int /\ rev' \in Int /\ \A c \in Calls : seen[c] \in Int
  BY DEF TypeOK
<1>2. SUFFICES ASSUME conv' = "active", NEW c \in Calls, pc'[c] \in {"read", "claim"}
               PROVE  /\ seen'[c] <= rev'
                      /\ pc'[c] = "claim" /\ free'[c] /\ seen'[c] = rev' => NoneRunning'
  BY DEF ClaimInv
<1>3. /\ pc[c] = pc'[c] /\ seen'[c] = seen[c] /\ free'[c] = free[c] /\ conv = "active" /\ rev <= rev'
  BY <1>2
<1>4. /\ seen[c] <= rev
      /\ pc[c] = "claim" /\ free[c] /\ seen[c] = rev => NoneRunning
  BY <1>2, <1>3 DEF ClaimInv
<1>5. seen[c] <= rev'
  BY <1>1, <1>3, <1>4
<1>6. seen[c] = rev' => seen[c] = rev /\ ~(rev' > rev)
  BY <1>1, <1>3, <1>4
<1> QED
  BY <1>3, <1>4, <1>5, <1>6 DEF NoneRunning, Running

\* A call that runs no turn goes on.
LEMMA QuietCall ==
    ASSUME TurnsInv, NEW c \in Calls, pc[c] \notin Active, pc'[c] \notin Active, TypeOK', ClaimInv',
           UNCHANGED <<conv, rowVars, runtime, runners, queryVars, by, crashes, remoteVars>>,
           \A e \in Calls \ {c} : pc'[e] = pc[e] /\ msg'[e] = msg[e] /\ cur'[e] = cur[e],
           pc'[c] \notin {"idle", "done"} => msg'[c] \in Messages
    PROVE  TurnsInv'
<1> USE DEF TurnsInv
<1>1. UNCHANGED <<turn, err, bound, rev, qpc, qmsg, qbound, qrev, sent, exec, verdict, proof>>
  BY DEF rowVars, queryVars, remoteVars
<1>2. OneRunningTurn' /\ NativeIsLocked'
  BY <1>1 DEF OneRunningTurn, NativeIsLocked, Running, MayRun
<1>3. CallInv'
  <2>1. ASSUME NEW e \in Calls
        PROVE  /\ pc'[e] \notin {"idle", "done"} => msg'[e] \in Messages
               /\ pc'[e] \in Active => e # c /\ pc'[e] = pc[e] /\ msg'[e] = msg[e]
    BY DEF CallInv
  <2> QED
    BY <1>1, <2>1 DEF CallInv, Running, Open, Active
<1>4. QueryInv'
  BY <1>1 DEF QueryInv, Idle
<1>5. DispatchInv'
  <2>1. ASSUME NEW e \in Calls, pc'[e] \in Active
        PROVE  pc'[e] = pc[e] /\ msg'[e] = msg[e] /\ cur'[e] = cur[e]
    BY <2>1
  <2> QED
    BY <1>1, <2>1, Points DEF DispatchInv, MayRun
<1> QED
  BY <1>2, <1>3, <1>4, <1>5

\* A call that runs a turn goes on: the rows and requests of the others stand.
LEMMA OpenMove ==
    ASSUME TurnsInv, NEW c \in Calls, pc[c] \in Open, pc'[c] \in Open \ {"inserted"}, TypeOK',
           UNCHANGED <<conv, turn, rev, msg, seen, free, queryVars>>,
           \A e \in Calls \ {c} : pc'[e] = pc[e],
           runners' = runners \cup {msg[c]} \/ (pc[c] # "inserted" /\ UNCHANGED runners),
           \/ bound' = bound
           \/ pc[c] # "inserted" /\ \E d \in Dispatches : bound' = [bound EXCEPT ![msg[c]] = d],
           \A d \in Dispatches : exec[d] = "over" => exec'[d] = "over"
    PROVE  OneRunningTurn' /\ ClaimInv' /\ CallInv' /\ QueryInv'
<1> USE DEF TurnsInv
<1>1. UNCHANGED <<qpc, qmsg, qbound, qrev>>
  BY DEF queryVars
<1>t. bound \in [Messages -> Dispatches \cup {NoDispatch}] /\ rev \in Nat /\ msg[c] \in Messages
  BY Points DEF TypeOK, CallInv
<1>2. OneRunningTurn'
  BY DEF OneRunningTurn, Running
<1>3. ClaimInv'
  <2>1. \A e \in Calls : pc'[e] \in {"read", "claim"} => pc'[e] = pc[e]
    BY Points
  <2> QED
    BY <1>t, <2>1, ClaimStands
<1>4. /\ \A m \in Messages \ {msg[c]} : bound'[m] = bound[m]
      /\ \A m \in Messages : bound[m] # NoDispatch => bound'[m] # NoDispatch
  BY <1>t
<1>5. CallInv'
  <2>1. /\ pc[c] \in Active /\ pc'[c] \in Active /\ Running(msg[c]) /\ turn[msg[c]] # "none"
        /\ \A e \in Calls : pc'[e] \in Active <=> pc[e] \in Active
        /\ msg[c] \in runners' /\ runners \subseteq runners'
    BY Points DEF CallInv
  <2>2. ASSUME NEW e \in Calls
        PROVE  /\ pc'[e] \notin {"idle", "done"} => msg[e] \in Messages
               /\ pc'[e] \in Active => turn[msg[e]] # "none"
               /\ pc'[e] \in Open => Running(msg[e])
               /\ pc'[e] \in Active \ {"inserted"} => msg[e] \in runners'
               /\ pc'[e] = "inserted" => bound'[msg[e]] = NoDispatch
    <3>1. CASE e = c
      BY <1>t, <2>1, <3>1
    <3>2. CASE e # c
      <4>1. pc[e] \in Active => msg[e] # msg[c]
        BY <2>1, <3>2 DEF CallInv
      <4> QED
        BY <1>4, <2>1, <3>2, <4>1, Points DEF CallInv
    <3> QED
      BY <3>1, <3>2
  <2>3. ASSUME NEW m \in Messages, turn[m] = "none"
        PROVE  bound'[m] = NoDispatch
    BY <1>4, <2>1, <2>3 DEF CallInv
  <2>4. \A e, f \in Calls : pc'[e] \in Active /\ pc'[f] \in Active /\ msg[e] = msg[f] => e = f
    BY <2>1 DEF CallInv
  <2> QED
    BY <2>2, <2>3, <2>4 DEF CallInv, Running
<1>6. QueryInv'
  <2>1. \A e \in Calls : pc'[e] \in Active <=> pc[e] \in Active
    BY Points
  <2> QED
    BY <1>1, <1>4, <2>1 DEF QueryInv, Idle
<1> QED
  BY <1>2, <1>3, <1>5, <1>6

-----------------------------------------------------------------------------
(* Admission and allocation *)

LEMMA ReturnTypes ==
    ASSUME TypeOK, NEW c \in Calls, Return(c)
    PROVE  /\ pc' \in [Calls -> CallPoints] /\ msg' \in [Calls -> Messages \cup {NoMessage}]
           /\ seen' \in [Calls -> Nat] /\ free' \in [Calls -> BOOLEAN] /\ tries' \in [Calls -> Nat]
           /\ cur' \in [Calls -> Dispatches \cup {NoDispatch}]
           /\ pc'[c] = "done"
           /\ \A e \in Calls \ {c} : /\ pc'[e] = pc[e] /\ msg'[e] = msg[e] /\ cur'[e] = cur[e]
                                     /\ seen'[e] = seen[e] /\ free'[e] = free[e]
  BY DEF TypeOK, Return, Allocated, Goto, CallPoints

\* The call has read nothing since, or has ended.
LEMMA QuietSteps ==
    ASSUME TurnsInv, NEW c \in Calls,
           \/ \E m \in Messages : SendMessage(c, m)
           \/ CheckDuplicate(c) \/ ReadRevision(c) \/ Snapshot(c)
    PROVE  TurnsInv'
<1>0. /\ TypeOK /\ ClaimInv /\ CallInv /\ pc \in [Calls -> CallPoints]
      /\ msg \in [Calls -> Messages \cup {NoMessage}]
      /\ seen \in [Calls -> Nat] /\ free \in [Calls -> BOOLEAN] /\ tries \in [Calls -> Nat]
      /\ rev \in Nat
  BY DEF TurnsInv, TypeOK
<1>u. /\ UNCHANGED <<conv, rowVars, runtime, runners, queryVars, by, crashes, remoteVars>>
      /\ UNCHANGED <<turn, err, bound, rev, qpc, qmsg, qbound, qrev, sent, exec, verdict, proof>>
      /\ pc[c] \notin Active
  BY Points DEF SendMessage, CheckDuplicate, ReadRevision, Snapshot, rowVars, queryVars, remoteVars
<1>t. ASSUME pc' \in [Calls -> CallPoints], msg' \in [Calls -> Messages \cup {NoMessage}],
             seen' \in [Calls -> Nat], free' \in [Calls -> BOOLEAN], tries' \in [Calls -> Nat],
             cur' \in [Calls -> Dispatches \cup {NoDispatch}]
      PROVE  TypeOK'
  BY <1>0, <1>t, <1>u DEF TypeOK, Remote!RemoteTypeOK
<1>1. CASE Return(c)
  <2>1. TypeOK' /\ pc'[c] = "done" /\ pc'[c] \notin Active
    BY <1>0, <1>1, <1>t, ReturnTypes, Points
  <2>2. \A e \in Calls \ {c} : /\ pc'[e] = pc[e] /\ msg'[e] = msg[e] /\ cur'[e] = cur[e]
                               /\ seen'[e] = seen[e] /\ free'[e] = free[e]
    BY <1>0, <1>1, ReturnTypes
  <2>3. ClaimInv'
    BY <1>0, <1>u, <2>1, <2>2, ClaimStands
  <2> QED
    BY <1>u, <2>1, <2>2, <2>3, QuietCall
<1>2. ASSUME NEW m \in Messages, SendMessage(c, m), ~Return(c)
      PROVE  TurnsInv'
  <2>1. /\ msg' = [msg EXCEPT ![c] = m] /\ pc' = [pc EXCEPT ![c] = "allocate"]
        /\ UNCHANGED <<seen, free, tries, cur>>
    BY <1>2 DEF SendMessage, Goto
  <2>2. TypeOK'
    BY <1>0, <1>t, <2>1 DEF TypeOK, CallPoints
  <2>3. ClaimInv'
    BY <1>0, <1>u, <2>1, <2>2, ClaimStands
  <2> QED
    BY <1>0, <1>u, <2>1, <2>2, <2>3, Points, QuietCall
<1>3. CASE CheckDuplicate(c) /\ ~Return(c)
  <2>1. /\ tries' = [tries EXCEPT ![c] = @ + 1] /\ pc' = [pc EXCEPT ![c] = "checked"]
        /\ UNCHANGED <<msg, seen, free, cur>> /\ pc[c] = "allocate"
    BY <1>3 DEF CheckDuplicate, Goto
  <2>2. TypeOK'
    BY <1>0, <1>t, <2>1 DEF TypeOK, CallPoints
  <2>3. ClaimInv'
    BY <1>0, <1>u, <2>1, <2>2, ClaimStands
  <2>4. msg'[c] \in Messages
    BY <1>0, <2>1 DEF CallInv
  <2> QED
    BY <1>0, <1>u, <2>1, <2>2, <2>3, <2>4, Points, QuietCall
<1>4. CASE ReadRevision(c)
  <2>1. /\ seen' = [seen EXCEPT ![c] = rev] /\ pc' = [pc EXCEPT ![c] = "read"]
        /\ UNCHANGED <<msg, free, tries, cur>> /\ pc[c] = "checked"
    BY <1>4 DEF ReadRevision, Goto
  <2>2. TypeOK'
    BY <1>0, <1>t, <2>1 DEF TypeOK, CallPoints
  <2>3. ClaimInv'
    BY <1>0, <1>u, <2>1 DEF ClaimInv, NoneRunning, Running
  <2>4. msg'[c] \in Messages
    BY <1>0, <2>1 DEF CallInv
  <2> QED
    BY <1>0, <1>u, <2>1, <2>2, <2>3, <2>4, Points, QuietCall
<1>5. CASE Snapshot(c)
  <2>1. /\ free' = [free EXCEPT ![c] = NoneRunning] /\ pc' = [pc EXCEPT ![c] = "claim"]
        /\ UNCHANGED <<msg, seen, tries, cur>> /\ pc[c] = "read"
    BY <1>5 DEF Snapshot, Goto
  <2>b. NoneRunning \in BOOLEAN
    BY DEF NoneRunning, Running
  <2>2. TypeOK'
    BY <1>0, <1>t, <2>1, <2>b DEF TypeOK, CallPoints
  <2>3. ClaimInv'
    <3>1. NoneRunning' = NoneRunning
      BY <1>u DEF NoneRunning, Running
    <3> QED
      BY <1>0, <1>u, <2>1, <3>1 DEF ClaimInv
  <2>4. msg'[c] \in Messages
    BY <1>0, <2>1 DEF CallInv
  <2> QED
    BY <1>0, <1>u, <2>1, <2>2, <2>3, <2>4, Points, QuietCall
<1> QED
  BY <1>1, <1>2, <1>3, <1>4, <1>5

\* The turn is inserted only if nothing has run since the revision was read.
LEMMA ClaimStep ==
    ASSUME TurnsInv, NEW c \in Calls, Claim(c)
    PROVE  TurnsInv'
<1> USE DEF TurnsInv
<1>0. /\ TypeOK /\ pc[c] = "claim" /\ pc \in [Calls -> CallPoints] /\ rev \in Nat
      /\ turn \in [Messages -> {"none", "running", "completed", "failed"}]
      /\ seen \in [Calls -> Nat] /\ free \in [Calls -> BOOLEAN] /\ tries \in [Calls -> Nat]
  BY DEF TypeOK, Claim
<1>m. PICK m \in Messages : m = msg[c]
  BY <1>0 DEF CallInv
<1>u. /\ UNCHANGED <<conv, err, bound, runtime, runners, queryVars, by, crashes, remoteVars>>
      /\ UNCHANGED <<qpc, qmsg, qbound, qrev, sent, exec, verdict, proof>>
      /\ pc[c] \notin Active
  BY <1>0, Points DEF Claim, queryVars, remoteVars
<1>1. CASE Claims(c) /\ Inserts(m)
  <2>1. /\ rev' = rev + 1 /\ turn' = [turn EXCEPT ![m] = "running"]
        /\ pc' = [pc EXCEPT ![c] = "inserted"] /\ UNCHANGED <<msg, cur>>
        /\ seen' = [seen EXCEPT ![c] = 0] /\ free' = [free EXCEPT ![c] = FALSE]
        /\ tries' = [tries EXCEPT ![c] = 0]
    BY <1>m, <1>1 DEF Claim, Goto, Allocated
  <2>2. TypeOK'
    BY <1>0, <1>u, <2>1 DEF TypeOK, CallPoints, Remote!RemoteTypeOK
  <2>3. NoneRunning /\ turn[m] = "none"
    BY <1>0, <1>1 DEF Claims, Inserts, ClaimInv
  <2>4. OneRunningTurn'
    BY <1>0, <2>1, <2>3 DEF OneRunningTurn, NoneRunning, Running
  <2>5. ClaimInv'
    <3>1. rev' > rev /\ rev <= rev'
      BY <1>0, <2>1
    <3>2. \A e \in Calls : pc'[e] \in {"read", "claim"} =>
             pc'[e] = pc[e] /\ seen'[e] = seen[e] /\ free'[e] = free[e]
      BY <1>0, <2>1
    <3> QED
      BY <1>0, <1>u, <2>2, <3>1, <3>2, ClaimStands
  <2>6. CallInv'
    <3>1. /\ turn'[m] = "running" /\ \A n \in Messages \ {m} : turn'[n] = turn[n]
          /\ pc'[c] = "inserted" /\ \A e \in Calls \ {c} : pc'[e] = pc[e]
          /\ bound[m] = NoDispatch
      BY <1>0, <2>1, <2>3 DEF CallInv
    <3>2. \A e \in Calls \ {c} : pc[e] \in Active => msg[e] # m
      BY <2>3 DEF CallInv
    <3> QED
      BY <1>m, <1>u, <2>1, <3>1, <3>2, Points DEF CallInv, Running
  <2>7. QueryInv'
    <3>1. \A q \in Requesters : qpc[q] \in {"recover", "probing", "settle"} => qmsg[q] # m
      BY <2>3 DEF QueryInv
    <3>2. \A n \in Messages : turn[n] # "none" => turn'[n] # "none"
      BY <1>0, <2>1
    <3>3. \A q \in Requesters : qpc[q] \in {"recover", "probing", "settle"} =>
             Idle(qmsg[q]) /\ Idle(qmsg[q])'
      <4>1. \A e \in Calls \ {c} : pc'[e] = pc[e]
        BY <1>0, <2>1
      <4> QED
        BY <1>m, <1>u, <2>1, <3>1, <4>1 DEF QueryInv, Idle
    <3> QED
      BY <1>u, <2>1, <3>2, <3>3 DEF QueryInv
  <2>8. \A n \in Messages : turn[n] # "none" => turn'[n] = turn[n]
    BY <1>0, <2>1, <2>3
  <2>9. DispatchInv'
    <3>1. \A d \in Dispatches : by[d] # NoMessage => turn[by[d]] # "none" /\ by[d] \in Messages
      BY DEF DispatchInv, TypeOK
    <3>2. \A e \in Calls : pc'[e] \in Between \cup Dispatching => pc'[e] = pc[e]
      BY <1>0, <2>1, Points
    <3> QED
      BY <1>u, <2>1, <2>8, <3>1, <3>2, Points DEF DispatchInv, MayRun
  <2>10. NativeIsLocked'
    BY <1>u, <2>8 DEF NativeIsLocked, MayRun, Running
  <2> QED
    BY <2>2, <2>4, <2>5, <2>6, <2>7, <2>9, <2>10
<1>2. CASE ~(Claims(c) /\ Inserts(m))
  <2>1. /\ UNCHANGED <<rev, turn>>
        /\ \/ pc' = [pc EXCEPT ![c] = "allocate"] /\ UNCHANGED <<msg, seen, free, tries, cur>>
           \/ Return(c)
    BY <1>m, <1>2 DEF Claim, Goto, callVars
  <2>2. /\ pc' \in [Calls -> CallPoints] /\ msg' \in [Calls -> Messages \cup {NoMessage}]
        /\ seen' \in [Calls -> Nat] /\ free' \in [Calls -> BOOLEAN] /\ tries' \in [Calls -> Nat]
        /\ cur' \in [Calls -> Dispatches \cup {NoDispatch}]
        /\ pc'[c] = "done" \/ (pc'[c] = "allocate" /\ msg'[c] = m)
        /\ \A e \in Calls \ {c} : /\ pc'[e] = pc[e] /\ msg'[e] = msg[e] /\ cur'[e] = cur[e]
                                  /\ seen'[e] = seen[e] /\ free'[e] = free[e]
    <3>1. CASE pc' = [pc EXCEPT ![c] = "allocate"] /\ UNCHANGED <<msg, seen, free, tries, cur>>
      BY <1>m, <3>1 DEF TypeOK, CallPoints
    <3>2. CASE Return(c)
      BY <1>0, <3>2, ReturnTypes
    <3> QED
      BY <2>1, <3>1, <3>2
  <2>3. TypeOK'
    BY <1>u, <2>1, <2>2 DEF TypeOK, Remote!RemoteTypeOK
  <2>4. ClaimInv'
    <3>1. rev <= rev' /\ \A n \in Messages : turn'[n] = "running" => turn[n] = "running"
      BY <1>0, <2>1
    <3>2. \A e \in Calls : pc'[e] \in {"read", "claim"} =>
             pc'[e] = pc[e] /\ seen'[e] = seen[e] /\ free'[e] = free[e]
      BY <2>2
    <3> QED
      BY <1>u, <2>3, <3>1, <3>2, ClaimStands
  <2>5. UNCHANGED <<conv, rowVars, runtime, runners, queryVars, by, crashes, remoteVars>>
    BY <1>u, <2>1 DEF rowVars
  <2> QED
    BY <1>u, <2>2, <2>3, <2>4, <2>5, Points, QuietCall
<1> QED
  BY <1>1, <1>2

-----------------------------------------------------------------------------
(* The runner *)

\* A call goes on with its turn m and leaves the dispatches of others alone.
LEMMA OpenStep ==
    ASSUME TurnsInv, NEW c \in Calls, NEW m \in Messages, m = msg[c],
           pc[c] \in Open, pc'[c] \in Open \ {"inserted"}, TypeOK',
           UNCHANGED <<conv, turn, rev, msg, seen, free, queryVars, exec, proof>>,
           \A e \in Calls \ {c} : pc'[e] = pc[e] /\ cur'[e] = cur[e],
           runners' = runners \cup {m} \/ (pc[c] # "inserted" /\ UNCHANGED runners),
           \/ bound' = bound
           \/ pc[c] # "inserted" /\ \E d \in Dispatches : bound' = [bound EXCEPT ![m] = d],
           \A d \in Dispatches : /\ by'[d] = by[d] \/ (by[d] = NoMessage /\ by'[d] = m)
                                 /\ sent'[d] => sent[d] \/ by[d] = m,
           pc'[c] \in Between => \A d \in Dispatches : by'[d] = m => ~MayRun(d)',
           pc'[c] \in Dispatching =>
              /\ cur'[c] \in Dispatches /\ by'[cur'[c]] = m
              /\ \A d \in Dispatches : d # cur'[c] /\ by'[d] = m => ~MayRun(d)',
           pc'[c] \in {"saving", "saved"} => ~sent'[cur'[c]],
           pc'[c] \in {"saved", "waiting", "unresolved"} => bound'[m] = cur'[c]
    PROVE  TurnsInv'
<1> USE DEF TurnsInv
<1>1. OneRunningTurn' /\ ClaimInv' /\ CallInv' /\ QueryInv'
  <2>1. /\ \A e \in Calls \ {c} : pc'[e] = pc[e]
        /\ runners' = runners \cup {msg[c]} \/ (pc[c] # "inserted" /\ UNCHANGED runners)
        /\ \/ bound' = bound
           \/ pc[c] # "inserted" /\ \E d \in Dispatches : bound' = [bound EXCEPT ![msg[c]] = d]
        /\ UNCHANGED <<conv, turn, rev, msg, seen, free, queryVars>>
    OBVIOUS
  <2>2. \A d \in Dispatches : exec[d] = "over" => exec'[d] = "over"
    OBVIOUS
  <2> QED
    BY <2>1, <2>2, OpenMove
<1>2. /\ pc[c] \in Active /\ Running(m) /\ turn[m] # "none"
      /\ \A e \in Calls \ {c} : pc[e] \in Active => msg[e] # m
  BY Points DEF CallInv
<1>b. \A n \in Messages \ {m} : bound'[n] = bound[n]
  BY DEF TypeOK
<1>3. \A d \in Dispatches : by'[d] # m => by'[d] = by[d] /\ (MayRun(d)' => MayRun(d))
  BY DEF MayRun
<1>4. DispatchInv'
  <2>1. ASSUME NEW d \in Dispatches
        PROVE  /\ sent'[d] => by'[d] # NoMessage
               /\ proof'[d] => exec'[d] = "over"
               /\ by'[d] # NoMessage => turn'[by'[d]] # "none"
    BY <1>2 DEF DispatchInv
  <2>2. ASSUME NEW e \in Calls
        PROVE  /\ pc'[e] \in Between =>
                     \A d \in Dispatches : by'[d] = msg'[e] => ~MayRun(d)'
               /\ pc'[e] \in Dispatching =>
                     /\ cur'[e] \in Dispatches /\ by'[cur'[e]] = msg'[e]
                     /\ \A d \in Dispatches \ {cur'[e]} : by'[d] = msg'[e] => ~MayRun(d)'
               /\ pc'[e] \in {"saving", "saved"} => ~sent'[cur'[e]]
               /\ pc'[e] \in {"saved", "waiting", "unresolved"} => bound'[msg'[e]] = cur'[e]
    <3>1. CASE e = c
      BY <3>1
    <3>2. CASE e # c /\ pc[e] \in Between \cup Dispatching
      <4>1. /\ msg'[e] = msg[e] /\ msg[e] # m /\ msg[e] \in Messages /\ pc'[e] = pc[e]
            /\ cur'[e] = cur[e] /\ bound'[msg[e]] = bound[msg[e]]
        BY <1>2, <1>b, <3>2, Points DEF CallInv
      <4>2. /\ pc[e] \in Between => \A d \in Dispatches : by[d] = msg[e] => ~MayRun(d)
            /\ pc[e] \in Dispatching =>
                  /\ cur[e] \in Dispatches /\ by[cur[e]] = msg[e]
                  /\ \A d \in Dispatches \ {cur[e]} : by[d] = msg[e] => ~MayRun(d)
            /\ pc[e] \in {"saving", "saved"} => ~sent[cur[e]]
            /\ pc[e] \in {"saved", "waiting", "unresolved"} => bound[msg[e]] = cur[e]
        BY DEF DispatchInv
      <4>3. pc[e] \in Dispatching =>
               by'[cur[e]] = msg[e] /\ (sent'[cur[e]] => sent[cur[e]])
        BY <4>1, <4>2
      <4> QED
        BY <1>3, <4>1, <4>2, <4>3, Points
    <3>3. CASE e # c /\ pc[e] \notin Between \cup Dispatching
      BY <3>3, Points
    <3> QED
      BY <3>1, <3>2, <3>3
  <2> QED
    BY <2>1, <2>2 DEF DispatchInv
<1>5. NativeIsLocked'
  <2>1. ASSUME NEW d \in Dispatches, MayRun(d)'
        PROVE  by'[d] \in Messages /\ Running(by[d])' /\ bound'[by'[d]] = d
    <3>1. CASE by'[d] # m
      <4>1. by'[d] = by[d] /\ MayRun(d)
        BY <1>3, <2>1, <3>1
      <4> QED
        BY <1>b, <3>1, <4>1 DEF NativeIsLocked, Running
    <3>2. CASE by'[d] = m
      <4>1. pc'[c] \in Dispatching /\ cur'[c] = d /\ pc'[c] \notin {"saving", "saved"}
        BY <2>1, <3>2, Points DEF MayRun
      <4> QED
        BY <1>2, <3>2, <4>1, Points DEF Running
    <3> QED
      BY <3>1, <3>2
  <2> QED
    BY <2>1 DEF NativeIsLocked
<1> QED
  BY <1>1, <1>4, <1>5

\* What OpenStep needs to know of the state before.
LEMMA OpenFacts ==
    ASSUME TurnsInv, NEW c \in Calls, pc[c] \in Open
    PROVE  /\ msg[c] \in Messages /\ Running(msg[c])
           /\ pc[c] \in Between \cup {"inserted"} => \A d \in Dispatches : by[d] = msg[c] => ~MayRun(d)
           /\ pc[c] \in Dispatching =>
                /\ cur[c] \in Dispatches /\ by[cur[c]] = msg[c]
                /\ \A d \in Dispatches \ {cur[c]} : by[d] = msg[c] => ~MayRun(d)
           /\ pc[c] \in {"saving", "saved"} => ~sent[cur[c]]
           /\ pc[c] \in {"saved", "waiting", "unresolved"} => bound[msg[c]] = cur[c]
<1>1. msg[c] \in Messages /\ Running(msg[c])
  BY Points DEF TurnsInv, CallInv
<1>2. pc[c] = "inserted" => \A d \in Dispatches : by[d] = msg[c] => ~MayRun(d)
  BY DEF TurnsInv, CallInv, NativeIsLocked
<1> QED
  BY <1>1, <1>2 DEF TurnsInv, DispatchInv

LEMMA RunnerSteps ==
    ASSUME TurnsInv, NEW c \in Calls,
           \/ Register(c) \/ PersistDispatch(c) \/ GatewaySends(c) \/ Answered(c) \/ Unresolved(c)
           \/ Reply(c) \/ RunnerFails(c)
           \/ \E d \in Dispatches : Dispatch(c, d)
    PROVE  TurnsInv'
<1>o. pc[c] \in Open
  BY Points DEF Register, PersistDispatch, GatewaySends, MaySend, Answered, Unresolved, Reply,
                RunnerFails, Dispatch
<1>m. PICK m \in Messages : m = msg[c]
  BY <1>o, OpenFacts
<1>0. /\ TypeOK /\ pc \in [Calls -> CallPoints] /\ bound \in [Messages -> Dispatches \cup {NoDispatch}]
      /\ cur \in [Calls -> Dispatches \cup {NoDispatch}]
      /\ by \in [Dispatches -> Messages \cup {NoMessage}] /\ Remote!RemoteTypeOK
      /\ verdict \in [Dispatches -> {"none", "settled", "unresolved"}]
      /\ sent \in [Dispatches -> BOOLEAN] /\ Open \subseteq CallPoints
  BY DEF TurnsInv, TypeOK, Remote!RemoteTypeOK, CallPoints, Open, Between, Dispatching
<1>1. /\ Running(m)
      /\ pc[c] \in Between \cup {"inserted"} => \A d \in Dispatches : by[d] = m => ~MayRun(d)
      /\ pc[c] \in Dispatching =>
           /\ cur[c] \in Dispatches /\ by[cur[c]] = m
           /\ \A d \in Dispatches \ {cur[c]} : by[d] = m => ~MayRun(d)
      /\ pc[c] \in {"saving", "saved"} => ~sent[cur[c]]
      /\ pc[c] \in {"saved", "waiting", "unresolved"} => bound[m] = cur[c]
  BY <1>o, <1>m, OpenFacts
\* The runner goes on without a dispatch in progress.
<1>2. ASSUME NEW p \in Between, pc' = [pc EXCEPT ![c] = p],
             \A d \in Dispatches : by[d] = m => ~MayRun(d),
             UNCHANGED <<conv, turn, err, bound, rev, runtime, msg, seen, free, tries, cur,
                         qpc, qmsg, qbound, qrev, by, crashes, sent, exec, proof>>,
             \/ verdict' = verdict
             \/ \E d \in Dispatches : verdict' = [verdict EXCEPT ![d] = "settled"],
             runners' = runners \cup {m} \/ (pc[c] # "inserted" /\ UNCHANGED runners)
      PROVE  TurnsInv'
  <2>1. TypeOK'
    <3>1. pc' \in [Calls -> CallPoints] /\ verdict' \in [Dispatches -> {"none", "settled", "unresolved"}]
      BY <1>0, <1>2, Points
    <3>2. runners' \subseteq Messages
      BY <1>0, <1>2 DEF TypeOK
    <3> QED
      BY <1>0, <1>2, <3>1, <3>2 DEF TypeOK, Remote!RemoteTypeOK
  <2>2. /\ pc'[c] = p /\ p \in Between /\ p \in Open \ {"inserted"} /\ p \notin Dispatching
        /\ p \notin {"saving", "saved", "waiting", "unresolved"}
        /\ \A e \in Calls \ {c} : pc'[e] = pc[e] /\ cur'[e] = cur[e]
    BY <1>0, <1>2, Points
  <2>3. UNCHANGED <<conv, turn, rev, msg, seen, free, queryVars, exec, proof>>
    BY <1>2 DEF queryVars
  <2>4. \A d \in Dispatches : by'[d] = m => ~MayRun(d)'
    BY <1>2 DEF MayRun
  <2>5. \A d \in Dispatches : by'[d] = by[d] /\ sent'[d] = sent[d]
    BY <1>2
  <2> QED
    BY <1>m, <1>o, <1>2, <2>1, <2>2, <2>3, <2>4, <2>5, OpenStep
<1>3. CASE Register(c)
  <2>1. /\ pc[c] = "inserted" /\ pc' = [pc EXCEPT ![c] = "working"] /\ runners' = runners \cup {m}
        /\ UNCHANGED <<conv, turn, err, bound, rev, runtime, msg, seen, free, tries, cur,
                       qpc, qmsg, qbound, qrev, by, crashes, sent, exec, verdict, proof>>
    BY <1>m, <1>3 DEF Register, Goto, rowVars, callVars, queryVars, remoteVars
  <2> QED
    BY <1>1, <1>2, <2>1, Points
<1>4. CASE Reply(c)
  <2>1. /\ pc[c] \in {"working", "answered"} /\ pc' = [pc EXCEPT ![c] = "replying"]
        /\ UNCHANGED <<conv, turn, err, bound, rev, runtime, msg, seen, free, tries, cur, runners,
                       qpc, qmsg, qbound, qrev, by, crashes, sent, exec, verdict, proof>>
    BY <1>4 DEF Reply, Goto, rowVars, callVars, queryVars, remoteVars
  <2> QED
    BY <1>1, <1>2, <2>1, Points
<1>5. CASE RunnerFails(c)
  <2>1. /\ pc' = [pc EXCEPT ![c] = "failing"]
        /\ UNCHANGED <<conv, turn, err, bound, rev, runtime, msg, seen, free, tries, cur, runners,
                       qpc, qmsg, qbound, qrev, by, crashes>>
    BY <1>5 DEF RunnerFails, Goto, rowVars, callVars, queryVars
  <2>2. /\ UNCHANGED <<sent, exec, proof>> /\ pc[c] # "inserted"
        /\ \/ verdict' = verdict
           \/ \E d \in Dispatches : verdict' = [verdict EXCEPT ![d] = "settled"]
        /\ \A d \in Dispatches : by[d] = m => ~MayRun(d)
    <3>1. CASE pc[c] \in {"working", "answered", "replying"} /\ UNCHANGED remoteVars
      BY <1>1, <3>1, Points DEF remoteVars
    <3>2. CASE pc[c] \in {"saving", "saved"} /\ Remote!Settle(cur[c])
      BY <1>1, <3>2, Points DEF Remote!Settle, MayRun
    <3> QED
      BY <1>5, <3>1, <3>2 DEF RunnerFails
  <2> QED
    BY <1>2, <2>1, <2>2, Points
<1>6. CASE Answered(c)
  <2>1. /\ pc[c] = "waiting" /\ \E p \in {"answered", "failing"} : pc' = [pc EXCEPT ![c] = p]
        /\ UNCHANGED <<conv, turn, err, bound, rev, runtime, msg, seen, free, tries, cur, runners,
                       qpc, qmsg, qbound, qrev, by, crashes>>
    BY <1>6 DEF Answered, Goto, rowVars, callVars, queryVars
  <2>2. /\ UNCHANGED <<sent, exec, proof>> /\ verdict' = [verdict EXCEPT ![cur[c]] = "settled"]
        /\ ~MayRun(cur[c])
    BY <1>6 DEF Answered, Remote!Settle, MayRun
  <2>3. \A d \in Dispatches : by[d] = m => ~MayRun(d)
    BY <1>1, <2>1, <2>2, Points
  <2> QED
    BY <1>1, <1>2, <2>1, <2>2, <2>3, Points
\* The runner goes on with the dispatch in cur.
<1>7. ASSUME NEW p \in Dispatching, pc' = [pc EXCEPT ![c] = p], pc[c] # "inserted", TypeOK',
             UNCHANGED <<conv, turn, rev, msg, seen, free, qpc, qmsg, qbound, qrev, runners, exec, proof>>,
             \A e \in Calls \ {c} : cur'[e] = cur[e],
             bound' = bound \/ \E d \in Dispatches : bound' = [bound EXCEPT ![m] = d],
             cur'[c] \in Dispatches, by'[cur'[c]] = m,
             \A d \in Dispatches : by'[d] = by[d] \/ (by[d] = NoMessage /\ by'[d] = m),
             \A d \in Dispatches : sent'[d] => sent[d] \/ by[d] = m,
             \A d \in Dispatches : d # cur'[c] /\ by'[d] = m => ~MayRun(d)',
             p \in {"saving", "saved"} => ~sent'[cur'[c]],
             p # "saving" => bound'[m] = cur'[c]
      PROVE  TurnsInv'
  <2>1. /\ pc'[c] = p /\ p \in Open \ {"inserted"} /\ p \notin Between
        /\ p \in {"saving", "saved", "waiting", "unresolved"}
        /\ \A e \in Calls \ {c} : pc'[e] = pc[e] /\ cur'[e] = cur[e]
    BY <1>0, <1>7, Points
  <2>2. UNCHANGED <<conv, turn, rev, msg, seen, free, queryVars, exec, proof>>
    BY <1>7 DEF queryVars
  <2> QED
    BY <1>m, <1>o, <1>7, <2>1, <2>2, OpenStep
<1>8. ASSUME NEW d \in Dispatches, Dispatch(c, d)
      PROVE  TurnsInv'
  <2>1. /\ pc[c] \in {"working", "answered"} /\ by[d] = NoMessage
        /\ by' = [by EXCEPT ![d] = m] /\ cur' = [cur EXCEPT ![c] = d]
        /\ pc' = [pc EXCEPT ![c] = "saving"]
        /\ UNCHANGED <<conv, turn, err, bound, rev, runtime, msg, seen, free, tries, runners,
                       qpc, qmsg, qbound, qrev, crashes, sent, exec, verdict, proof>>
    BY <1>m, <1>8 DEF Dispatch, Goto, rowVars, queryVars, remoteVars
  <2>2. TypeOK'
    BY <1>0, <2>1 DEF TypeOK, CallPoints, Remote!RemoteTypeOK
  <2>3. /\ cur'[c] = d /\ by'[d] = m /\ \A x \in Dispatches \ {d} : by'[x] = by[x]
        /\ \A e \in Calls \ {c} : cur'[e] = cur[e]
        /\ ~sent'[d]
    BY <1>0, <2>1 DEF TurnsInv, DispatchInv
  <2>4. \A x \in Dispatches : x # d /\ by'[x] = m => ~MayRun(x)'
    BY <1>1, <2>1, <2>3, Points DEF MayRun
  <2> QED
    BY <1>7, <2>1, <2>2, <2>3, <2>4, Points
<1>9. CASE PersistDispatch(c)
  <2>1. /\ pc[c] = "saving" /\ bound' = [bound EXCEPT ![m] = cur[c]]
        /\ pc' = [pc EXCEPT ![c] = "saved"]
        /\ UNCHANGED <<conv, turn, err, rev, runtime, msg, seen, free, tries, cur, runners,
                       qpc, qmsg, qbound, qrev, by, crashes, sent, exec, verdict, proof>>
    BY <1>m, <1>1, <1>9 DEF PersistDispatch, Goto, callVars, queryVars, remoteVars
  <2>2. /\ cur[c] \in Dispatches /\ bound'[m] = cur[c] /\ by[cur[c]] = m /\ ~sent[cur[c]]
        /\ \A x \in Dispatches : x # cur[c] /\ by[x] = m => ~MayRun(x)'
    BY <1>0, <1>1, <2>1, Points DEF MayRun
  <2>3. TypeOK'
    BY <1>0, <2>1, <2>2 DEF TypeOK, CallPoints, Remote!RemoteTypeOK
  <2> QED
    BY <1>7, <2>1, <2>2, <2>3, Points
<1>10. CASE GatewaySends(c)
  <2>1. /\ pc[c] = "saved" /\ pc' = [pc EXCEPT ![c] = "waiting"]
        /\ sent' = [sent EXCEPT ![cur[c]] = TRUE]
        /\ UNCHANGED <<conv, turn, err, bound, rev, runtime, msg, seen, free, tries, cur, runners,
                       qpc, qmsg, qbound, qrev, by, crashes, exec, verdict, proof>>
    BY <1>10 DEF GatewaySends, MaySend, Goto, rowVars, callVars, queryVars, Remote!Send
  <2>2. /\ cur[c] \in Dispatches /\ bound[m] = cur[c] /\ by[cur[c]] = m
        /\ \A x \in Dispatches : x # cur[c] => sent'[x] = sent[x]
    BY <1>0, <1>1, <2>1, Points
  <2>3. \A x \in Dispatches : x # cur[c] /\ by[x] = m => ~MayRun(x)'
    BY <1>1, <2>1, <2>2, Points DEF MayRun
  <2>4. TypeOK'
    BY <1>0, <2>1, <2>2 DEF TypeOK, CallPoints, Remote!RemoteTypeOK
  <2> QED
    BY <1>7, <2>1, <2>2, <2>3, <2>4, Points
<1>11. CASE Unresolved(c)
  <2>1. /\ pc[c] = "waiting" /\ pc' = [pc EXCEPT ![c] = "unresolved"]
        /\ verdict' = [verdict EXCEPT ![cur[c]] = "unresolved"]
        /\ UNCHANGED <<conv, turn, err, bound, rev, runtime, msg, seen, free, tries, cur, runners,
                       qpc, qmsg, qbound, qrev, by, crashes, sent, exec, proof>>
    BY <1>11 DEF Unresolved, AfterUnresolved, Goto, rowVars, callVars, queryVars, Remote!GiveUp
  <2>2. /\ cur[c] \in Dispatches /\ bound[m] = cur[c] /\ by[cur[c]] = m
        /\ \A x \in Dispatches : x # cur[c] /\ by[x] = m => ~MayRun(x)'
    BY <1>1, <2>1, Points DEF MayRun
  <2>3. TypeOK'
    BY <1>0, <2>1, <2>2 DEF TypeOK, CallPoints, Remote!RemoteTypeOK
  <2> QED
    BY <1>7, <2>1, <2>2, <2>3, Points
<1> QED
  BY <1>3, <1>4, <1>5, <1>6, <1>8, <1>9, <1>10, <1>11

-----------------------------------------------------------------------------
(* The end of the call *)

\* The outcome of turn m is written, none of whose dispatches may run.
LEMMA TurnEnds ==
    ASSUME TurnsInv, TypeOK', NEW m \in Messages,
           UNCHANGED <<conv, bound, by, sent, exec, seen, free>>, rev <= rev',
           \A d \in Dispatches : proof'[d] => proof[d],
           \A n \in Messages \ {m} : turn'[n] = turn[n],
           turn'[m] = turn[m] \/ (turn[m] = "running" /\ turn'[m] \in {"completed", "failed"}),
           turn'[m] # turn[m] => \A d \in Dispatches : by[d] = m => ~MayRun(d),
           \A c \in Calls : pc'[c] = pc[c] \/ pc'[c] \in {"closing", "done"},
           \A c \in Calls : pc'[c] # "done" => msg'[c] = msg[c] /\ cur'[c] = cur[c]
    PROVE  OneRunningTurn' /\ ClaimInv' /\ DispatchInv' /\ NativeIsLocked'
<1> USE DEF TurnsInv
<1>1. OneRunningTurn'
  BY DEF OneRunningTurn, Running
<1>2. ClaimInv'
  <2>1. \A n \in Messages : turn'[n] = "running" => turn[n] = "running"
    OBVIOUS
  <2> QED
    BY <2>1, ClaimStands
<1>3. \A n \in Messages : turn[n] # "none" => turn'[n] # "none"
  OBVIOUS
<1>4. DispatchInv'
  <2>1. \A d \in Dispatches : by[d] # NoMessage => by[d] \in Messages
    BY DEF TypeOK
  <2>2. \A c \in Calls : pc'[c] \in Between \cup Dispatching =>
           pc'[c] = pc[c] /\ msg'[c] = msg[c] /\ cur'[c] = cur[c]
    BY Points
  <2> QED
    BY <1>3, <2>1, <2>2, Points DEF DispatchInv, MayRun
<1>5. NativeIsLocked'
  BY DEF NativeIsLocked, Running, MayRun
<1> QED
  BY <1>1, <1>2, <1>4, <1>5

LEMMA FinishEffect ==
    ASSUME TypeOK, NEW m \in Messages, NEW status \in {"completed", "failed"},
           NEW code \in {"none", "error", "reconciled"}, Finish(m, status, code)
    PROVE  /\ turn' \in [Messages -> {"none", "running", "completed", "failed"}]
           /\ err' \in [Messages -> {"none", "error", "unresolved", "reconciled", "cancel_requested"}]
           /\ rev' \in Nat /\ rev <= rev'
           /\ \A n \in Messages \ {m} : turn'[n] = turn[n]
           /\ turn[m] = "running" => turn'[m] = status
           /\ turn[m] # "running" => turn'[m] = turn[m]
<1>1. /\ turn \in [Messages -> {"none", "running", "completed", "failed"}] /\ rev \in Nat
      /\ err \in [Messages -> {"none", "error", "unresolved", "reconciled", "cancel_requested"}]
  BY DEF TypeOK
<1> QED
  BY <1>1 DEF Finish, Running

LEMMA EndSteps ==
    ASSUME TurnsInv, NEW c \in Calls,
           FinishReply(c) \/ FinishFailure(c) \/ MarkUnresolved(c) \/ FinishRaises(c)
    PROVE  TurnsInv'
<1> USE DEF TurnsInv
<1>o. pc[c] \in {"replying", "failing", "unresolved"} /\ pc[c] \in Open /\ pc[c] # "inserted"
  BY Points DEF FinishReply, FinishFailure, MarkUnresolved, FinishRaises
<1>m. PICK m \in Messages : m = msg[c]
  BY <1>o, OpenFacts
<1>0. /\ TypeOK /\ pc \in [Calls -> CallPoints] /\ rev \in Nat
      /\ bound \in [Messages -> Dispatches \cup {NoDispatch}]
      /\ err \in [Messages -> {"none", "error", "unresolved", "reconciled", "cancel_requested"}]
  BY DEF TypeOK
<1>1. /\ turn[m] = "running"
      /\ pc[c] \in {"replying", "failing"} => \A d \in Dispatches : by[d] = m => ~MayRun(d)
      /\ pc[c] = "unresolved" => bound[m] = cur[c]
  BY <1>o, <1>m, OpenFacts, Points DEF Running
<1>u. /\ UNCHANGED <<conv, runtime, runners, msg, seen, free, tries, cur, qpc, qmsg, qbound, qrev,
                     by, crashes, sent, exec, verdict, proof>>
      /\ pc' = [pc EXCEPT ![c] = "closing"]
  BY DEF FinishReply, FinishFailure, MarkUnresolved, FinishRaises, Goto, callVars, queryVars, remoteVars
<1>2. /\ bound' = bound
      /\ turn' \in [Messages -> {"none", "running", "completed", "failed"}]
      /\ err' \in [Messages -> {"none", "error", "unresolved", "reconciled", "cancel_requested"}]
      /\ rev' \in Nat /\ rev <= rev'
      /\ \A n \in Messages \ {m} : turn'[n] = turn[n]
      /\ \/ turn'[m] = turn[m]
         \/ /\ turn'[m] \in {"completed", "failed"}
            /\ \A d \in Dispatches : by[d] = m => ~MayRun(d)
  <2>1. CASE FinishReply(c)
    <3>1. /\ bound' = bound /\ Finish(m, "completed", "none") /\ pc[c] = "replying"
      BY <1>m, <2>1 DEF FinishReply
    <3> QED
      BY <1>0, <1>1, <3>1, FinishEffect
  <2>2. CASE FinishFailure(c)
    <3>1. /\ bound' = bound /\ Finish(m, "failed", "error") /\ pc[c] = "failing"
      BY <1>m, <2>2 DEF FinishFailure
    <3> QED
      BY <1>0, <1>1, <3>1, FinishEffect
  <2>3. CASE MarkUnresolved(c)
    <3>1. /\ bound' = [bound EXCEPT ![m] = cur[c]] /\ bound[m] = cur[c]
          /\ err' = [err EXCEPT ![m] = "unresolved"] /\ UNCHANGED <<turn, rev>>
      BY <1>m, <1>1, <2>3 DEF MarkUnresolved, Running
    <3> QED
      BY <1>0, <3>1 DEF TypeOK
  <2>4. CASE FinishRaises(c)
    BY <1>0, <2>4 DEF FinishRaises, rowVars, TypeOK
  <2> QED
    BY <2>1, <2>2, <2>3, <2>4
<1>3. TypeOK'
  BY <1>0, <1>u, <1>2 DEF TypeOK, CallPoints, Remote!RemoteTypeOK
<1>4. pc'[c] = "closing" /\ \A e \in Calls \ {c} : pc'[e] = pc[e]
  BY <1>0, <1>u
<1>5. OneRunningTurn' /\ ClaimInv' /\ DispatchInv' /\ NativeIsLocked'
  BY <1>1, <1>u, <1>2, <1>3, <1>4, TurnEnds
<1>6. CallInv'
  <2>1. /\ m \in runners /\ \A e \in Calls : pc'[e] \in Active <=> pc[e] \in Active
        /\ \A e \in Calls \ {c} : pc[e] \in Active => msg[e] # m
    BY <1>m, <1>o, <1>4, Points DEF CallInv
  <2>2. ASSUME NEW e \in Calls
        PROVE  /\ pc'[e] \notin {"idle", "done"} => msg[e] \in Messages
               /\ pc'[e] \in Active => turn'[msg[e]] # "none"
               /\ pc'[e] \in Open => turn'[msg[e]] = "running"
               /\ pc'[e] \in Active \ {"inserted"} => msg[e] \in runners
               /\ pc'[e] = "inserted" => bound[msg[e]] = NoDispatch
    <3>1. CASE e = c
      BY <1>m, <1>1, <1>2, <1>4, <2>1, <3>1, Points
    <3>2. CASE e # c
      <4>1. pc'[e] = pc[e] /\ (pc[e] \in Active => msg[e] \in Messages /\ msg[e] # m)
        BY <1>4, <2>1, <3>2, Points DEF CallInv
      <4> QED
        BY <1>2, <4>1, Points DEF CallInv, Running
    <3> QED
      BY <3>1, <3>2
  <2> QED
    BY <1>1, <1>u, <1>2, <2>1, <2>2 DEF CallInv, Running
<1>7. QueryInv'
  <2>1. \A n \in Messages : turn[n] # "none" => turn'[n] # "none"
    BY <1>1, <1>2
  <2>2. \A e \in Calls : pc'[e] \in Active => pc[e] \in Active
    BY <1>4, <1>o, Points
  <2> QED
    BY <1>u, <1>2, <2>1, <2>2 DEF QueryInv, Idle
<1> QED
  BY <1>3, <1>5, <1>6, <1>7

LEMMA UnregisterStep ==
    ASSUME TurnsInv, NEW c \in Calls, Unregister(c)
    PROVE  TurnsInv'
<1> USE DEF TurnsInv
<1>p. pc[c] = "closing" /\ Return(c) /\ TypeOK
  BY DEF Unregister
<1>m. PICK m \in Messages : m = msg[c]
  BY <1>p DEF CallInv
<1>u. /\ UNCHANGED <<conv, turn, err, bound, rev, runtime, qpc, qmsg, qbound, qrev,
                     by, crashes, sent, exec, verdict, proof>>
      /\ runners' = runners \ {m}
  BY <1>m DEF Unregister, rowVars, queryVars, remoteVars
<1>1. /\ pc' \in [Calls -> CallPoints] /\ msg' \in [Calls -> Messages \cup {NoMessage}]
      /\ seen' \in [Calls -> Nat] /\ free' \in [Calls -> BOOLEAN] /\ tries' \in [Calls -> Nat]
      /\ cur' \in [Calls -> Dispatches \cup {NoDispatch}]
      /\ pc'[c] = "done"
      /\ \A e \in Calls \ {c} : /\ pc'[e] = pc[e] /\ msg'[e] = msg[e] /\ cur'[e] = cur[e]
                                /\ seen'[e] = seen[e] /\ free'[e] = free[e]
  BY <1>p, ReturnTypes
<1>2. TypeOK'
  BY <1>u, <1>1 DEF TypeOK, Remote!RemoteTypeOK
<1>3. OneRunningTurn' /\ NativeIsLocked'
  BY <1>u DEF OneRunningTurn, NativeIsLocked, Running, MayRun
<1>4. ClaimInv'
  <2>1. \A e \in Calls : pc'[e] \in {"read", "claim"} =>
           pc'[e] = pc[e] /\ seen'[e] = seen[e] /\ free'[e] = free[e]
    BY <1>1
  <2>2. rev <= rev'
    BY <1>u DEF TypeOK
  <2> QED
    BY <1>u, <1>2, <2>1, <2>2, ClaimStands
<1>5. \A e \in Calls : pc'[e] \in Active => /\ e # c /\ pc'[e] = pc[e] /\ msg'[e] = msg[e]
                                           /\ cur'[e] = cur[e] /\ msg[e] # m
  BY <1>m, <1>p, <1>1, Points DEF CallInv
<1>6. CallInv'
  BY <1>u, <1>1, <1>5, Points DEF CallInv, Running
<1>7. QueryInv'
  BY <1>u, <1>5 DEF QueryInv, Idle
<1>8. DispatchInv'
  BY <1>u, <1>5, Points DEF DispatchInv, MayRun
<1> QED
  BY <1>2, <1>3, <1>4, <1>6, <1>7, <1>8

-----------------------------------------------------------------------------
(* Other requests, the edge and crashes *)

\* Rows of turns and calls stand, executions may only end.
LEMMA RestStands ==
    ASSUME TurnsInv, TypeOK', UNCHANGED <<turn, bound, runners, pc, msg, seen, free, cur, by, sent>>,
           conv' = "active" => conv = "active" /\ rev <= rev',
           \A d \in Dispatches : /\ sent[d] /\ exec[d] = "over" => exec'[d] = "over"
                                 /\ proof'[d] => exec'[d] = "over"
    PROVE  OneRunningTurn' /\ ClaimInv' /\ CallInv' /\ DispatchInv' /\ NativeIsLocked'
<1> USE DEF TurnsInv
<1>1. OneRunningTurn' /\ CallInv'
  BY DEF OneRunningTurn, CallInv, Running
<1>2. ClaimInv'
  BY ClaimStands
<1>3. \A d \in Dispatches : MayRun(d)' => MayRun(d)
  BY DEF MayRun
<1>4. DispatchInv'
  BY <1>3 DEF DispatchInv
<1>5. NativeIsLocked'
  BY <1>3 DEF NativeIsLocked, Running
<1> QED
  BY <1>1, <1>2, <1>4, <1>5

LEMMA QReturnTypes ==
    ASSUME TypeOK, NEW q \in Requesters, QReturn(q)
    PROVE  /\ qpc' \in [Requesters -> QueryPoints] /\ qmsg' \in [Requesters -> Messages \cup {NoMessage}]
           /\ qbound' \in [Requesters -> Dispatches \cup {NoDispatch}] /\ qrev' \in [Requesters -> Nat]
           /\ qpc'[q] = "idle"
           /\ \A r \in Requesters \ {q} : /\ qpc'[r] = qpc[r] /\ qmsg'[r] = qmsg[r]
                                          /\ qbound'[r] = qbound[r]
  BY DEF TypeOK, QReturn, QGoto, QueryPoints

\* One request goes on or ends.
LEMMA QueryMove ==
    ASSUME TurnsInv, NEW q \in Requesters,
           UNCHANGED <<turn, bound, runtime, runners, pc, callVars, by, crashes, sent, verdict>>,
           conv' \in {"active", "closed"}, rev' \in Nat,
           conv' = "active" => conv = "active" /\ rev <= rev',
           err' \in [Messages -> {"none", "error", "unresolved", "reconciled", "cancel_requested"}],
           UNCHANGED exec, proof' \in [Dispatches -> BOOLEAN],
           \A d \in Dispatches : proof'[d] => exec[d] = "over",
           qpc' \in [Requesters -> QueryPoints], qmsg' \in [Requesters -> Messages \cup {NoMessage}],
           qbound' \in [Requesters -> Dispatches \cup {NoDispatch}], qrev' \in [Requesters -> Nat],
           \A r \in Requesters \ {q} : qpc'[r] = qpc[r] /\ qmsg'[r] = qmsg[r] /\ qbound'[r] = qbound[r],
           qpc'[q] \notin {"idle", "close"} => qmsg'[q] \in Messages /\ turn[qmsg'[q]] # "none",
           qpc'[q] = "loaded" /\ qbound'[q] # NoDispatch => bound[qmsg'[q]] # NoDispatch,
           qpc'[q] \in {"recover", "probing", "settle"} => qbound'[q] \in Dispatches /\ Idle(qmsg'[q]),
           qpc'[q] = "settle" => exec[qbound'[q]] = "over"
    PROVE  TurnsInv'
<1> USE DEF TurnsInv
<1>1. UNCHANGED <<msg, seen, free, tries, cur>>
  BY DEF callVars
<1>2. TypeOK'
  BY <1>1 DEF TypeOK, Remote!RemoteTypeOK
<1>3. OneRunningTurn' /\ ClaimInv' /\ CallInv' /\ DispatchInv' /\ NativeIsLocked'
  BY <1>1, <1>2, RestStands
<1>4. \A m : Idle(m)' <=> Idle(m)
  BY <1>1 DEF Idle
<1>5. QueryInv'
  <2>1. ASSUME NEW r \in Requesters
        PROVE  /\ qpc'[r] \notin {"idle", "close"} => qmsg'[r] \in Messages /\ turn[qmsg'[r]] # "none"
               /\ qpc'[r] = "loaded" /\ qbound'[r] # NoDispatch => bound[qmsg'[r]] # NoDispatch
               /\ qpc'[r] \in {"recover", "probing", "settle"} =>
                     qbound'[r] \in Dispatches /\ Idle(qmsg'[r])
               /\ qpc'[r] = "settle" => exec[qbound'[r]] = "over"
    <3>1. CASE r = q
      BY <3>1
    <3>2. CASE r # q
      BY <3>2 DEF QueryInv
    <3> QED
      BY <3>1, <3>2
  <2>2. \A r \in Requesters : Idle(qmsg'[r]) => Idle(qmsg[r])'
    BY <1>1 DEF Idle
  <2> QED
    BY <2>1, <2>2 DEF QueryInv
<1> QED
  BY <1>2, <1>3, <1>5

LEMMA QuerySteps ==
    ASSUME TurnsInv, NEW q \in Requesters,
           \/ \E m \in Messages : LoadRunning(q, m) \/ RequestCancel(q, m)
           \/ Reconcile(q) \/ Recover(q) \/ ProbeConfirms(q) \/ ProbeFails(q)
           \/ WriteCancel(q) \/ CloseConversation(q) \/ WriteClose(q)
    PROVE  TurnsInv'
<1>0. /\ TypeOK /\ QueryInv /\ CallInv /\ DispatchInv
      /\ conv \in {"active", "closed"} /\ rev \in Nat
      /\ turn \in [Messages -> {"none", "running", "completed", "failed"}]
      /\ err \in [Messages -> {"none", "error", "unresolved", "reconciled", "cancel_requested"}]
      /\ bound \in [Messages -> Dispatches \cup {NoDispatch}]
      /\ proof \in [Dispatches -> BOOLEAN] /\ qpc \in [Requesters -> QueryPoints]
      /\ qmsg \in [Requesters -> Messages \cup {NoMessage}]
      /\ qbound \in [Requesters -> Dispatches \cup {NoDispatch}] /\ qrev \in [Requesters -> Nat]
      /\ \A d \in Dispatches : proof[d] => exec[d] = "over"
  BY DEF TurnsInv, TypeOK, Remote!RemoteTypeOK, DispatchInv
<1>i. rev <= rev
  BY <1>0
\* The request ends.
<1>1. ASSUME QReturn(q), UNCHANGED <<turn, bound, runtime, runners, pc, callVars, by, crashes, sent, verdict>>,
             conv' \in {"active", "closed"}, rev' \in Nat,
             conv' = "active" => conv = "active" /\ rev <= rev',
             err' \in [Messages -> {"none", "error", "unresolved", "reconciled", "cancel_requested"}],
             UNCHANGED exec, proof' \in [Dispatches -> BOOLEAN],
             \A d \in Dispatches : proof'[d] => exec[d] = "over"
      PROVE  TurnsInv'
  <2>1. /\ qpc' \in [Requesters -> QueryPoints] /\ qmsg' \in [Requesters -> Messages \cup {NoMessage}]
        /\ qbound' \in [Requesters -> Dispatches \cup {NoDispatch}] /\ qrev' \in [Requesters -> Nat]
        /\ qpc'[q] = "idle"
        /\ \A r \in Requesters \ {q} : /\ qpc'[r] = qpc[r] /\ qmsg'[r] = qmsg[r]
                                       /\ qbound'[r] = qbound[r]
    BY <1>0, <1>1, QReturnTypes
  <2> QED
    BY <1>1, <2>1, QueryMove
\* The request goes on at p with turn m and dispatch d.
<1> DEFINE Goes(p, m, d) ==
       /\ qpc' = [qpc EXCEPT ![q] = p] /\ qmsg' = [qmsg EXCEPT ![q] = m]
       /\ qbound' = [qbound EXCEPT ![q] = d]
       /\ p \in QueryPoints /\ m \in Messages /\ d \in Dispatches \cup {NoDispatch}
       /\ turn[m] # "none"
       /\ p = "loaded" /\ d # NoDispatch => bound[m] # NoDispatch
       /\ p \in {"recover", "probing", "settle"} => d \in Dispatches /\ Idle(m)
       /\ p = "settle" => exec[d] = "over"
       /\ UNCHANGED <<conv, turn, err, bound, rev, runtime, runners, pc, callVars, qrev, by, crashes,
                      sent, exec, verdict>>
       /\ proof' \in [Dispatches -> BOOLEAN] /\ \A x \in Dispatches : proof'[x] => exec[x] = "over"
<1>2. ASSUME NEW p, NEW m, NEW d, Goes(p, m, d)
      PROVE  TurnsInv'
  <2>1. /\ qpc' \in [Requesters -> QueryPoints] /\ qmsg' \in [Requesters -> Messages \cup {NoMessage}]
        /\ qbound' \in [Requesters -> Dispatches \cup {NoDispatch}] /\ qrev' \in [Requesters -> Nat]
        /\ qpc'[q] = p /\ qmsg'[q] = m /\ qbound'[q] = d
        /\ \A r \in Requesters \ {q} : /\ qpc'[r] = qpc[r] /\ qmsg'[r] = qmsg[r]
                                       /\ qbound'[r] = qbound[r]
    BY <1>0, <1>2
  <2>2. /\ conv' \in {"active", "closed"} /\ rev' \in Nat /\ rev <= rev' /\ conv' = conv
        /\ err' \in [Messages -> {"none", "error", "unresolved", "reconciled", "cancel_requested"}]
    BY <1>0, <1>i, <1>2
  <2> QED
    BY <1>2, <2>1, <2>2, QueryMove
<1> HIDE DEF Goes
<1>3. ASSUME NEW m \in Messages, LoadRunning(q, m) \/ RequestCancel(q, m)
      PROVE  TurnsInv'
  <2>1. /\ UNCHANGED <<conv, turn, err, bound, rev, runtime, runners, pc, callVars, qrev, by, crashes,
                       sent, exec, verdict, proof>>
        /\ qmsg' = [qmsg EXCEPT ![q] = m] /\ turn[m] # "none"
    BY <1>3 DEF LoadRunning, RequestCancel, rowVars, remoteVars, Running
  <2>2. CASE LoadRunning(q, m)
    <3>1. qpc' = [qpc EXCEPT ![q] = "loaded"] /\ qbound' = [qbound EXCEPT ![q] = bound[m]]
      BY <2>2 DEF LoadRunning, QGoto
    <3>2. Goes("loaded", m, bound[m])
      BY <1>0, <2>1, <3>1 DEF QueryPoints, Goes
    <3> QED
      BY <1>2, <3>2
  <2>3. CASE RequestCancel(q, m)
    <3>1. qpc' = [qpc EXCEPT ![q] = "cancel"] /\ qbound' = [qbound EXCEPT ![q] = qbound[q]]
      BY <1>0, <2>3 DEF RequestCancel, QGoto
    <3>2. Goes("cancel", m, qbound[q])
      BY <1>0, <2>1, <3>1 DEF QueryPoints, Goes
    <3> QED
      BY <1>2, <3>2
  <2> QED
    BY <1>3, <2>2, <2>3
<1>4. CASE Reconcile(q)
  <2>1. /\ UNCHANGED <<conv, turn, err, bound, rev, runtime, runners, pc, callVars, by, crashes,
                       sent, exec, verdict, proof>>
        /\ qpc[q] = "loaded"
    BY <1>4 DEF Reconcile, rowVars, remoteVars
  <2>2. CASE QReturn(q)
    BY <1>0, <1>i, <1>1, <2>1, <2>2
  <2>3. CASE ~QReturn(q)
    <3>1. /\ qmsg[q] \notin runners /\ qbound[q] # NoDispatch
          /\ qpc' = [qpc EXCEPT ![q] = IF proof[qbound[q]] THEN "settle" ELSE "recover"]
          /\ UNCHANGED <<qmsg, qbound, qrev>>
      BY <1>4, <2>3 DEF Reconcile, QGoto
    <3>2. /\ qmsg[q] \in Messages /\ turn[qmsg[q]] # "none" /\ qbound[q] \in Dispatches
          /\ bound[qmsg[q]] # NoDispatch
      BY <1>0, <2>1, <3>1 DEF QueryInv
    <3>3. Idle(qmsg[q])
      BY <1>0, <3>1, <3>2 DEF Idle, CallInv
    <3>4. qmsg' = [qmsg EXCEPT ![q] = qmsg[q]] /\ qbound' = [qbound EXCEPT ![q] = qbound[q]]
      BY <1>0, <3>1
    <3>5. PICK p \in {"settle", "recover"} : /\ qpc' = [qpc EXCEPT ![q] = p]
                                             /\ p = "settle" => exec[qbound[q]] = "over"
      BY <1>0, <3>1, <3>2
    <3>6. Goes(p, qmsg[q], qbound[q])
      BY <1>0, <2>1, <3>1, <3>2, <3>3, <3>4, <3>5 DEF QueryPoints, Goes
    <3> QED
      BY <1>2, <3>6
  <2> QED
    BY <2>2, <2>3
<1>5. CASE Recover(q)
  <2>1. /\ UNCHANGED <<conv, turn, err, bound, rev, runtime, runners, pc, callVars, by, crashes,
                       sent, exec, verdict, proof>>
        /\ qpc[q] = "recover"
    BY <1>5 DEF Recover, rowVars, remoteVars
  <2>2. CASE QReturn(q)
    BY <1>0, <1>i, <1>1, <2>1, <2>2
  <2>3. CASE ~QReturn(q)
    <3>1. /\ bound[qmsg[q]] # NoDispatch /\ qpc' = [qpc EXCEPT ![q] = "probing"]
          /\ qbound' = [qbound EXCEPT ![q] = bound[qmsg[q]]] /\ UNCHANGED <<qmsg, qrev>>
      BY <1>5, <2>3 DEF Recover, QGoto
    <3>2. qmsg[q] \in Messages /\ turn[qmsg[q]] # "none" /\ Idle(qmsg[q])
      BY <1>0, <2>1 DEF QueryInv
    <3>3. bound[qmsg[q]] \in Dispatches /\ qmsg' = [qmsg EXCEPT ![q] = qmsg[q]]
      BY <1>0, <3>1, <3>2
    <3>4. Goes("probing", qmsg[q], bound[qmsg[q]])
      BY <1>0, <2>1, <3>1, <3>2, <3>3 DEF QueryPoints, Goes
    <3> QED
      BY <1>2, <3>4
  <2> QED
    BY <2>2, <2>3
<1>6. CASE ProbeConfirms(q)
  <2>1. /\ UNCHANGED <<conv, turn, err, bound, rev, runtime, runners, pc, callVars, by, crashes,
                       sent, exec, verdict>>
        /\ qpc[q] = "probing" /\ exec[qbound[q]] = "over"
        /\ proof' = [proof EXCEPT ![qbound[q]] = TRUE]
    BY <1>6 DEF ProbeConfirms, rowVars, Remote!Learn
  <2>2. /\ qmsg[q] \in Messages /\ turn[qmsg[q]] # "none" /\ Idle(qmsg[q])
        /\ qbound[q] \in Dispatches
    BY <1>0, <2>1 DEF QueryInv
  <2>3. proof' \in [Dispatches -> BOOLEAN] /\ \A d \in Dispatches : proof'[d] => exec[d] = "over"
    BY <1>0, <2>1
  <2>4. CASE QReturn(q)
    BY <1>0, <1>i, <1>1, <2>1, <2>3, <2>4
  <2>5. CASE ~QReturn(q)
    <3>1. qpc' = [qpc EXCEPT ![q] = "settle"] /\ UNCHANGED <<qmsg, qbound, qrev>>
      BY <1>6, <2>5 DEF ProbeConfirms, QGoto
    <3>2. qmsg' = [qmsg EXCEPT ![q] = qmsg[q]] /\ qbound' = [qbound EXCEPT ![q] = qbound[q]]
      BY <1>0, <3>1
    <3>3. Goes("settle", qmsg[q], qbound[q])
      BY <2>1, <2>2, <2>3, <3>1, <3>2 DEF QueryPoints, Goes
    <3> QED
      BY <1>2, <3>3
  <2> QED
    BY <2>4, <2>5
<1>7. CASE ProbeFails(q) \/ WriteCancel(q)
  <2>1. /\ UNCHANGED <<conv, turn, bound, rev, runtime, runners, pc, callVars, by, crashes,
                       sent, exec, verdict, proof>>
        /\ QReturn(q)
    BY <1>7 DEF ProbeFails, WriteCancel, rowVars, remoteVars
  <2>2. err' \in [Messages -> {"none", "error", "unresolved", "reconciled", "cancel_requested"}]
    BY <1>0, <1>7 DEF ProbeFails, WriteCancel, rowVars
  <2> QED
    BY <1>0, <1>i, <1>1, <2>1, <2>2
<1>8. CASE CloseConversation(q)
  <2>1. /\ UNCHANGED <<conv, turn, err, bound, rev, runtime, runners, pc, callVars, qmsg, qbound, by, crashes,
                       sent, exec, verdict, proof>>
        /\ qpc' = [qpc EXCEPT ![q] = "close"] /\ qrev' = [qrev EXCEPT ![q] = rev]
    BY <1>8 DEF CloseConversation, QGoto, rowVars, remoteVars
  <2>2. /\ qpc' \in [Requesters -> QueryPoints] /\ qmsg' \in [Requesters -> Messages \cup {NoMessage}]
        /\ qbound' \in [Requesters -> Dispatches \cup {NoDispatch}] /\ qrev' \in [Requesters -> Nat]
        /\ qpc'[q] = "close"
        /\ \A r \in Requesters \ {q} : /\ qpc'[r] = qpc[r] /\ qmsg'[r] = qmsg[r]
                                       /\ qbound'[r] = qbound[r]
    BY <1>0, <2>1 DEF QueryPoints
  <2>3. /\ conv' \in {"active", "closed"} /\ rev' \in Nat /\ rev <= rev' /\ conv' = conv
        /\ err' \in [Messages -> {"none", "error", "unresolved", "reconciled", "cancel_requested"}]
        /\ proof' \in [Dispatches -> BOOLEAN] /\ \A d \in Dispatches : proof'[d] => exec[d] = "over"
    BY <1>0, <1>i, <2>1
  <2> QED
    BY <2>1, <2>2, <2>3, QueryMove
<1>9. CASE WriteClose(q)
  <2>1. /\ UNCHANGED <<turn, err, bound, runtime, runners, pc, callVars, by, crashes,
                       sent, exec, verdict, proof>>
        /\ QReturn(q) /\ conv' = "closed" /\ rev' \in Nat
    BY <1>0, <1>9 DEF WriteClose, remoteVars
  <2> QED
    BY <1>0, <1>1, <2>1
<1> QED
  BY <1>3, <1>4, <1>5, <1>6, <1>7, <1>8, <1>9

\* The turn is settled on proof about the dispatch its row names: nothing of
\* it can run, and no call runs it.
LEMMA SettleStep ==
    ASSUME TurnsInv, NEW q \in Requesters, SettleTurn(q)
    PROVE  TurnsInv'
<1> USE DEF TurnsInv
<1>0. /\ TypeOK /\ qpc[q] = "settle" /\ QReturn(q)
      /\ UNCHANGED <<conv, bound, runtime, runners, pc, msg, seen, free, tries, cur, by, crashes>>
  BY DEF SettleTurn, callVars
<1>m. PICK m \in Messages, d \in Dispatches : m = qmsg[q] /\ d = qbound[q]
  BY <1>0 DEF QueryInv
<1>1. Idle(m) /\ exec[d] = "over"
  BY <1>0, <1>m DEF QueryInv
<1>2. /\ UNCHANGED <<sent, exec, verdict>> /\ proof' \in [Dispatches -> BOOLEAN]
      /\ \A x \in Dispatches : proof'[x] => proof[x]
  <2>1. proof \in [Dispatches -> BOOLEAN]
    BY <1>0 DEF TypeOK, Remote!RemoteTypeOK
  <2>2. CASE UNCHANGED remoteVars
    BY <2>1, <2>2 DEF remoteVars
  <2>3. CASE Remote!Forget({d})
    BY <2>1, <2>3 DEF Remote!Forget
  <2> QED
    BY <1>m, <2>2, <2>3 DEF SettleTurn
<1>3. /\ turn' \in [Messages -> {"none", "running", "completed", "failed"}]
      /\ err' \in [Messages -> {"none", "error", "unresolved", "reconciled", "cancel_requested"}]
      /\ rev' \in Nat /\ rev <= rev'
      /\ \A n \in Messages \ {m} : turn'[n] = turn[n]
      /\ turn'[m] = turn[m] \/ (turn[m] = "running" /\ turn'[m] \in {"completed", "failed"})
      /\ turn'[m] # turn[m] => bound[m] = d
  <2>1. CASE bound[m] = d
    <3>1. Finish(m, "failed", "reconciled")
      BY <1>m, <2>1 DEF SettleTurn, SameDispatch
    <3> QED
      BY <1>0, <2>1, <3>1, FinishEffect
  <2>2. CASE bound[m] # d
    BY <1>0, <1>m, <2>2 DEF SettleTurn, SameDispatch, TypeOK
  <2> QED
    BY <2>1, <2>2
<1>4. turn'[m] # turn[m] => \A x \in Dispatches : by[x] = m => ~MayRun(x)
  BY <1>1, <1>3 DEF NativeIsLocked, MayRun
<1>5. /\ qpc' \in [Requesters -> QueryPoints] /\ qmsg' \in [Requesters -> Messages \cup {NoMessage}]
      /\ qbound' \in [Requesters -> Dispatches \cup {NoDispatch}] /\ qrev' \in [Requesters -> Nat]
      /\ qpc'[q] = "idle"
      /\ \A r \in Requesters \ {q} : /\ qpc'[r] = qpc[r] /\ qmsg'[r] = qmsg[r]
                                     /\ qbound'[r] = qbound[r]
  BY <1>0, QReturnTypes
<1>6. TypeOK'
  BY <1>0, <1>2, <1>3, <1>5 DEF TypeOK, Remote!RemoteTypeOK
<1>7. OneRunningTurn' /\ ClaimInv' /\ DispatchInv' /\ NativeIsLocked'
  BY <1>0, <1>2, <1>3, <1>4, <1>6, TurnEnds
<1>8. CallInv'
  <2>1. \A c \in Calls : pc[c] \in Active => msg[c] # m
    BY <1>1 DEF Idle
  <2>2. \A c \in Calls : pc[c] \in Active => msg[c] \in Messages /\ turn'[msg[c]] = turn[msg[c]]
    BY <1>3, <2>1, Points DEF CallInv
  <2>3. Open \subseteq Active
    BY Points
  <2> QED
    BY <1>0, <1>3, <2>2, <2>3 DEF CallInv, Running
<1>9. QueryInv'
  <2>1. \A n \in Messages : turn[n] # "none" => turn'[n] # "none"
    BY <1>3
  <2>2. \A r \in Requesters : qpc'[r] # "idle" => /\ qpc'[r] = qpc[r] /\ qmsg'[r] = qmsg[r]
                                                 /\ qbound'[r] = qbound[r]
    BY <1>5
  <2>3. ASSUME NEW r \in Requesters, qpc'[r] # "idle", Idle(qmsg[r])
        PROVE  Idle(qmsg[r])'
    BY <1>0, <2>2, <2>3 DEF Idle
  <2> QED
    BY <1>0, <1>2, <2>1, <2>2, <2>3 DEF QueryInv
<1> QED
  BY <1>6, <1>7, <1>8, <1>9

\* The edge starts and ends executions, and the gateway learns of it.
LEMMA RemoteSteps ==
    ASSUME TurnsInv, RemoteStep
    PROVE  TurnsInv'
<1> USE DEF TurnsInv
<1>0. UNCHANGED <<conv, turn, err, bound, rev, runtime, runners, pc, msg, seen, free, tries, cur,
                  qpc, qmsg, qbound, qrev, by, crashes>>
  BY DEF RemoteStep, rowVars, callVars, queryVars
<1>1. PICK d \in Dispatches : \/ Remote!Start(d) \/ Remote!Stop(d) \/ Remote!Drop({d})
                             \/ Remote!Learn(d) \/ Remote!Forget({d})
  BY DEF RemoteStep
<1>2. /\ sent \in [Dispatches -> BOOLEAN] /\ exec \in [Dispatches -> {"idle", "live", "over"}]
      /\ proof \in [Dispatches -> BOOLEAN] /\ rev \in Nat
      /\ \A x \in Dispatches : proof[x] => exec[x] = "over"
  BY DEF TypeOK, Remote!RemoteTypeOK, DispatchInv
<1>3. /\ UNCHANGED <<sent, verdict>> /\ exec' \in [Dispatches -> {"idle", "live", "over"}]
      /\ proof' \in [Dispatches -> BOOLEAN]
      /\ \A x \in Dispatches : /\ exec[x] = "over" => exec'[x] = "over"
                               /\ proof'[x] => exec'[x] = "over"
  <2>1. CASE Remote!Start(d)
    BY <1>2, <2>1 DEF Remote!Start
  <2>2. CASE Remote!Stop(d)
    BY <1>2, <2>2 DEF Remote!Stop
  <2>3. CASE Remote!Drop({d})
    BY <1>2, <2>3 DEF Remote!Drop
  <2>4. CASE Remote!Learn(d)
    BY <1>2, <2>4 DEF Remote!Learn
  <2>5. CASE Remote!Forget({d})
    BY <1>2, <2>5 DEF Remote!Forget
  <2> QED
    BY <1>1, <2>1, <2>2, <2>3, <2>4, <2>5
<1>4. TypeOK'
  BY <1>0, <1>3 DEF TypeOK, Remote!RemoteTypeOK
<1>5. OneRunningTurn' /\ ClaimInv' /\ CallInv' /\ DispatchInv' /\ NativeIsLocked'
  BY <1>0, <1>2, <1>3, <1>4, RestStands
<1>6. QueryInv'
  BY <1>0, <1>3 DEF QueryInv, Idle
<1> QED
  BY <1>4, <1>5, <1>6

\* What runs at the edge survives the server, and so does the row that names it.
LEMMA CrashStep ==
    ASSUME TurnsInv, Crash
    PROVE  TurnsInv'
<1> USE DEF TurnsInv
<1>0. /\ UNCHANGED <<conv, turn, err, bound, rev, runtime, by, sent, exec, verdict>>
      /\ crashes' = crashes + 1 /\ runners' = {}
      /\ proof' = [d \in Dispatches |-> proof[d] /\ d \notin Dispatches]
      /\ pc' = [c \in Calls |-> IF pc[c] = "idle" THEN "idle" ELSE "done"]
      /\ msg' = [c \in Calls |-> NoMessage] /\ cur' = [c \in Calls |-> NoDispatch]
      /\ seen' = [c \in Calls |-> 0] /\ free' = [c \in Calls |-> FALSE]
      /\ tries' = [c \in Calls |-> 0]
      /\ qpc' = [q \in Requesters |-> "idle"] /\ qmsg' = [q \in Requesters |-> NoMessage]
      /\ qbound' = [q \in Requesters |-> NoDispatch] /\ qrev' = [q \in Requesters |-> 0]
  BY DEF Crash, rowVars, Remote!Forget
<1>1. proof' \in [Dispatches -> BOOLEAN] /\ \A d \in Dispatches : ~proof'[d]
  BY <1>0
<1>2. \A c \in Calls : pc'[c] \in {"idle", "done"}
  BY <1>0
<1>3. TypeOK'
  BY <1>0, <1>1 DEF TypeOK, CallPoints, QueryPoints, Remote!RemoteTypeOK
<1>4. OneRunningTurn' /\ NativeIsLocked'
  BY <1>0 DEF OneRunningTurn, NativeIsLocked, Running, MayRun
<1>5. ClaimInv'
  BY <1>2 DEF ClaimInv
<1>6. CallInv'
  BY <1>0, <1>2, Points DEF CallInv
<1>7. QueryInv'
  BY <1>0 DEF QueryInv
<1>8. DispatchInv'
  BY <1>0, <1>1, <1>2, Points DEF DispatchInv
<1> QED
  BY <1>3, <1>4, <1>5, <1>6, <1>7, <1>8

-----------------------------------------------------------------------------
(* The theorems *)

LEMMA TurnsInit == Init => TurnsInv
<1> SUFFICES ASSUME Init PROVE TurnsInv
  OBVIOUS
<1>1. TypeOK
  BY DEF Init, TypeOK, CallPoints, QueryPoints, Remote!RemoteInit, Remote!RemoteTypeOK
<1>2. OneRunningTurn /\ NativeIsLocked
  BY DEF Init, OneRunningTurn, NativeIsLocked, Running, MayRun, Remote!RemoteInit
<1>3. ClaimInv /\ CallInv
  BY Points DEF Init, ClaimInv, CallInv
<1>4. QueryInv
  BY DEF Init, QueryInv
<1>5. DispatchInv
  BY Points DEF Init, DispatchInv, Remote!RemoteInit
<1> QED
  BY <1>1, <1>2, <1>3, <1>4, <1>5 DEF TurnsInv

LEMMA TurnsStep == TurnsInv /\ [Next]_vars => TurnsInv'
<1> SUFFICES ASSUME TurnsInv, [Next]_vars
             PROVE  TurnsInv'
  OBVIOUS
<1>1. ASSUME NEW c \in Calls, CallStep(c)
      PROVE  TurnsInv'
  <2>1. CASE CheckDuplicate(c) \/ ReadRevision(c) \/ Snapshot(c)
    BY <2>1, QuietSteps
  <2>2. CASE Claim(c)
    BY <2>2, ClaimStep
  <2>3. CASE \/ Register(c) \/ PersistDispatch(c) \/ GatewaySends(c) \/ Answered(c)
             \/ Unresolved(c) \/ Reply(c) \/ RunnerFails(c)
    BY <2>3, RunnerSteps
  <2>4. CASE FinishReply(c) \/ FinishFailure(c) \/ MarkUnresolved(c) \/ FinishRaises(c)
    BY <2>4, EndSteps
  <2>5. CASE Unregister(c)
    BY <2>5, UnregisterStep
  <2> QED
    BY <1>1, <2>1, <2>2, <2>3, <2>4, <2>5 DEF CallStep
<1>2. ASSUME NEW c \in Calls, NEW m \in Messages, SendMessage(c, m)
      PROVE  TurnsInv'
  BY <1>2, QuietSteps
<1>3. ASSUME NEW c \in Calls, NEW d \in Dispatches, Dispatch(c, d)
      PROVE  TurnsInv'
  BY <1>3, RunnerSteps
<1>4. ASSUME NEW q \in Requesters, QueryStep(q)
      PROVE  TurnsInv'
  <2>1. CASE SettleTurn(q)
    BY <2>1, SettleStep
  <2> QED
    BY <1>4, <2>1, QuerySteps DEF QueryStep
<1>5. CASE RemoteStep \/ Crash
  BY <1>5, RemoteSteps, CrashStep
<1>6. CASE UNCHANGED vars
  <2>1. UNCHANGED <<conv, turn, err, bound, rev, runtime, runners, pc, msg, seen, free, tries, cur,
                    qpc, qmsg, qbound, qrev, by, crashes, sent, exec, verdict, proof>>
    BY <1>6 DEF vars, rowVars, callVars, queryVars, remoteVars
  <2> QED
    BY <2>1 DEF TurnsInv, TypeOK, OneRunningTurn, ClaimInv, CallInv, QueryInv, DispatchInv,
                NativeIsLocked, Running, NoneRunning, Idle, MayRun, Remote!RemoteTypeOK
<1> QED
  BY <1>1, <1>2, <1>3, <1>4, <1>5, <1>6 DEF Next

(***************************************************************************)
(* The inductive invariant of send_message and the requests beside it.  It *)
(* adds what the properties below rest on: the revision a call has read is *)
(* void once a turn was inserted, a turn has one call which is registered  *)
(* in _active_turns while it has dispatches, and a request that goes on to *)
(* settle a turn has proof about a dispatch and no call beside it.         *)
(***************************************************************************)
THEOREM TurnsInvariant == Spec => []TurnsInv
<1>1. Init => TurnsInv
  BY TurnsInit
<1>2. TurnsInv /\ [Next]_vars => TurnsInv'
  BY TurnsStep
<1> QED
  BY <1>1, <1>2, PTL DEF Spec

(***************************************************************************)
(* _insert_running_turn never leaves two turns RUNNING: NOT EXISTS is      *)
(* decided on a snapshot that may be stale, but then the revision has      *)
(* moved on, or close_conversation has closed the conversation.            *)
(***************************************************************************)
THEOREM TurnsRunAlone == Spec => []OneRunningTurn
<1>1. TurnsInv => OneRunningTurn
  BY DEF TurnsInv
<1> QED
  BY <1>1, TurnsInvariant, PTL

(***************************************************************************)
(* A dispatch that may still run at the edge is named by the RUNNING turn: *)
(* persist_dispatch writes it before it is sent, and _finish_turn of       *)
(* _reconcile_remote_turn compares it with the one the proof is about, so  *)
(* stale proof of an earlier dispatch never unlocks the conversation.      *)
(***************************************************************************)
THEOREM NativeRunsAreLocked == Spec => []NativeIsLocked
<1>1. TurnsInv => NativeIsLocked
  BY DEF TurnsInv
<1> QED
  BY <1>1, TurnsInvariant, PTL

(***************************************************************************)
(* The outcome of a turn is final: _finish_turn writes to a RUNNING row    *)
(* only, and the unique request id keeps a retry from inserting it again.  *)
(***************************************************************************)
THEOREM OutcomesAreFinal == Spec => TurnIsFinal
<1> DEFINE Final == \A m \in Messages : turn[m] \in {"completed", "failed"} => turn'[m] = turn[m]
<1>1. TurnsInv /\ [Next]_vars => [Final]_vars
  <2> SUFFICES ASSUME TurnsInv, Next
               PROVE  Final
    OBVIOUS
  <2>0. turn \in [Messages -> {"none", "running", "completed", "failed"}]
    BY DEF TurnsInv, TypeOK
  <2>s. turn' = turn => Final
    OBVIOUS
  <2>f. ASSUME NEW m, NEW status, NEW code, Finish(m, status, code)
        PROVE  Final
    BY <2>0, <2>f DEF Finish, Running
  <2>1. ASSUME NEW c \in Calls, CallStep(c)
        PROVE  Final
    <3>1. CASE Claim(c)
      BY <2>0, <3>1 DEF Claim, Inserts
    <3>2. CASE FinishReply(c) \/ FinishFailure(c)
      BY <2>f, <3>2 DEF FinishReply, FinishFailure
    <3>3. CASE ~Claim(c) /\ ~FinishReply(c) /\ ~FinishFailure(c)
      <4>1. turn' = turn
        BY <2>1, <3>3 DEF CallStep, CheckDuplicate, ReadRevision, Snapshot, Register, PersistDispatch,
              GatewaySends, Answered, Unresolved, Reply, RunnerFails, MarkUnresolved, FinishRaises,
              Unregister, rowVars
      <4> QED
        BY <2>s, <4>1
    <3> QED
      BY <3>1, <3>2, <3>3
  <2>2. ASSUME NEW c \in Calls, (\E m \in Messages : SendMessage(c, m)) \/ \E d \in Dispatches : Dispatch(c, d)
        PROVE  Final
    BY <2>s, <2>2 DEF SendMessage, Dispatch, rowVars
  <2>3. ASSUME NEW q \in Requesters, QueryStep(q)
        PROVE  Final
    <3>1. CASE SettleTurn(q)
      BY <2>f, <2>s, <3>1 DEF SettleTurn
    <3>2. CASE ~SettleTurn(q)
      BY <2>s, <2>3, <3>2 DEF QueryStep, LoadRunning, RequestCancel, Reconcile, Recover, ProbeConfirms,
              ProbeFails, WriteCancel, CloseConversation, WriteClose, rowVars
    <3> QED
      BY <3>1, <3>2
  <2>4. CASE RemoteStep \/ Crash
    BY <2>s, <2>4 DEF RemoteStep, Crash, rowVars
  <2> QED
    BY <2>1, <2>2, <2>3, <2>4 DEF Next
<1> QED
  BY <1>1, TurnsInvariant, PTL DEF Spec, TurnIsFinal
=============================================================================
