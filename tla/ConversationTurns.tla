-------------------------- MODULE ConversationTurns --------------------------
(***************************************************************************)
(* The turns of one agent conversation                                     *)
(* (backend/services/agent_conversation_service.py and                     *)
(* agent_conversation_cancellation.py).  A call of send_message claims the *)
(* conversation, inserts a RUNNING turn and runs it; a native runtime's    *)
(* turn dispatches one remote execution after the other through the agent  *)
(* gateway, which is used here as RemoteTask specifies it.  Other requests *)
(* read, reconcile, recover, cancel or close.  The server may crash.       *)
(*                                                                         *)
(* A database statement and its commit are one step; what a coroutine has  *)
(* read before an await is kept in a variable of its own.                  *)
(***************************************************************************)
EXTENDS Naturals, FiniteSets

CONSTANTS Calls,        \* calls of send_message
          Messages,     \* request ids; a retry is another call of the same
          Dispatches,   \* remote request ids
          Requesters,   \* other requests, at most this many at a time
          MaxCrashes    \* bound: crashes of the server

NoMessage == "no-message"
NoDispatch == "no-dispatch"

ASSUME ConversationConstants ==
    MaxCrashes \in Nat /\ NoMessage \notin Messages /\ NoDispatch \notin Dispatches

VARIABLES
    \* the database
    conv,       \* AgentConversation.status
    rev,        \* AgentConversation.revision
    turn,       \* AgentConversationTurn.status ("none": no row)
    err,        \* its error_code
    bound,      \* its context_binding["_remote_dispatch"]
    runtime,    \* "native" or "opencli", fixed for the conversation
    \* the process
    runners,    \* _active_turns
    pc, msg,    \* the calls of send_message
    seen, free, \* revision, and whether no turn was running, as the call read them
    tries,      \* allocation attempts
    cur,        \* the dispatch it waits for
    qpc, qmsg, qbound, qrev,   \* the other requests and what they have read
    by,         \* history: the message a dispatch was made for
    crashes,
    \* the gateway and the edge
    sent, exec, verdict, proof

Remote == INSTANCE RemoteTask WITH Requests <- Dispatches

rowVars    == <<turn, err, bound, rev>>
callVars   == <<msg, seen, free, tries, cur>>
queryVars  == <<qpc, qmsg, qbound, qrev>>
remoteVars == <<sent, exec, verdict, proof>>
vars == <<conv, rowVars, runtime, runners, pc, callVars, queryVars, by, crashes, remoteVars>>

Running(m) == turn[m] = "running"
NoneRunning == \A m \in Messages : ~Running(m)
Goto(c, p) == pc' = [pc EXCEPT ![c] = p]

\* The call's allocation variables go out of scope.
Allocated(c) ==
    /\ seen' = [seen EXCEPT ![c] = 0]
    /\ free' = [free EXCEPT ![c] = FALSE]
    /\ tries' = [tries EXCEPT ![c] = 0]

\* The call ends, with a result or an exception.
Return(c) ==
    /\ Goto(c, "done")
    /\ msg' = [msg EXCEPT ![c] = NoMessage]
    /\ cur' = [cur EXCEPT ![c] = NoDispatch]
    /\ Allocated(c)

Init ==
    /\ conv = "active" /\ rev = 0 /\ runtime \in {"native", "opencli"}
    /\ turn = [m \in Messages |-> "none"] /\ err = [m \in Messages |-> "none"]
    /\ bound = [m \in Messages |-> NoDispatch]
    /\ runners = {} /\ crashes = 0
    /\ pc = [c \in Calls |-> "idle"] /\ msg = [c \in Calls |-> NoMessage]
    /\ seen = [c \in Calls |-> 0] /\ free = [c \in Calls |-> FALSE]
    /\ tries = [c \in Calls |-> 0] /\ cur = [c \in Calls |-> NoDispatch]
    /\ qpc = [q \in Requesters |-> "idle"] /\ qmsg = [q \in Requesters |-> NoMessage]
    /\ qbound = [q \in Requesters |-> NoDispatch] /\ qrev = [q \in Requesters |-> 0]
    /\ by = [d \in Dispatches |-> NoMessage]
    /\ Remote!RemoteInit

-----------------------------------------------------------------------------
(* send_message: admission and allocation of the turn.                     *)

\* Up to the call of insert_turn: a known request id, or a closed
\* conversation, ends the call.
SendMessage(c, m) ==
    /\ pc[c] = "idle"
    /\ IF turn[m] = "none" /\ conv = "active"
       THEN /\ msg' = [msg EXCEPT ![c] = m]
            /\ Goto(c, "allocate")
            /\ UNCHANGED <<seen, free, tries, cur>>
       ELSE Return(c)
    /\ UNCHANGED <<conv, rowVars, runtime, runners, queryVars, by, crashes, remoteVars>>

\* _insert_running_turn: the duplicate check ...
CheckDuplicate(c) ==
    /\ pc[c] = "allocate"
    /\ IF turn[msg[c]] = "none"
       THEN /\ tries' = [tries EXCEPT ![c] = @ + 1]
            /\ Goto(c, "checked")
            /\ UNCHANGED <<msg, seen, free, cur>>
       ELSE Return(c)
    /\ UNCHANGED <<conv, rowVars, runtime, runners, queryVars, by, crashes, remoteVars>>

\* ... and the read of the revision.
ReadRevision(c) ==
    /\ pc[c] = "checked"
    /\ seen' = [seen EXCEPT ![c] = rev]
    /\ Goto(c, "read")
    /\ UNCHANGED <<conv, rowVars, runtime, runners, msg, free, tries, cur, queryVars, by,
                   crashes, remoteVars>>

\* The UPDATE takes its snapshot, on which NOT EXISTS (running) is decided.
Snapshot(c) ==
    /\ pc[c] = "read"
    /\ free' = [free EXCEPT ![c] = NoneRunning]
    /\ Goto(c, "claim")
    /\ UNCHANGED <<conv, rowVars, runtime, runners, msg, seen, tries, cur, queryVars, by,
                   crashes, remoteVars>>

\* Mutant: the claim does not compare the revision.
ClaimsAnyRevision(c) == conv = "active" /\ free[c]

\* It updates the row it has locked, if that still has the revision read.
Claims(c) == conv = "active" /\ rev = seen[c] /\ free[c]

\* Mutant: no unique constraint.
InsertsAlways(m) == TRUE

\* uq_agent_conversation_turn_request: otherwise the commit raises.
Inserts(m) == turn[m] = "none"

\* The claim and the INSERT commit together, or neither does.
Claim(c) ==
    /\ pc[c] = "claim"
    /\ LET m == msg[c] IN
       IF Claims(c) /\ Inserts(m)
       THEN /\ rev' = rev + 1
            /\ turn' = [turn EXCEPT ![m] = "running"]
            /\ Goto(c, "inserted")
            /\ Allocated(c)
            /\ UNCHANGED <<msg, cur>>
       ELSE /\ IF turn[m] = "none" /\ NoneRunning /\ conv = "active" /\ tries[c] < 2
               THEN Goto(c, "allocate") /\ UNCHANGED callVars
               ELSE Return(c)
            /\ UNCHANGED <<rev, turn>>
    /\ UNCHANGED <<conv, err, bound, runtime, runners, queryVars, by, crashes, remoteVars>>

\* register_turn_runner, once the commit has returned.
Register(c) ==
    /\ pc[c] = "inserted"
    /\ runners' = runners \cup {msg[c]}
    /\ Goto(c, "working")
    /\ UNCHANGED <<conv, rowVars, runtime, callVars, queryVars, by, crashes, remoteVars>>

-----------------------------------------------------------------------------
(* The runner.                                                             *)

\* NativeChatCompletion.create: the next dispatch; its observer is called.
Dispatch(c, d) ==
    /\ pc[c] \in {"working", "answered"} /\ runtime = "native"
    /\ by[d] = NoMessage
    /\ by' = [by EXCEPT ![d] = msg[c]]
    /\ cur' = [cur EXCEPT ![c] = d]
    /\ Goto(c, "saving")
    /\ UNCHANGED <<conv, rowVars, runtime, runners, msg, seen, free, tries, queryVars, crashes,
                   remoteVars>>

\* persist_dispatch; without a RUNNING row it raises and nothing is sent.
PersistDispatch(c) ==
    /\ pc[c] = "saving"
    /\ LET m == msg[c] IN
       IF Running(m)
       THEN /\ bound' = [bound EXCEPT ![m] = cur[c]]
            /\ Goto(c, "saved")
            /\ UNCHANGED remoteVars
       ELSE /\ Remote!Settle(cur[c])
            /\ Goto(c, "failing")
            /\ UNCHANGED bound
    /\ UNCHANGED <<conv, turn, err, rev, runtime, runners, callVars, queryVars, by, crashes>>

\* Mutant: the dispatch is sent before its correlation is persisted.
SendsEarly(c) == pc[c] \in {"saving", "saved"}

MaySend(c) == pc[c] = "saved"

GatewaySends(c) ==
    /\ MaySend(c)
    /\ Remote!Send(cur[c])
    /\ Goto(c, "waiting")
    /\ UNCHANGED <<conv, rowVars, runtime, runners, callVars, queryVars, by, crashes>>

\* send_agent_task returns a terminal, or raises an exception that claims the
\* remote execution is over.
Answered(c) ==
    /\ pc[c] = "waiting"
    /\ Remote!Settle(cur[c])
    /\ Goto(c, "answered") \/ Goto(c, "failing")
    /\ UNCHANGED <<conv, rowVars, runtime, runners, callVars, queryVars, by, crashes>>

\* Where AgentTaskUnresolvedError leads; chat._chat_xml lets it through.
AfterUnresolved == "unresolved"

Unresolved(c) ==
    /\ pc[c] = "waiting"
    /\ Remote!GiveUp(cur[c])
    /\ Goto(c, AfterUnresolved)
    /\ UNCHANGED <<conv, rowVars, runtime, runners, callVars, queryVars, by, crashes>>

\* The runner's reply: of the model, or of the last dispatch.
Reply(c) ==
    /\ \/ pc[c] = "working" /\ runtime = "opencli"
       \/ pc[c] = "answered"
    /\ Goto(c, "replying")
    /\ UNCHANGED <<conv, rowVars, runtime, runners, callVars, queryVars, by, crashes,
                   remoteVars>>

\* An exception, the client's disconnection, a committed cancel_requested
\* that the watcher polled, or the cancellation of the server's task, at a
\* point where no remote execution is in progress.
RunnerFails(c) ==
    /\ \/ pc[c] \in {"working", "answered", "replying"} /\ UNCHANGED remoteVars
       \/ pc[c] \in {"saving", "saved"} /\ Remote!Settle(cur[c])
    /\ Goto(c, "failing")
    /\ UNCHANGED <<conv, rowVars, runtime, runners, callVars, queryVars, by, crashes>>

-----------------------------------------------------------------------------
(* The end of the call.                                                    *)

\* _finish_turn writes the outcome to a turn that is still RUNNING.
Finish(m, status, code) ==
    IF Running(m)
    THEN /\ turn' = [turn EXCEPT ![m] = status]
         /\ err' = [err EXCEPT ![m] = code]
         /\ rev' = rev + 1
    ELSE UNCHANGED <<turn, err, rev>>

FinishReply(c) ==
    /\ pc[c] = "replying"
    /\ Finish(msg[c], "completed", "none")
    /\ Goto(c, "closing")
    /\ UNCHANGED <<conv, bound, runtime, runners, callVars, queryVars, by, crashes, remoteVars>>

FinishFailure(c) ==
    /\ pc[c] = "failing"
    /\ Finish(msg[c], "failed", "error")
    /\ Goto(c, "closing")
    /\ UNCHANGED <<conv, bound, runtime, runners, callVars, queryVars, by, crashes, remoteVars>>

MarkUnresolved(c) ==
    /\ pc[c] = "unresolved"
    /\ LET m == msg[c] IN
       IF Running(m)
       THEN /\ bound' = [bound EXCEPT ![m] = cur[c]]
            /\ err' = [err EXCEPT ![m] = "unresolved"]
       ELSE UNCHANGED <<bound, err>>
    /\ Goto(c, "closing")
    /\ UNCHANGED <<conv, turn, rev, runtime, runners, callVars, queryVars, by, crashes,
                   remoteVars>>

\* The database refuses the final write: the row stays as it is.
FinishRaises(c) ==
    /\ pc[c] \in {"failing", "unresolved"}
    /\ Goto(c, "closing")
    /\ UNCHANGED <<conv, rowVars, runtime, runners, callVars, queryVars, by, crashes,
                   remoteVars>>

\* The finally clause: unregister_turn_runner.
Unregister(c) ==
    /\ pc[c] = "closing"
    /\ runners' = runners \ {msg[c]}
    /\ Return(c)
    /\ UNCHANGED <<conv, rowVars, runtime, queryVars, by, crashes, remoteVars>>

-----------------------------------------------------------------------------
(* Other requests.                                                         *)

QGoto(q, p) == qpc' = [qpc EXCEPT ![q] = p]

QReturn(q) ==
    /\ QGoto(q, "idle")
    /\ qmsg' = [qmsg EXCEPT ![q] = NoMessage]
    /\ qbound' = [qbound EXCEPT ![q] = NoDispatch]
    /\ qrev' = [qrev EXCEPT ![q] = 0]

\* get_conversation (also of close and of recovery) and the cancel request
\* load a RUNNING turn before they reconcile it.
LoadRunning(q, m) ==
    /\ qpc[q] = "idle" /\ Running(m)
    /\ qmsg' = [qmsg EXCEPT ![q] = m]
    /\ qbound' = [qbound EXCEPT ![q] = bound[m]]
    /\ QGoto(q, "loaded")
    /\ UNCHANGED <<conv, rowVars, runtime, runners, pc, callVars, qrev, by, crashes,
                   remoteVars>>

\* _reconcile_remote_turn: no runner here, and the gateway keeps proof that
\* the dispatch has ended; otherwise it returns and the caller may go on to
\* recover the turn with a probe.
Reconcile(q) ==
    /\ qpc[q] = "loaded"
    /\ LET m == qmsg[q]
           d == qbound[q]
       IN IF m \in runners \/ d = NoDispatch THEN QReturn(q)
          ELSE /\ QGoto(q, IF proof[d] THEN "settle" ELSE "recover")
               /\ UNCHANGED <<qmsg, qbound, qrev>>
    /\ UNCHANGED <<conv, rowVars, runtime, runners, pc, callVars, by, crashes, remoteVars>>

\* recover_conversation_turn reads the turn again and calls the probe.
Recover(q) ==
    /\ qpc[q] = "recover"
    /\ LET m == qmsg[q]
       IN IF Running(m) /\ bound[m] # NoDispatch /\ m \notin runners
          THEN /\ QGoto(q, "probing")
               /\ qbound' = [qbound EXCEPT ![q] = bound[m]]
               /\ UNCHANGED <<qmsg, qrev>>
          ELSE QReturn(q)
    /\ UNCHANGED <<conv, rowVars, runtime, runners, pc, callVars, by, crashes, remoteVars>>

\* The probe brings evidence of completed cleanup, or does not.
ProbeConfirms(q) ==
    /\ qpc[q] = "probing"
    /\ Remote!Learn(qbound[q])
    /\ IF qmsg[q] \in runners THEN QReturn(q)
       ELSE QGoto(q, "settle") /\ UNCHANGED <<qmsg, qbound, qrev>>
    /\ UNCHANGED <<conv, rowVars, runtime, runners, pc, callVars, by, crashes>>

ProbeFails(q) ==
    /\ qpc[q] = "probing"
    /\ QReturn(q)
    /\ UNCHANGED <<conv, rowVars, runtime, runners, pc, callVars, by, crashes, remoteVars>>

\* _finish_turn's correlation with the dispatch the proof is about.
SameDispatch(q) == bound[qmsg[q]] = qbound[q]

\* The write of _reconcile_remote_turn; then the proof is forgotten.
SettleTurn(q) ==
    /\ qpc[q] = "settle"
    /\ LET m == qmsg[q] IN
       /\ IF SameDispatch(q) THEN Finish(m, "failed", "reconciled")
          ELSE UNCHANGED <<turn, err, rev>>
       /\ IF turn'[m] # "running" THEN Remote!Forget({qbound[q]}) ELSE UNCHANGED remoteVars
    /\ QReturn(q)
    /\ UNCHANGED <<conv, bound, runtime, runners, pc, callVars, by, crashes>>

\* cancel_conversation_turn of a turn that has a runner: the check ...
RequestCancel(q, m) ==
    /\ qpc[q] = "idle" /\ Running(m)
    /\ err[m] # "unresolved" /\ m \in runners
    /\ qmsg' = [qmsg EXCEPT ![q] = m]
    /\ QGoto(q, "cancel")
    /\ UNCHANGED <<conv, rowVars, runtime, runners, pc, callVars, qbound, qrev, by, crashes,
                   remoteVars>>

\* ... and the write, which never hides an unresolved execution.
WriteCancel(q) ==
    /\ qpc[q] = "cancel"
    /\ LET m == qmsg[q] IN
       err' = IF Running(m) /\ err[m] # "unresolved"
              THEN [err EXCEPT ![m] = "cancel_requested"] ELSE err
    /\ QReturn(q)
    /\ UNCHANGED <<conv, turn, bound, rev, runtime, runners, pc, callVars, by, crashes,
                   remoteVars>>

\* close_conversation reads the conversation ...
CloseConversation(q) ==
    /\ qpc[q] = "idle" /\ conv = "active"
    /\ qrev' = [qrev EXCEPT ![q] = rev]
    /\ QGoto(q, "close")
    /\ UNCHANGED <<conv, rowVars, runtime, runners, pc, callVars, qmsg, qbound, by, crashes,
                   remoteVars>>

\* ... and writes the revision it has read plus one (SQLite has no row lock).
WriteClose(q) ==
    /\ qpc[q] = "close"
    /\ conv' = "closed"
    /\ rev' = qrev[q] + 1
    /\ QReturn(q)
    /\ UNCHANGED <<turn, err, bound, runtime, runners, pc, callVars, by, crashes, remoteVars>>

-----------------------------------------------------------------------------
\* The process dies and starts again: coroutines, _active_turns and the
\* gateway's retained proofs are gone, the database and the edge are not.
Crash ==
    /\ crashes < MaxCrashes
    /\ crashes' = crashes + 1
    /\ pc' = [c \in Calls |-> IF pc[c] = "idle" THEN "idle" ELSE "done"]
    /\ msg' = [c \in Calls |-> NoMessage] /\ cur' = [c \in Calls |-> NoDispatch]
    /\ seen' = [c \in Calls |-> 0] /\ free' = [c \in Calls |-> FALSE]
    /\ tries' = [c \in Calls |-> 0]
    /\ qpc' = [q \in Requesters |-> "idle"] /\ qmsg' = [q \in Requesters |-> NoMessage]
    /\ qbound' = [q \in Requesters |-> NoDispatch] /\ qrev' = [q \in Requesters |-> 0]
    /\ runners' = {}
    /\ Remote!Forget(Dispatches)
    /\ UNCHANGED <<conv, rowVars, runtime, by>>

\* What the edge and the gateway do on their own.
RemoteStep ==
    /\ \E d \in Dispatches :
          \/ Remote!Start(d) \/ Remote!Stop(d) \/ Remote!Drop({d})
          \/ Remote!Learn(d) \/ Remote!Forget({d})
    /\ UNCHANGED <<conv, rowVars, runtime, runners, pc, callVars, queryVars, by, crashes>>

CallStep(c) ==
    \/ CheckDuplicate(c) \/ ReadRevision(c) \/ Snapshot(c) \/ Claim(c) \/ Register(c)
    \/ PersistDispatch(c) \/ GatewaySends(c) \/ Answered(c) \/ Unresolved(c)
    \/ Reply(c) \/ RunnerFails(c)
    \/ FinishReply(c) \/ FinishFailure(c) \/ MarkUnresolved(c) \/ FinishRaises(c)
    \/ Unregister(c)

QueryStep(q) ==
    \/ \E m \in Messages : LoadRunning(q, m) \/ RequestCancel(q, m)
    \/ Reconcile(q) \/ Recover(q) \/ ProbeConfirms(q) \/ ProbeFails(q) \/ SettleTurn(q)
    \/ WriteCancel(q) \/ CloseConversation(q) \/ WriteClose(q)

Next ==
    \/ \E c \in Calls :
          \/ CallStep(c)
          \/ \E m \in Messages : SendMessage(c, m)
          \/ \E d \in Dispatches : Dispatch(c, d)
    \/ \E q \in Requesters : QueryStep(q)
    \/ RemoteStep
    \/ Crash

Spec == Init /\ [][Next]_vars

-----------------------------------------------------------------------------
CallPoints == {"idle", "allocate", "checked", "read", "claim", "inserted", "working",
               "answered", "saving", "saved", "waiting", "replying", "failing", "unresolved",
               "closing", "done"}
QueryPoints == {"idle", "loaded", "recover", "probing", "settle", "cancel", "close"}

TypeOK ==
    /\ conv \in {"active", "closed"} /\ rev \in Nat /\ runtime \in {"native", "opencli"}
    /\ turn \in [Messages -> {"none", "running", "completed", "failed"}]
    /\ err \in [Messages -> {"none", "error", "unresolved", "reconciled", "cancel_requested"}]
    /\ bound \in [Messages -> Dispatches \cup {NoDispatch}]
    /\ runners \subseteq Messages /\ crashes \in Nat
    /\ pc \in [Calls -> CallPoints] /\ msg \in [Calls -> Messages \cup {NoMessage}]
    /\ seen \in [Calls -> Nat] /\ free \in [Calls -> BOOLEAN] /\ tries \in [Calls -> Nat]
    /\ cur \in [Calls -> Dispatches \cup {NoDispatch}]
    /\ qpc \in [Requesters -> QueryPoints] /\ qmsg \in [Requesters -> Messages \cup {NoMessage}]
    /\ qbound \in [Requesters -> Dispatches \cup {NoDispatch}] /\ qrev \in [Requesters -> Nat]
    /\ by \in [Dispatches -> Messages \cup {NoMessage}]
    /\ Remote!RemoteTypeOK

\* At most one turn of the conversation is RUNNING ("insert at most one
\* running turn atomically", _insert_running_turn), whichever calls, retries
\* of the same request, closings and crashes interleave.
OneRunningTurn ==
    \A m, n \in Messages : Running(m) /\ Running(n) => m = n

MayRun(d) == sent[d] /\ exec[d] # "over"

\* The conversation never has two native executions at the edge: a dispatch
\* that may still run belongs to the RUNNING turn, and its row names it, so
\* that the turn keeps the conversation locked until exactly this dispatch is
\* proved to be over (persist_dispatch, mark_unresolved, _reconcile_remote_turn).
NativeIsLocked ==
    \A d \in Dispatches : MayRun(d) =>
        by[d] \in Messages /\ Running(by[d]) /\ bound[by[d]] = d

\* A finished turn is never run again and keeps its outcome, also when the
\* client retries the request while the first call is being served.
TurnIsFinal ==
    [][\A m \in Messages : turn[m] \in {"completed", "failed"} => turn'[m] = turn[m]]_vars
=============================================================================
