---------------------------- MODULE AgentGateway ----------------------------
(***************************************************************************)
(* The reverse WebSocket channel between the centre and one edge agent     *)
(* (backend/ws_agent_manager.py, the receive loop of api/v1/nodes.py, and  *)
(* the edge side in backend/agent_server.py).                              *)
(*                                                                         *)
(* The edge opens connections 1, 2, ... one after the other; each carries  *)
(* a FIFO of frames in both directions and may break at any time, which    *)
(* each side notices on its own.  The centre sends collects, agent tasks   *)
(* and strict agent tasks (require_cancel_ack), waits for their futures,   *)
(* cancels on timeout and probes an unresolved task's status.  The edge    *)
(* runs them, cleans up and answers.  Either process may restart.          *)
(*                                                                         *)
(* A terminal result is named by what the centre tells apart: "done",      *)
(* "error" and "cancelled" carry cleanup_complete, "dirty" does not.       *)
(***************************************************************************)
EXTENDS Integers, Sequences, FiniteSets

CONSTANTS Requests,        \* request ids (uuid4: one per dispatch)
          Probes,          \* ids of status probes
          ProbeLimit,      \* _STATUS_PROBE_LIMIT
          MaxConn,         \* bound: connections the edge opens
          MaxBreaks,       \* bound: connections that break by themselves
          MaxRestarts      \* bound: restarts of the centre and of the edge

NoProbe == "no-probe"
NoTask == "no-task"

ASSUME GatewayConstants ==
    /\ MaxConn \in Nat /\ MaxBreaks \in Nat /\ MaxRestarts \in Nat /\ ProbeLimit \in Nat
    /\ NoTask \notin Requests /\ NoProbe \notin Probes

VARIABLES
    \* the wire
    opened,      \* connections opened so far
    wire,        \* [conn -> "open" | "broken"]
    toEdge,      \* frames from the centre, per connection
    toCenter,    \* frames from the edge, per connection
    \* the centre
    conn,        \* _connections[agent_url]; 0 when absent
    loop,        \* receive loop per connection: "new" | "open" | "closed"
    busy,        \* the event frame whose callback the loop awaits: <<>> or <<frame>>
    kind,        \* what the caller dispatched under the request id
    pc,          \* where the dispatching coroutine is
    why,         \* why it is cancelling
    owner,       \* _task_owners / _collect_owners (0: no entry)
    cb,          \* _agent_task_callbacks has the request
    fut,         \* _pending / _pending_agent_tasks ("none": no entry)
    terminal,    \* _agent_task_terminal_results ("none": no entry)
    retOwner,    \* _retained_agent_tasks[r].owner (0: None)
    retVal,      \* its terminal ("pending": None; "none": no entry)
    outcome,     \* how the dispatch returned
    persisted,   \* the on_event callback consumed the task's latest event
    \* status probes
    ppc, ptask, powner, pfut, pres,
    \* the edge
    ephase,      \* "down" | "up" | "lost"
    econn,       \* the connection it reads
    est,         \* its task per request
    ews,         \* the connection the task answers on
    native,      \* native processes of the task may be alive
    eres,        \* terminal result decided so far
    cache,       \* _AGENT_TASK_TERMINALS
    past,        \* the acknowledgement of its latest event arrived
    breaks,      \* connections broken so far
    restarts     \* restarts so far

wireVars   == <<opened, wire, toEdge, toCenter, breaks>>
callVars   == <<kind, pc, why, owner, cb, fut, terminal, outcome>>
linkVars   == <<conn, loop, busy>>
keepVars   == <<retOwner, retVal>>
probeVars  == <<ppc, ptask, powner, pfut, pres>>
edgeVars   == <<ephase, econn, est, ews, native, eres, cache, past>>
vars == <<wireVars, callVars, linkVars, keepVars, probeVars, edgeVars,
          persisted, restarts>>

Conns == 1..MaxConn
Confirmed == {"done", "error", "cancelled"}
Results == Confirmed \cup {"none", "dirty"}
Frame(t, r, v, p) == [type |-> t, req |-> r, val |-> v, probe |-> p]
Frames == [type  : {"task", "collect", "cancel", "ack", "status",
                    "event", "result", "agent_result", "status_result"},
           req   : Requests,
           val   : Confirmed \cup {"none", "dirty", "running", "unknown"},
           probe : Probes \cup {NoProbe}]

Init ==
    /\ opened = 0
    /\ wire = [w \in Conns |-> "broken"]
    /\ toEdge = [w \in Conns |-> <<>>] /\ toCenter = [w \in Conns |-> <<>>]
    /\ conn = 0
    /\ loop = [w \in Conns |-> "closed"] /\ busy = [w \in Conns |-> <<>>]
    /\ kind = [r \in Requests |-> "none"] /\ pc = [r \in Requests |-> "idle"]
    /\ why = [r \in Requests |-> "none"] /\ owner = [r \in Requests |-> 0]
    /\ cb = [r \in Requests |-> FALSE]
    /\ fut = [r \in Requests |-> "none"] /\ terminal = [r \in Requests |-> "none"]
    /\ retOwner = [r \in Requests |-> 0] /\ retVal = [r \in Requests |-> "none"]
    /\ outcome = [r \in Requests |-> "none"]
    /\ persisted = [r \in Requests |-> FALSE]
    /\ ppc = [p \in Probes |-> "idle"] /\ ptask = [p \in Probes |-> NoTask]
    /\ powner = [p \in Probes |-> 0] /\ pfut = [p \in Probes |-> "none"]
    /\ pres = [p \in Probes |-> "none"]
    /\ ephase = "down" /\ econn = 0
    /\ est = [r \in Requests |-> "none"] /\ ews = [r \in Requests |-> 0]
    /\ native = [r \in Requests |-> FALSE] /\ eres = [r \in Requests |-> "none"]
    /\ cache = [r \in Requests |-> "none"]
    /\ past = [r \in Requests |-> FALSE]
    /\ breaks = 0 /\ restarts = 0

-----------------------------------------------------------------------------
(* The wire.  A frame written to a broken connection is lost, and the      *)
(* writer may or may not get an exception for it.                          *)

SendToEdge(w, m) ==
    toEdge' = IF wire[w] = "open" THEN [toEdge EXCEPT ![w] = Append(@, m)] ELSE toEdge

SendToCenter(w, m) ==
    toCenter' = IF wire[w] = "open" THEN [toCenter EXCEPT ![w] = Append(@, m)] ELSE toCenter

\* Frames to the edge that it has not read are lost with the connection (to
\* read one later is to have read it just before); frames to the centre stay
\* readable until its receive loop notices, which may be after a reconnection.
WireBreak(w) ==
    /\ wire[w] = "open" /\ breaks < MaxBreaks
    /\ breaks' = breaks + 1
    /\ wire' = [wire EXCEPT ![w] = "broken"]
    /\ toEdge' = [toEdge EXCEPT ![w] = <<>>]
    /\ UNCHANGED <<opened, toCenter, callVars, linkVars, keepVars, probeVars,
                   edgeVars, persisted, restarts>>

-----------------------------------------------------------------------------
(* Registration and disconnection at the centre.                           *)

\* Every future that waited on the current connection is failed:
\* collects and probes of its socket, agent tasks with a callback.
FailPending ==
    /\ fut' = [r \in Requests |->
                 IF fut[r] # "pending" THEN fut[r]
                 ELSE IF kind[r] = "collect" /\ owner[r] = conn THEN "raised"
                 ELSE IF cb[r] THEN "disconnected" ELSE fut[r]]
    /\ terminal' = [r \in Requests |->
                      IF cb[r] /\ terminal[r] = "pending" THEN "unresolved" ELSE terminal[r]]
    /\ cb' = [r \in Requests |-> FALSE]
    /\ pfut' = [p \in Probes |->
                  IF pfut[p] = "pending" /\ powner[p] = conn THEN "unresolved" ELSE pfut[p]]

NothingPending == UNCHANGED <<fut, terminal, cb, pfut>>

\* The endpoint handles the edge's "register" frame.
Register(w) ==
    /\ loop[w] = "new"
    /\ loop' = [loop EXCEPT ![w] = "open"]
    /\ IF conn # 0 THEN FailPending ELSE NothingPending
    /\ conn' = w
    /\ UNCHANGED <<busy, kind, pc, why, owner, outcome, ppc, ptask, powner, pres,
                   wireVars, keepVars, edgeVars, persisted, restarts>>

\* The receive loop of w ends; frames it had not read are lost.
Disconnect(w) ==
    /\ loop[w] \in {"new", "open"} /\ wire[w] = "broken" /\ busy[w] = <<>>
    /\ loop' = [loop EXCEPT ![w] = "closed"]
    /\ toCenter' = [toCenter EXCEPT ![w] = <<>>]
    /\ IF conn = w THEN FailPending /\ conn' = 0
                   ELSE NothingPending /\ UNCHANGED conn
    /\ UNCHANGED <<busy, kind, pc, why, owner, outcome, ppc, ptask, powner, pres,
                   breaks, opened, wire, toEdge, keepVars, edgeVars, persisted, restarts>>

-----------------------------------------------------------------------------
(* Dispatch at the centre.                                                 *)

\* The coroutine returns; its finally clause drops the bookkeeping.
Return(r, how) ==
    /\ pc' = [pc EXCEPT ![r] = "returned"]
    /\ outcome' = [outcome EXCEPT ![r] = how]
    /\ owner' = [owner EXCEPT ![r] = 0]
    /\ cb' = [cb EXCEPT ![r] = FALSE]
    /\ fut' = [fut EXCEPT ![r] = "none"]
    /\ terminal' = [terminal EXCEPT ![r] = "none"]
    /\ why' = [why EXCEPT ![r] = "none"]
    /\ UNCHANGED kind

Cancelling(r, reason) ==
    /\ pc' = [pc EXCEPT ![r] = "cancel"]
    /\ why' = [why EXCEPT ![r] = reason]
    /\ UNCHANGED <<kind, owner, cb, fut, terminal, outcome>>

\* dispatch_collect, and send_agent_task without require_cancel_ack.
Dispatch(r, k) ==
    /\ pc[r] = "idle" /\ conn # 0
    /\ kind' = [kind EXCEPT ![r] = k]
    /\ owner' = [owner EXCEPT ![r] = conn]
    /\ cb' = [cb EXCEPT ![r] = (k # "collect")]
    /\ fut' = [fut EXCEPT ![r] = "pending"]
    /\ pc' = [pc EXCEPT ![r] = "waiting"]
    /\ SendToEdge(conn, Frame(IF k = "collect" THEN "collect" ELSE "task", r, "none", NoProbe))
    /\ UNCHANGED <<why, terminal, outcome, breaks, opened, wire, toCenter, linkVars, keepVars,
                   probeVars, edgeVars, persisted, restarts>>

\* send_agent_task with require_cancel_ack, up to the await of the observer.
DispatchStrict(r) ==
    /\ pc[r] = "idle" /\ conn # 0
    /\ kind' = [kind EXCEPT ![r] = "strict"]
    /\ owner' = [owner EXCEPT ![r] = conn]
    /\ cb' = [cb EXCEPT ![r] = TRUE]
    /\ fut' = [fut EXCEPT ![r] = "pending"]
    /\ terminal' = [terminal EXCEPT ![r] = "pending"]
    /\ pc' = [pc EXCEPT ![r] = "observing"]
    /\ UNCHANGED <<why, outcome, wireVars, linkVars, keepVars, probeVars, edgeVars,
                   persisted, restarts>>

\* The observer has persisted the dispatch: retain the task and send it.
Observed(r) ==
    /\ pc[r] = "observing"
    /\ retOwner' = [retOwner EXCEPT ![r] = owner[r]]
    /\ retVal' = [retVal EXCEPT ![r] = "pending"]
    /\ pc' = [pc EXCEPT ![r] = "waiting"]
    /\ SendToEdge(owner[r], Frame("task", r, "none", NoProbe))
    /\ UNCHANGED <<kind, why, owner, cb, fut, terminal, outcome, breaks, opened, wire, toCenter,
                   linkVars, probeVars, edgeVars, persisted, restarts>>

\* The observer raised, or the caller was cancelled in it: nothing was sent.
ObserverFails(r) ==
    /\ pc[r] = "observing"
    /\ Return(r, "notsent")
    /\ UNCHANGED <<wireVars, linkVars, keepVars, probeVars, edgeVars, persisted, restarts>>

\* The await of the future ends with a result or an exception.
Awaited(r) ==
    /\ pc[r] = "waiting" /\ fut[r] # "pending"
    /\ IF kind[r] = "strict"
       THEN /\ IF fut[r] \in Confirmed THEN Return(r, fut[r])
               ELSE Cancelling(r, IF fut[r] = "raised" THEN "failed" ELSE "unconfirmed")
            /\ UNCHANGED toEdge
       ELSE /\ Return(r, IF fut[r] = "raised" THEN "failed" ELSE fut[r])
            /\ IF fut[r] = "raised" /\ kind[r] = "loose"
               THEN SendToEdge(owner[r], Frame("cancel", r, "none", NoProbe))
               ELSE UNCHANGED toEdge
    /\ UNCHANGED <<breaks, opened, wire, toCenter, linkVars, keepVars, probeVars, edgeVars,
                   persisted, restarts>>

\* The deadline expires, the caller is cancelled, or the send itself raised.
Interrupted(r, reason) ==
    /\ pc[r] = "waiting"
    /\ reason = "failed" => wire[owner[r]] = "broken"
    /\ IF kind[r] = "strict"
       THEN Cancelling(r, reason) /\ UNCHANGED toEdge
       ELSE /\ Return(r, reason)
            /\ IF kind[r] = "collect" /\ reason # "aborted" THEN UNCHANGED toEdge
               ELSE SendToEdge(owner[r], Frame("cancel", r, "none", NoProbe))
    /\ UNCHANGED <<breaks, opened, wire, toCenter, linkVars, keepVars, probeVars, edgeVars,
                   persisted, restarts>>

\* What the caller gets once the cancellation of a strict task is resolved.
Resolved(r) ==
    IF terminal[r] = "unresolved" \/ why[r] = "unconfirmed" THEN "unresolved"
    ELSE IF why[r] = "timeout" /\ terminal[r] = "done" THEN "done"
    ELSE IF why[r] = "aborted" /\ terminal[r] # "cancelled" THEN terminal[r]
    ELSE why[r]

\* _cancel_agent_task_confirmed, up to the await of the terminal future.
CancelConfirmed(r) ==
    /\ pc[r] = "cancel"
    /\ IF terminal[r] # "pending" THEN Return(r, Resolved(r)) /\ UNCHANGED toEdge
       ELSE IF conn # owner[r] THEN Return(r, "unresolved") /\ UNCHANGED toEdge
       ELSE \/ /\ pc' = [pc EXCEPT ![r] = "cancelwait"]
               /\ SendToEdge(owner[r], Frame("cancel", r, "none", NoProbe))
               /\ UNCHANGED <<kind, why, owner, cb, fut, terminal, outcome>>
            \/ /\ wire[owner[r]] = "broken"
               /\ Return(r, "unresolved") /\ UNCHANGED toEdge
    /\ UNCHANGED <<breaks, opened, wire, toCenter, linkVars, keepVars, probeVars, edgeVars,
                   persisted, restarts>>

\* Mutant: no cancel_ack_timeout.
CancelAwaitedForever(r) ==
    /\ pc[r] = "cancelwait"
    /\ terminal[r] # "pending" /\ Return(r, Resolved(r))
    /\ UNCHANGED <<wireVars, linkVars, keepVars, probeVars, edgeVars, persisted, restarts>>

\* The terminal future resolves, or cancel_ack_timeout expires.
CancelAwaited(r) ==
    /\ pc[r] = "cancelwait"
    /\ \/ terminal[r] # "pending" /\ Return(r, Resolved(r))
       \/ terminal[r] = "pending" /\ Return(r, "unresolved")
    /\ UNCHANGED <<wireVars, linkVars, keepVars, probeVars, edgeVars, persisted, restarts>>

\* A retained entry expires, is pushed out by newer ones or is forgotten; it
\* is read only after the dispatch has returned.
PruneRetained(r) ==
    /\ retVal[r] # "none" /\ pc[r] = "returned"
    /\ retVal' = [retVal EXCEPT ![r] = "none"]
    /\ retOwner' = [retOwner EXCEPT ![r] = 0]
    /\ UNCHANGED <<wireVars, callVars, linkVars, probeVars, edgeVars, persisted, restarts>>

-----------------------------------------------------------------------------
(* Status probes (probe_agent_task), asked by a caller whose dispatch was  *)
(* left unresolved or died with the centre (recover_conversation_turn).    *)

ProbeTask(p, r) ==
    /\ ppc[p] = "idle" /\ kind[r] = "strict"
    /\ outcome[r] = "unresolved" \/ pc[r] = "crashed"
    /\ ptask' = [ptask EXCEPT ![p] = r]
    /\ IF conn = 0 \/ Cardinality({q \in Probes : ppc[q] = "waiting"}) >= ProbeLimit
       THEN /\ ppc' = [ppc EXCEPT ![p] = "done"]
            /\ pres' = [pres EXCEPT ![p] = "unresolved"]
            /\ UNCHANGED <<powner, pfut, toEdge>>
       ELSE /\ ppc' = [ppc EXCEPT ![p] = "waiting"]
            /\ powner' = [powner EXCEPT ![p] = conn]
            /\ pfut' = [pfut EXCEPT ![p] = "pending"]
            /\ SendToEdge(conn, Frame("status", r, "none", p))
            /\ UNCHANGED pres
    /\ UNCHANGED <<breaks, opened, wire, toCenter, callVars, linkVars, keepVars, edgeVars,
                   persisted, restarts>>

\* The probe returns its future's result while its connection is current;
\* a timeout, a failed send and a disconnection leave the task unresolved.
ProbeReturns(p) ==
    /\ ppc[p] = "waiting"
    /\ \/ /\ pfut[p] \notin {"pending", "unresolved"} /\ conn = powner[p]
          /\ pres' = [pres EXCEPT ![p] = pfut[p]]
       \/ pres' = [pres EXCEPT ![p] = "unresolved"]
    /\ ppc' = [ppc EXCEPT ![p] = "done"]
    /\ pfut' = [pfut EXCEPT ![p] = "none"]
    /\ powner' = [powner EXCEPT ![p] = 0]
    /\ UNCHANGED <<ptask, wireVars, callVars, linkVars, keepVars, edgeVars, persisted,
                   restarts>>

-----------------------------------------------------------------------------
(* The receive loop of the centre.                                         *)

Receiving(w, t) ==
    /\ loop[w] = "open" /\ busy[w] = <<>>
    /\ toCenter[w] # <<>> /\ Head(toCenter[w]).type = t
    /\ toCenter' = [toCenter EXCEPT ![w] = Tail(@)]

\* resolve_response
ReceiveCollectResult(w) ==
    /\ Receiving(w, "result")
    /\ LET m == Head(toCenter[w]) IN
       fut' = IF owner[m.req] = w /\ fut[m.req] = "pending"
              THEN [fut EXCEPT ![m.req] = m.val] ELSE fut
    /\ UNCHANGED <<breaks, opened, wire, toEdge, kind, pc, why, owner, cb, terminal, outcome,
                   linkVars, keepVars, probeVars, edgeVars, persisted, restarts>>

\* resolve_agent_result
ReceiveAgentResult(w) ==
    /\ Receiving(w, "agent_result")
    /\ LET m == Head(toCenter[w])
           r == m.req
           keep == /\ retVal[r] = "pending" /\ retOwner[r] = w /\ conn = w
                   /\ m.val \in Confirmed
       IN /\ retVal' = IF keep THEN [retVal EXCEPT ![r] = m.val] ELSE retVal
          /\ retOwner' = IF keep THEN [retOwner EXCEPT ![r] = 0] ELSE retOwner
          /\ terminal' = IF owner[r] = w /\ terminal[r] = "pending" /\ m.val \in Confirmed
                         THEN [terminal EXCEPT ![r] = m.val] ELSE terminal
          /\ fut' = IF owner[r] = w /\ fut[r] = "pending"
                    THEN [fut EXCEPT ![r] = m.val] ELSE fut
    /\ UNCHANGED <<breaks, opened, wire, toEdge, kind, pc, why, owner, cb, outcome,
                   linkVars, probeVars, edgeVars, persisted, restarts>>

\* resolve_agent_event, up to the await of the callback.
ReceiveEvent(w) ==
    /\ Receiving(w, "event")
    /\ LET m == Head(toCenter[w]) IN
       busy' = IF cb[m.req] /\ conn = w THEN [busy EXCEPT ![w] = <<m>>] ELSE busy
    /\ UNCHANGED <<breaks, opened, wire, toEdge, conn, loop, callVars, keepVars, probeVars,
                   edgeVars, persisted, restarts>>

\* The callback consumed the event; the acknowledgement follows.
EventPersisted(w) ==
    /\ busy[w] # <<>>
    /\ LET m == Head(busy[w]) IN
       /\ persisted' = [persisted EXCEPT ![m.req] = TRUE]
       /\ SendToEdge(w, Frame("ack", m.req, "none", NoProbe))
    /\ busy' = [busy EXCEPT ![w] = <<>>]
    /\ UNCHANGED <<breaks, opened, wire, toCenter, conn, loop, callVars, keepVars, probeVars,
                   edgeVars, restarts>>

\* Mutant: the event is acknowledged although its callback raised.
EventFailsAcknowledged(w) ==
    /\ busy[w] # <<>>
    /\ LET m == Head(busy[w]) IN
       /\ fut' = IF fut[m.req] = "pending" THEN [fut EXCEPT ![m.req] = "raised"] ELSE fut
       /\ SendToEdge(w, Frame("ack", m.req, "none", NoProbe))
    /\ busy' = [busy EXCEPT ![w] = <<>>]
    /\ UNCHANGED <<breaks, opened, wire, toCenter, conn, loop, kind, pc, why, owner, cb,
                   terminal, outcome, keepVars, probeVars, edgeVars, persisted, restarts>>

\* The callback, or the acknowledgement, raised: the dispatch is failed.
EventFails(w) ==
    /\ busy[w] # <<>>
    /\ LET m == Head(busy[w]) IN
       fut' = IF fut[m.req] = "pending" THEN [fut EXCEPT ![m.req] = "raised"] ELSE fut
    /\ busy' = [busy EXCEPT ![w] = <<>>]
    /\ UNCHANGED <<wireVars, conn, loop, kind, pc, why, owner, cb, terminal, outcome,
                   keepVars, probeVars, edgeVars, persisted, restarts>>

\* resolve_agent_task_status
ReceiveStatus(w) ==
    /\ Receiving(w, "status_result")
    /\ LET m == Head(toCenter[w])
           p == m.probe
       IN pfut' = IF pfut[p] = "pending" /\ powner[p] = w /\ conn = w /\ ptask[p] = m.req
                  THEN [pfut EXCEPT ![p] = IF m.val = "dirty" THEN "unknown" ELSE m.val]
                  ELSE pfut
    /\ UNCHANGED <<breaks, opened, wire, toEdge, callVars, linkVars, keepVars, ppc, ptask,
                   powner,
                   pres, edgeVars, persisted, restarts>>

\* The centre process restarts: everything it kept in memory is gone.
CenterRestart ==
    /\ restarts < MaxRestarts
    /\ restarts' = restarts + 1
    /\ conn' = 0
    /\ loop' = [w \in Conns |-> "closed"] /\ busy' = [w \in Conns |-> <<>>]
    /\ wire' = [w \in Conns |-> "broken"]
    /\ toEdge' = [w \in Conns |-> <<>>] /\ toCenter' = [w \in Conns |-> <<>>]
    /\ pc' = [r \in Requests |-> CASE pc[r] = "observing" -> "unsent"
                                  [] pc[r] \in {"waiting", "cancel", "cancelwait"} -> "crashed"
                                  [] OTHER -> pc[r]]
    /\ owner' = [r \in Requests |-> 0] /\ cb' = [r \in Requests |-> FALSE]
    /\ fut' = [r \in Requests |-> "none"] /\ terminal' = [r \in Requests |-> "none"]
    /\ why' = [r \in Requests |-> "none"]
    /\ retOwner' = [r \in Requests |-> 0] /\ retVal' = [r \in Requests |-> "none"]
    /\ ppc' = [p \in Probes |-> IF ppc[p] = "waiting" THEN "done" ELSE ppc[p]]
    /\ powner' = [p \in Probes |-> 0] /\ pfut' = [p \in Probes |-> "none"]
    /\ UNCHANGED <<breaks, opened, kind, outcome, persisted, ptask, pres, edgeVars>>

-----------------------------------------------------------------------------
(* The edge.                                                               *)

\* _register_via_ws: the next connection is opened and registers.
EdgeConnect ==
    /\ ephase = "down" /\ opened < MaxConn
    /\ opened' = opened + 1
    /\ wire' = [wire EXCEPT ![opened + 1] = "open"]
    /\ loop' = [loop EXCEPT ![opened + 1] = "new"]
    /\ ephase' = "up" /\ econn' = opened + 1
    /\ UNCHANGED <<breaks, toEdge, toCenter, callVars, conn, busy, keepVars, probeVars, est,
                   ews, native,
                   eres, cache, past, persisted, restarts>>

\* Its receive loop ends; it backs off.
EdgeLose ==
    /\ ephase = "up" /\ wire[econn] = "broken"
    /\ ephase' = "lost" /\ econn' = 0
    /\ UNCHANGED <<wireVars, callVars, linkVars, keepVars, probeVars, est, ews,
                   native, eres, cache, past, persisted, restarts>>

\* asyncio's cancel() at the points where the task can be suspended: before
\* its first step it never runs; while it iterates, cleanup begins; cleanup
\* itself swallows it; while the terminal event ("done" or "error") is being
\* flushed, it is sent once more.  An "error" that an except clause flushes is
\* not told apart from a streamed one.
AfterCancel(r) ==
    CASE est[r] = "created" -> "ended"
      [] est[r] \in {"running", "ackwait"} -> "closing"
      [] est[r] = "flushing" /\ eres[r] \in {"done", "error"} -> "resending"
      [] OTHER -> est[r]

\* A terminal event that was already streamed stays the result.
ResultsAfterCancel(r) ==
    CASE est[r] = "running" -> {"cancelled", "done", "error"}
      [] est[r] = "ackwait" -> {"cancelled"}
      [] OTHER -> {eres[r]}

\* Mutant: the tasks of the lost connection are not cancelled.
EdgeSweepNothing ==
    /\ ephase = "lost"
    /\ ephase' = "down"
    /\ UNCHANGED <<wireVars, callVars, linkVars, keepVars, probeVars, econn, est, eres, ews,
                   native, cache, past, persisted, restarts>>

\* The finally clause after the back-off cancels every agent task.
EdgeSweep ==
    /\ ephase = "lost"
    /\ ephase' = "down"
    /\ est' = [r \in Requests |-> IF kind[r] = "collect" THEN est[r] ELSE AfterCancel(r)]
    /\ eres' \in {f \in [Requests -> Results] : \A r \in Requests :
                    f[r] \in IF kind[r] = "collect" THEN {eres[r]} ELSE ResultsAfterCancel(r)}
    /\ UNCHANGED <<wireVars, callVars, linkVars, keepVars, probeVars, econn, ews, native,
                   cache, past, persisted, restarts>>

EdgeReceiving(t) ==
    /\ ephase = "up" /\ toEdge[econn] # <<>> /\ Head(toEdge[econn]).type = t
    /\ toEdge' = [toEdge EXCEPT ![econn] = Tail(@)]

\* _start_ws_agent_task
EdgeReceiveTask ==
    /\ EdgeReceiving("task")
    /\ LET r == Head(toEdge[econn]).req IN
       /\ est' = [est EXCEPT ![r] = "created"]
       /\ ews' = [ews EXCEPT ![r] = econn]
       /\ cache' = [cache EXCEPT ![r] = "none"]
    /\ UNCHANGED <<breaks, opened, wire, toCenter, callVars, linkVars, keepVars, probeVars,
                   ephase,
                   econn, native, eres, past, persisted, restarts>>

\* _handle_ws_collect starts the collection.
EdgeReceiveCollect ==
    /\ EdgeReceiving("collect")
    /\ LET r == Head(toEdge[econn]).req IN
       /\ est' = [est EXCEPT ![r] = "running"]
       /\ ews' = [ews EXCEPT ![r] = econn]
       /\ native' = [native EXCEPT ![r] = TRUE]
    /\ UNCHANGED <<breaks, opened, wire, toCenter, callVars, linkVars, keepVars, probeVars,
                   ephase,
                   econn, eres, cache, past, persisted, restarts>>

\* "cancel": kills a collection's process tree, cancels an agent task.
EdgeReceiveCancel ==
    /\ EdgeReceiving("cancel")
    /\ LET r == Head(toEdge[econn]).req IN
       IF kind[r] = "collect"
       THEN /\ est' = IF est[r] = "running" THEN [est EXCEPT ![r] = "closing"] ELSE est
            /\ eres' = IF est[r] = "running" THEN [eres EXCEPT ![r] = "error"] ELSE eres
       ELSE /\ est' = [est EXCEPT ![r] = AfterCancel(r)]
            /\ \E v \in ResultsAfterCancel(r) : eres' = [eres EXCEPT ![r] = v]
    /\ UNCHANGED <<breaks, opened, wire, toCenter, callVars, linkVars, keepVars, probeVars,
                   ephase,
                   econn, ews, native, cache, past, persisted, restarts>>

\* _resolve_ws_agent_event_ack
EdgeReceiveAck ==
    /\ EdgeReceiving("ack")
    /\ LET r == Head(toEdge[econn]).req
           awaited == est[r] = "ackwait"
       IN /\ est' = IF awaited THEN [est EXCEPT ![r] = "running"] ELSE est
          /\ past' = IF awaited THEN [past EXCEPT ![r] = TRUE] ELSE past
    /\ UNCHANGED <<breaks, opened, wire, toCenter, callVars, linkVars, keepVars, probeVars,
                   ephase,
                   econn, ews, native, eres, cache, persisted, restarts>>

\* Mutant: a task the edge does not know is reported as finished.
StatusOfUnknownIsDone(r) ==
    IF cache[r] \in Confirmed THEN cache[r]
    ELSE IF est[r] \notin {"none", "ended"} THEN "running"
    ELSE IF cache[r] = "dirty" THEN "dirty" ELSE "done"

\* _handle_ws_agent_task_status: what the edge knows of the task.
StatusOf(r) ==
    IF cache[r] \in Confirmed THEN cache[r]
    ELSE IF est[r] \notin {"none", "ended"} THEN "running"
    ELSE IF cache[r] = "dirty" THEN "dirty" ELSE "unknown"

EdgeReceiveStatus ==
    /\ EdgeReceiving("status")
    /\ LET m == Head(toEdge[econn]) IN
       SendToCenter(econn, Frame("status_result", m.req, StatusOf(m.req), m.probe))
    /\ UNCHANGED <<breaks, opened, wire, callVars, linkVars, keepVars, probeVars, edgeVars,
                   persisted, restarts>>

\* The task's first steps: it starts the runtime, refuses the task, or the
\* readiness check raises.
EdgeBegin(r) ==
    /\ est[r] = "created"
    /\ \/ /\ est' = [est EXCEPT ![r] = "running"]
          /\ native' = [native EXCEPT ![r] = TRUE]
          /\ UNCHANGED eres
       \/ /\ est' = [est EXCEPT ![r] = "sending"]
          /\ \E v \in {"error", "dirty"} : eres' = [eres EXCEPT ![r] = v]
          /\ UNCHANGED native
    /\ UNCHANGED <<wireVars, callVars, linkVars, keepVars, probeVars, ephase, econn, ews,
                   cache, past, persisted, restarts>>

\* _send_ws_agent_event of a durable event, which waits for its
\* acknowledgement; an event that cannot be delivered ends the task.
EdgeEmit(r) ==
    /\ est[r] = "running" /\ kind[r] # "collect"
    /\ persisted' = [persisted EXCEPT ![r] = FALSE]
    /\ past' = [past EXCEPT ![r] = FALSE]
    /\ \/ /\ est' = [est EXCEPT ![r] = "ackwait"]
          /\ SendToCenter(ews[r], Frame("event", r, "none", NoProbe))
          /\ UNCHANGED eres
       \/ /\ wire[ews[r]] = "broken"
          /\ est' = [est EXCEPT ![r] = "closing"]
          /\ eres' = [eres EXCEPT ![r] = "error"]
          /\ UNCHANGED toCenter
    /\ UNCHANGED <<breaks, opened, wire, toEdge, callVars, linkVars, keepVars, probeVars,
                   ephase, econn,
                   ews, native, cache, restarts>>

\* The iteration ends: normally, with the runtime's error, with the
\* acknowledgement timing out, or with an exception of the adapter.
EdgeIterationEnds(r) ==
    /\ \/ /\ est[r] = "running"
          /\ eres' = [eres EXCEPT ![r] = "done"] \/ eres' = [eres EXCEPT ![r] = "error"]
       \/ est[r] = "ackwait" /\ eres' = [eres EXCEPT ![r] = "error"]
       \/ /\ est[r] = "running" /\ kind[r] # "collect"
          /\ eres' = [eres EXCEPT ![r] = "dirty"]
    /\ est' = [est EXCEPT ![r] = "closing"]
    /\ UNCHANGED <<wireVars, callVars, linkVars, keepVars, probeVars, ephase, econn, ews,
                   native,
                   cache, past, persisted, restarts>>

\* aclose() of the stream is awaited to its end; when it raises, or the
\* iteration had failed, cleanup is not claimed and processes may survive.
EdgeClose(r) ==
    /\ est[r] = "closing"
    /\ est' = [est EXCEPT ![r] = "sending"]
    /\ \/ /\ eres[r] # "dirty"
          /\ native' = [native EXCEPT ![r] = FALSE]
          /\ UNCHANGED eres
       \/ /\ kind[r] # "collect"
          /\ eres' = [eres EXCEPT ![r] = "dirty"]
          /\ \/ UNCHANGED native
             \/ native' = [native EXCEPT ![r] = FALSE]
    /\ UNCHANGED <<wireVars, callVars, linkVars, keepVars, probeVars, ephase, econn, ews,
                   cache, past, persisted, restarts>>

\* _send_result: a strict task's result is cached, then written.
EdgeSend(r) ==
    /\ est[r] \in {"sending", "resending"}
    /\ est' = [est EXCEPT ![r] = IF @ = "sending" THEN "flushing" ELSE "ended"]
    /\ cache' = IF kind[r] = "strict" THEN [cache EXCEPT ![r] = eres[r]] ELSE cache
    /\ SendToCenter(ews[r], Frame(IF kind[r] = "collect" THEN "result" ELSE "agent_result",
                                  r, eres[r], NoProbe))
    /\ UNCHANGED <<breaks, opened, wire, toEdge, callVars, linkVars, keepVars, probeVars,
                   ephase, econn,
                   ews, native, eres, past, persisted, restarts>>

EdgeFlushed(r) ==
    /\ est[r] = "flushing"
    /\ est' = [est EXCEPT ![r] = "ended"]
    /\ UNCHANGED <<wireVars, callVars, linkVars, keepVars, probeVars, ephase, econn, ews,
                   native,
                   eres, cache, past, persisted, restarts>>

\* The oldest cached terminals expire or are pushed out.
EdgeExpire(r) ==
    /\ cache[r] # "none" /\ est[r] = "ended"
    /\ cache' = [cache EXCEPT ![r] = "none"]
    /\ UNCHANGED <<wireVars, callVars, linkVars, keepVars, probeVars, ephase, econn, est, ews,
                   native, eres, past, persisted, restarts>>

\* Processes that outlived their task exit on their own.
NativeExit(r) ==
    /\ native[r] /\ est[r] \in {"sending", "flushing", "resending", "ended"}
    /\ native' = [native EXCEPT ![r] = FALSE]
    /\ UNCHANGED <<wireVars, callVars, linkVars, keepVars, probeVars, ephase, econn, est, ews,
                   eres, cache, past, persisted, restarts>>

\* The edge process restarts: its tasks and its cache are gone, the native
\* processes it had spawned are not.
EdgeRestart ==
    /\ restarts < MaxRestarts
    /\ restarts' = restarts + 1
    /\ ephase' = "down" /\ econn' = 0
    /\ wire' = IF ephase = "up" THEN [wire EXCEPT ![econn] = "broken"] ELSE wire
    /\ toEdge' = [w \in Conns |-> <<>>]
    /\ est' = [r \in Requests |-> IF est[r] = "none" THEN "none" ELSE "ended"]
    /\ cache' = [r \in Requests |-> "none"]
    /\ UNCHANGED <<breaks, opened, toCenter, callVars, linkVars, keepVars, probeVars, ews,
                   native, eres,
                   past, persisted>>

-----------------------------------------------------------------------------
CenterNext ==
    \/ \E w \in Conns :
          \/ Register(w) \/ Disconnect(w) \/ WireBreak(w)
          \/ ReceiveCollectResult(w) \/ ReceiveAgentResult(w) \/ ReceiveEvent(w)
          \/ EventPersisted(w) \/ EventFails(w) \/ ReceiveStatus(w)
    \/ \E r \in Requests :
          \/ Dispatch(r, "collect") \/ Dispatch(r, "loose") \/ DispatchStrict(r)
          \/ Observed(r) \/ ObserverFails(r) \/ Awaited(r)
          \/ Interrupted(r, "timeout") \/ Interrupted(r, "aborted") \/ Interrupted(r, "failed")
          \/ CancelConfirmed(r) \/ CancelAwaited(r) \/ PruneRetained(r)
    \/ \E p \in Probes : (\E r \in Requests : ProbeTask(p, r)) \/ ProbeReturns(p)
    \/ CenterRestart

EdgeNext ==
    \/ EdgeConnect \/ EdgeLose \/ EdgeSweep
    \/ EdgeReceiveTask \/ EdgeReceiveCollect \/ EdgeReceiveCancel
    \/ EdgeReceiveAck \/ EdgeReceiveStatus \/ EdgeRestart
    \/ \E r \in Requests :
          \/ EdgeBegin(r) \/ EdgeEmit(r)
          \/ EdgeIterationEnds(r) \/ EdgeClose(r) \/ EdgeSend(r) \/ EdgeFlushed(r)
          \/ EdgeExpire(r) \/ NativeExit(r)

Next == CenterNext \/ EdgeNext

\* The event loops of both processes keep running their ready coroutines and
\* expire their timers; nothing forces a connection to open, a frame to
\* arrive, or a native execution to end by itself.
CallStep(r) ==
    \/ Observed(r) \/ ObserverFails(r) \/ Awaited(r) \/ Interrupted(r, "timeout")
    \/ CancelConfirmed(r) \/ CancelAwaited(r)

TaskStep(r) == EdgeBegin(r) \/ EdgeClose(r) \/ EdgeSend(r) \/ EdgeFlushed(r)

Fairness ==
    /\ \A r \in Requests : WF_vars(CallStep(r)) /\ WF_vars(TaskStep(r))
    /\ WF_vars(EdgeSweep)

Spec == Init /\ [][Next]_vars /\ Fairness

-----------------------------------------------------------------------------
WireType ==
    /\ opened \in 0..MaxConn /\ breaks \in Nat /\ restarts \in Nat
    /\ wire \in [Conns -> {"open", "broken"}]
    /\ toEdge \in [Conns -> Seq(Frames)] /\ toCenter \in [Conns -> Seq(Frames)]

LinkType ==
    /\ conn \in 0..MaxConn
    /\ loop \in [Conns -> {"new", "open", "closed"}]
    /\ busy \in [Conns -> Seq(Frames)]
    /\ persisted \in [Requests -> BOOLEAN]

Kinds == {"none", "collect", "loose", "strict"}
CallPoints == {"idle", "observing", "waiting", "cancel", "cancelwait",
               "returned", "crashed", "unsent"}
Reasons == {"none", "timeout", "aborted", "failed", "unconfirmed"}
FutureValues == Confirmed \cup {"none", "pending", "dirty", "disconnected", "raised"}
TerminalValues == Confirmed \cup {"none", "pending", "unresolved"}
Outcomes == Confirmed \cup {"none", "dirty", "disconnected", "notsent", "timeout",
                            "aborted", "failed", "unresolved"}

CallType ==
    /\ kind \in [Requests -> Kinds] /\ pc \in [Requests -> CallPoints]
    /\ why \in [Requests -> Reasons]
    /\ owner \in [Requests -> 0..MaxConn]
    /\ cb \in [Requests -> BOOLEAN]
    /\ fut \in [Requests -> FutureValues] /\ terminal \in [Requests -> TerminalValues]
    /\ outcome \in [Requests -> Outcomes]

KeepType ==
    /\ retOwner \in [Requests -> 0..MaxConn]
    /\ retVal \in [Requests -> Confirmed \cup {"none", "pending"}]

Statuses == Confirmed \cup {"none", "running", "unknown", "unresolved"}

ProbeType ==
    /\ ppc \in [Probes -> {"idle", "waiting", "done"}]
    /\ ptask \in [Probes -> Requests \cup {NoTask}]
    /\ powner \in [Probes -> 0..MaxConn]
    /\ pfut \in [Probes -> Statuses \cup {"pending"}]
    /\ pres \in [Probes -> Statuses]

TaskPoints == {"none", "created", "running", "ackwait", "closing", "sending",
               "flushing", "resending", "ended"}

EdgeType ==
    /\ ephase \in {"down", "up", "lost"} /\ econn \in 0..MaxConn
    /\ est \in [Requests -> TaskPoints]
    /\ ews \in [Requests -> 0..MaxConn]
    /\ native \in [Requests -> BOOLEAN] /\ past \in [Requests -> BOOLEAN]
    /\ eres \in [Requests -> Results] /\ cache \in [Requests -> Results]

TypeOK == WireType /\ LinkType /\ CallType /\ KeepType /\ ProbeType /\ EdgeType

(***************************************************************************)
(* What a caller may conclude, as the abstract specification RemoteTask    *)
(* sees it.  Only a strict dispatch makes a claim.                         *)
(***************************************************************************)
SettledOutcomes == Confirmed \cup {"timeout", "aborted", "failed", "notsent"}

WasSent(r) ==
    \/ pc[r] \in {"waiting", "cancel", "cancelwait", "crashed"}
    \/ pc[r] = "returned" /\ outcome[r] # "notsent"

Execution(r) ==
    IF est[r] \in {"none", "created"} THEN "idle" ELSE IF native[r] THEN "live" ELSE "over"

Verdict(r) ==
    IF outcome[r] = "none" THEN "none"
    ELSE IF kind[r] = "strict" /\ outcome[r] \in SettledOutcomes THEN "settled"
    ELSE "unresolved"

HasProof(r) ==
    \/ retVal[r] \in Confirmed
    \/ \E p \in Probes : ptask[p] = r /\ pres[p] \in Confirmed

Remote == INSTANCE RemoteTask WITH
    sent    <- [r \in Requests |-> WasSent(r)],
    exec    <- [r \in Requests |-> Execution(r)],
    verdict <- [r \in Requests |-> Verdict(r)],
    proof   <- [r \in Requests |-> HasProof(r)]

\* The gateway implements RemoteTask: a strict dispatch that returns a result,
\* TimeoutError, the cancellation or the callback's exception, and a proof
\* kept in _retained_agent_tasks or answered to a probe, are only ever about
\* an execution whose native processes are gone and cannot start again
\* (AgentTaskUnresolvedError: "Remote execution may still be running").
ImplementsRemoteTask == Remote!RemoteSpec

\* The edge goes past a durable event (doubao.capture.pre_cleanup) only if
\* the centre's callback has consumed it ("sent only after an ack-required
\* event's callback has durably consumed the event").
EvidenceBeforeCleanup == \A r \in Requests : past[r] => persisted[r]

\* Every dispatch returns to its caller (or dies with the centre), whatever
\* the edge and the connection do.
DispatchReturns ==
    \A r \in Requests :
        pc[r] \in {"observing", "waiting"} ~> pc[r] \in {"returned", "crashed", "unsent"}

\* After the edge loses its connection no agent task keeps running: each is
\* cancelled and reaches its end.
EdgeStopsAfterLoss ==
    \A r \in Requests :
        (ephase = "lost" /\ kind[r] # "collect" /\ est[r] # "none") ~> est[r] = "ended"
=============================================================================
