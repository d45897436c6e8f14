-------------------------- MODULE AgentGatewayProofs --------------------------
(***************************************************************************)
(* Proofs about AgentGateway for any number of requests, probes,           *)
(* connections, breaks and restarts: the gateway implements RemoteTask,    *)
(* and the edge goes past a durable event only when the centre has         *)
(* consumed it.                                                            *)
(***************************************************************************)
EXTENDS AgentGateway, SequenceTheorems, TLAPS

USE GatewayConstants

-----------------------------------------------------------------------------
(* Frames on their way *)

\* A frame is somewhere in the queues of a direction.
Carries(ch, m) == \E w \in Conns : \E i \in 1..Len(ch[w]) : ch[w][i] = m

Matches(m, T, r) == m.type \in T /\ m.req = r

\* A frame about r with a type of T is on its way; it is the only one.
Holds(ch, T, r) == \E m \in Frames : Carries(ch, m) /\ Matches(m, T, r)
Once(ch, T, r) ==
    \A v, w \in Conns : \A i \in 1..Len(ch[v]) : \A j \in 1..Len(ch[w]) :
        Matches(ch[v][i], T, r) /\ Matches(ch[w][j], T, r) => v = w /\ i = j

-----------------------------------------------------------------------------
(* The inductive invariant *)

Starting == {"task", "collect"}
Answers == {"result", "agent_result"}
Answering == {"sending", "flushing", "resending"}

\* Nothing of the request runs, and nothing of it will.
Over(r) == est[r] \notin {"none", "created"} /\ ~native[r]

\* The coroutine of a dispatch has the entries it will read.
CallInv ==
    \A r \in Requests :
        /\ outcome[r] # "none" <=> pc[r] = "returned"
        /\ pc[r] \in {"observing", "waiting"} => fut[r] # "none"
        /\ pc[r] \in {"observing", "waiting"} /\ kind[r] = "strict" => terminal[r] # "none"
        /\ pc[r] \in {"cancel", "cancelwait"} =>
              kind[r] = "strict" /\ terminal[r] # "none" /\ why[r] # "none"

ProbeInv ==
    \A p \in Probes :
        /\ ppc[p] # "waiting" => pfut[p] = "none"
        /\ ppc[p] # "done" => pres[p] = "none"

\* A task that claims to have cleaned up has no process any more.
EdgeInv ==
    /\ ephase = "up" => econn \in Conns
    /\ \A r \in Requests :
          /\ est[r] \in {"none", "created"} => ~native[r]
          /\ est[r] \in Answering /\ eres[r] \in Confirmed => ~native[r]
          /\ est[r] \in Answering \cup {"closing"} => eres[r] # "none"
          /\ cache[r] \in Confirmed => Over(r)

\* A request is sent once and starts once.
StartInv ==
    \A r \in Requests :
        /\ est[r] # "none" => WasSent(r)
        /\ Holds(toEdge, Starting, r) => est[r] = "none" /\ WasSent(r)
        /\ Once(toEdge, Starting, r)

\* A confirmed result, wherever it is, is about a request that is over.
FrameInv ==
    \A m \in Frames :
        Carries(toCenter, m) =>
            /\ m.type \in Answers => m.val \in Confirmed \cup {"dirty"}
            /\ m.val \in Confirmed => Over(m.req)

EvidenceInv ==
    /\ \A r \in Requests :
          fut[r] \in Confirmed \/ terminal[r] \in Confirmed \/ retVal[r] \in Confirmed => Over(r)
    /\ \A p \in Probes :
          pres[p] \in Confirmed \/ pfut[p] \in Confirmed =>
              ptask[p] \in Requests /\ Over(ptask[p])

\* The event a task waits for is in one place: on its way, with the callback,
\* or acknowledged, and then it was consumed.
BusyWith(w, r) == busy[w] # <<>> /\ Head(busy[w]).req = r
HasEvent(r) == Holds(toCenter, {"event"}, r)
IsBusy(r) == \E w \in Conns : BusyWith(w, r)
HasAck(r) == Holds(toEdge, {"ack"}, r)

EventInv ==
    \A r \in Requests :
        /\ est[r] \in {"none", "created", "running"} => ~HasEvent(r) /\ ~IsBusy(r) /\ ~HasAck(r)
        /\ ~(HasEvent(r) /\ IsBusy(r)) /\ ~(HasEvent(r) /\ HasAck(r)) /\ ~(IsBusy(r) /\ HasAck(r))
        /\ Once(toCenter, {"event"}, r) /\ Once(toEdge, {"ack"}, r)
        /\ \A v, w \in Conns : BusyWith(v, r) /\ BusyWith(w, r) => v = w
        /\ est[r] = "ackwait" /\ HasAck(r) => persisted[r]

GatewayInv ==
    /\ TypeOK /\ CallInv /\ ProbeInv /\ EdgeInv /\ StartInv /\ FrameInv /\ EvidenceInv
    /\ EventInv /\ EvidenceBeforeCleanup

-----------------------------------------------------------------------------
(* Channels: what reading, sending and losing frames does to them *)

Channels == [Conns -> Seq(Frames)]

\* A frame that is carried is a frame; the next one to be read is carried.
LEMMA CarriedHead ==
    ASSUME NEW c \in Channels, NEW w \in Conns, c[w] # <<>>
    PROVE  Head(c[w]) \in Frames /\ Carries(c, Head(c[w]))
<1>1. c[w] \in Seq(Frames) /\ Len(c[w]) \in Nat \ {0} /\ Head(c[w]) = c[w][1]
  BY HeadTailProperties, EmptySeq DEF Channels
<1>2. Head(c[w]) \in Frames /\ 1 \in 1..Len(c[w])
  BY <1>1
<1> QED
  BY <1>1, <1>2 DEF Carries

\* Every frame of d was in c.
Fewer(d, c) ==
    /\ d \in Channels
    /\ \A m : Carries(d, m) => Carries(c, m)
    /\ \A T, r : Holds(d, T, r) => Holds(c, T, r)
    /\ \A T, r : Once(c, T, r) => Once(d, T, r)

\* d has at most the frame n more.
OneMore(d, c, n) ==
    /\ d \in Channels /\ n \in Frames
    /\ \A m : Carries(d, m) => Carries(c, m) \/ m = n
    /\ \A T, r : Holds(d, T, r) => Holds(c, T, r) \/ Matches(n, T, r)
    /\ \A T, r : Once(c, T, r) /\ (~Matches(n, T, r) \/ ~Holds(c, T, r)) => Once(d, T, r)

LEMMA ReadFrame ==
    ASSUME NEW c \in Channels, NEW w \in Conns, c[w] # <<>>, NEW d, d = [c EXCEPT ![w] = Tail(@)]
    PROVE  /\ Fewer(d, c)
           /\ \A T, r : Once(c, T, r) /\ Matches(Head(c[w]), T, r) => ~Holds(d, T, r)
<1>1. /\ c[w] \in Seq(Frames) /\ Len(c[w]) \in Nat \ {0} /\ Head(c[w]) = c[w][1]
      /\ Tail(c[w]) \in Seq(Frames) /\ Len(Tail(c[w])) = Len(c[w]) - 1
      /\ \A i \in 1..Len(Tail(c[w])) : Tail(c[w])[i] = c[w][i + 1]
  BY HeadTailProperties, EmptySeq DEF Channels
<1>2. d \in Channels /\ d[w] = Tail(c[w]) /\ \A v \in Conns \ {w} : d[v] = c[v]
  BY <1>1 DEF Channels
<1> DEFINE k(v, i) == IF v = w THEN i + 1 ELSE i
<1>3. ASSUME NEW v \in Conns, NEW i \in 1..Len(d[v])
      PROVE  k(v, i) \in 1..Len(c[v]) /\ d[v][i] = c[v][k(v, i)] /\ ~(v = w /\ k(v, i) = 1)
  <2>1. CASE v = w
    <3>1. i \in 1..Len(Tail(c[w])) /\ k(v, i) = i + 1
      BY <1>2, <2>1
    <3>2. i + 1 \in 1..Len(c[w]) /\ i + 1 # 1 /\ Tail(c[w])[i] = c[w][i + 1]
      BY <1>1, <3>1
    <3> QED
      BY <1>2, <2>1, <3>1, <3>2
  <2>2. CASE v # w
    <3>1. k(v, i) = i /\ d[v] = c[v]
      BY <1>2, <2>2
    <3> QED
      BY <2>2, <3>1
  <2> QED
    BY <2>1, <2>2
<1>4. ASSUME NEW v \in Conns, NEW i \in 1..Len(d[v]), NEW j \in 1..Len(d[v]), k(v, i) = k(v, j)
      PROVE  i = j
  BY <1>4, <1>2, <1>1
<1> HIDE DEF k
<1>5. \A m : Carries(d, m) => Carries(c, m)
  BY <1>3 DEF Carries
<1>6. ASSUME NEW T, NEW r, Once(c, T, r)
      PROVE  Once(d, T, r)
  <2>0. SUFFICES \A u, v \in Conns : \A i \in 1..Len(d[u]) : \A j \in 1..Len(d[v]) :
                   Matches(d[u][i], T, r) /\ Matches(d[v][j], T, r) => u = v /\ i = j
    BY DEF Once
  <2> TAKE u, v \in Conns
  <2> TAKE i \in 1..Len(d[u])
  <2> TAKE j \in 1..Len(d[v])
  <2> HAVE Matches(d[u][i], T, r) /\ Matches(d[v][j], T, r)
  <2>1. /\ k(u, i) \in 1..Len(c[u]) /\ Matches(c[u][k(u, i)], T, r)
        /\ k(v, j) \in 1..Len(c[v]) /\ Matches(c[v][k(v, j)], T, r)
    BY <1>3
  <2>2. u = v /\ k(u, i) = k(v, j)
    BY <1>6, <2>1 DEF Once
  <2> QED
    BY <1>4, <2>2
<1>7. ASSUME NEW T, NEW r, Once(c, T, r), Matches(Head(c[w]), T, r), Holds(d, T, r)
      PROVE  FALSE
  <2>1. PICK v \in Conns : \E i \in 1..Len(d[v]) : Matches(d[v][i], T, r)
    BY <1>7 DEF Holds, Carries
  <2>2. PICK i \in 1..Len(d[v]) : Matches(d[v][i], T, r)
    BY <2>1
  <2>3. Matches(c[v][k(v, i)], T, r) /\ Matches(c[w][1], T, r) /\ 1 \in 1..Len(c[w])
    BY <1>1, <1>3, <1>7, <2>2
  <2>4. v = w /\ k(v, i) = 1
    BY <1>3, <1>7, <2>3 DEF Once
  <2> QED
    BY <1>3, <2>4
<1>8. \A T, r : Holds(d, T, r) => Holds(c, T, r)
  BY <1>5 DEF Holds
<1>9. Fewer(d, c)
  BY <1>2, <1>5, <1>6, <1>8 DEF Fewer
<1> QED
  BY <1>7, <1>9

LEMMA SendFrame ==
    ASSUME NEW c \in Channels, NEW w, NEW n \in Frames, NEW d, d = [c EXCEPT ![w] = Append(@, n)]
    PROVE  /\ d \in Channels
           /\ \A m : Carries(d, m) => Carries(c, m) \/ m = n
           /\ \A T, r : Once(c, T, r) /\ ~Matches(n, T, r) => Once(d, T, r)
           /\ \A T, r : ~Holds(c, T, r) => Once(d, T, r)
<1>0. CASE w \notin Conns
  <2>1. d = c
    BY <1>0 DEF Channels
  <2>2. ASSUME NEW T, NEW r, ~Holds(c, T, r)
        PROVE  Once(d, T, r)
    <3>1. \A v \in Conns : \A i \in 1..Len(c[v]) : c[v][i] \in Frames /\ Carries(c, c[v][i])
      BY DEF Channels, Carries
    <3> QED
      BY <2>1, <2>2, <3>1 DEF Holds, Once
  <2> QED
    BY <2>1, <2>2
<1>1. CASE w \in Conns
  <2>1. /\ c[w] \in Seq(Frames) /\ Len(c[w]) \in Nat
        /\ Append(c[w], n) \in Seq(Frames) /\ Len(Append(c[w], n)) = Len(c[w]) + 1
        /\ \A i \in 1..Len(c[w]) : Append(c[w], n)[i] = c[w][i]
        /\ Append(c[w], n)[Len(c[w]) + 1] = n
    BY <1>1, AppendProperties DEF Channels
  <2>2. d \in Channels /\ d[w] = Append(c[w], n) /\ \A v \in Conns \ {w} : d[v] = c[v]
    BY <1>1, <2>1 DEF Channels
  <2>3. ASSUME NEW v \in Conns, NEW i \in 1..Len(d[v])
        PROVE  \/ i \in 1..Len(c[v]) /\ d[v][i] = c[v][i]
               \/ v = w /\ i = Len(c[w]) + 1 /\ d[v][i] = n
    BY <2>1, <2>2
  <2>4. \A v \in Conns : \A i \in 1..Len(c[v]) : c[v][i] \in Frames /\ Carries(c, c[v][i])
    BY DEF Channels, Carries
  <2>5. \A m : Carries(d, m) => Carries(c, m) \/ m = n
    BY <2>3 DEF Carries
  <2>6. ASSUME NEW T, NEW r, Once(c, T, r), ~Matches(n, T, r)
        PROVE  Once(d, T, r)
    BY <2>3, <2>6 DEF Once
  <2>7. ASSUME NEW T, NEW r, ~Holds(c, T, r)
        PROVE  Once(d, T, r)
    <3>1. \A v \in Conns : \A i \in 1..Len(c[v]) : ~Matches(c[v][i], T, r)
      BY <2>4, <2>7 DEF Holds
    <3> QED
      BY <2>3, <3>1 DEF Once
  <2> QED
    BY <2>2, <2>5, <2>6, <2>7
<1> QED
  BY <1>0, <1>1

LEMMA LoseFrames ==
    ASSUME NEW c \in Channels, NEW d, d = [w \in Conns |-> d[w]],
           \A w \in Conns : d[w] = c[w] \/ d[w] = <<>>
    PROVE  /\ d \in Channels
           /\ \A m : Carries(d, m) => Carries(c, m)
           /\ \A T, r : Once(c, T, r) => Once(d, T, r)
<1>1. \A w \in Conns : d[w] \in Seq(Frames)
  BY EmptySeq DEF Channels
<1>0. d \in Channels
  BY <1>1 DEF Channels
<1>2. ASSUME NEW w \in Conns, NEW i \in 1..Len(d[w])
      PROVE  d[w] = c[w]
  BY <1>2, EmptySeq
<1> QED
  BY <1>0, <1>2 DEF Carries, Once

-----------------------------------------------------------------------------
(* The two processes *)

LEMMA CenterKeepsEdge == CenterNext => UNCHANGED edgeVars
  BY DEF CenterNext, Register, Disconnect, WireBreak, ReceiveCollectResult, ReceiveAgentResult,
     ReceiveEvent, EventPersisted, EventFails, ReceiveStatus, Dispatch, DispatchStrict, Observed,
     ObserverFails, Awaited, Interrupted, CancelConfirmed, CancelAwaited, PruneRetained,
     ProbeTask, ProbeReturns, CenterRestart

LEMMA EdgeKeepsCenter ==
    EdgeNext => UNCHANGED <<callVars, conn, busy, keepVars, probeVars>>
  BY DEF EdgeNext, EdgeConnect, EdgeLose, EdgeSweep, EdgeReceiveTask, EdgeReceiveCollect,
     EdgeReceiveCancel, EdgeReceiveAck, EdgeReceiveStatus, EdgeRestart, EdgeBegin, EdgeEmit,
     EdgeIterationEnds, EdgeClose, EdgeSend, EdgeFlushed, EdgeExpire, NativeExit, linkVars

\* The parts of vars, and the conditions on frames.
LEMMA Parts ==
    /\ UNCHANGED wireVars => UNCHANGED <<opened, wire, toEdge, toCenter, breaks>>
    /\ UNCHANGED callVars => UNCHANGED <<kind, pc, why, owner, cb, fut, terminal, outcome>>
    /\ UNCHANGED linkVars => UNCHANGED <<conn, loop, busy>>
    /\ UNCHANGED keepVars => UNCHANGED <<retOwner, retVal>>
    /\ UNCHANGED probeVars => UNCHANGED <<ppc, ptask, powner, pfut, pres>>
    /\ UNCHANGED edgeVars => UNCHANGED <<ephase, econn, est, ews, native, eres, cache, past>>
  BY DEF wireVars, callVars, linkVars, keepVars, probeVars, edgeVars

-----------------------------------------------------------------------------
(* Types *)

LEMMA FrameTypes ==
    ASSUME NEW r \in Requests
    PROVE  /\ \A t \in {"task", "collect", "cancel", "ack", "event"} :
                 Frame(t, r, "none", NoProbe) \in Frames
           /\ \A p \in Probes : Frame("status", r, "none", p) \in Frames
           /\ \A t \in Answers, v \in Results : Frame(t, r, v, NoProbe) \in Frames
           /\ \A p \in Probes \cup {NoProbe}, v \in Confirmed \cup {"dirty", "running", "unknown"} :
                 Frame("status_result", r, v, p) \in Frames
  BY DEF Frame, Frames, Answers, Results

\* The frame a receive loop reads.
LEMMA FrameRead ==
    ASSUME TypeOK, NEW w \in Conns, NEW t, Receiving(w, t)
    PROVE  /\ Head(toCenter[w]) \in Frames /\ Carries(toCenter, Head(toCenter[w]))
           /\ Head(toCenter[w]).type = t /\ Head(toCenter[w]).req \in Requests
           /\ toCenter' \in Channels
<1>1. toCenter \in Channels /\ toCenter[w] # <<>> /\ toCenter' = [toCenter EXCEPT ![w] = Tail(@)]
  BY DEF TypeOK, WireType, Channels, Receiving
<1>2. Head(toCenter[w]) \in Frames /\ Carries(toCenter, Head(toCenter[w]))
  BY <1>1, CarriedHead
<1>3. Fewer(toCenter', toCenter)
  BY <1>1, ReadFrame
<1>4. toCenter' \in Channels
  BY <1>3 DEF Fewer
<1> QED
  BY <1>2, <1>4 DEF Receiving, Frames

LEMMA EdgeFrameRead ==
    ASSUME TypeOK, EdgeInv, NEW t, EdgeReceiving(t)
    PROVE  /\ econn \in Conns
           /\ Head(toEdge[econn]) \in Frames /\ Carries(toEdge, Head(toEdge[econn]))
           /\ Head(toEdge[econn]).type = t /\ Head(toEdge[econn]).req \in Requests
           /\ toEdge' \in Channels
<1>1. /\ econn \in Conns /\ toEdge \in Channels /\ toEdge[econn] # <<>>
      /\ toEdge' = [toEdge EXCEPT ![econn] = Tail(@)]
  BY DEF TypeOK, WireType, Channels, EdgeReceiving, EdgeInv
<1>2. Head(toEdge[econn]) \in Frames /\ Carries(toEdge, Head(toEdge[econn]))
  BY <1>1, CarriedHead
<1>3. Fewer(toEdge', toEdge)
  BY <1>1, ReadFrame
<1>4. toEdge' \in Channels
  BY <1>3 DEF Fewer
<1> QED
  BY <1>1, <1>2, <1>4 DEF EdgeReceiving, Frames

LEMMA CenterSends ==
    ASSUME TypeOK, NEW w, NEW m \in Frames, SendToEdge(w, m)
    PROVE  toEdge' \in Channels
<1>1. toEdge \in Channels /\ (toEdge' = toEdge \/ toEdge' = [toEdge EXCEPT ![w] = Append(@, m)])
  BY DEF TypeOK, WireType, SendToEdge, Channels
<1> QED
  BY <1>1, SendFrame

LEMMA EdgeSends ==
    ASSUME TypeOK, NEW w, NEW m \in Frames, SendToCenter(w, m)
    PROVE  toCenter' \in Channels
<1>1. toCenter \in Channels /\ (toCenter' = toCenter \/ toCenter' = [toCenter EXCEPT ![w] = Append(@, m)])
  BY DEF TypeOK, WireType, SendToCenter, Channels
<1> QED
  BY <1>1, SendFrame

LEMMA CallTypeStep ==
    ASSUME TypeOK, FrameInv, CenterNext
    PROVE  CallType'
<1> USE DEF TypeOK, CallType, Outcomes, FutureValues, TerminalValues, Confirmed, CallPoints,
            Reasons, Kinds
<1>1. ASSUME NEW w \in Conns, Register(w) \/ Disconnect(w)
      PROVE  CallType'
  <2>1. FailPending \/ NothingPending
    BY <1>1 DEF Register, Disconnect
  <2>2. /\ fut' \in [Requests -> FutureValues] /\ terminal' \in [Requests -> TerminalValues]
        /\ cb' \in [Requests -> BOOLEAN]
    <3>1. CASE FailPending
      <4>1. \A r \in Requests : fut'[r] \in {fut[r], "raised", "disconnected"}
        BY <3>1 DEF FailPending
      <4>2. \A r \in Requests : terminal'[r] \in {terminal[r], "unresolved"}
        BY <3>1 DEF FailPending
      <4>3. /\ fut' = [r \in Requests |-> fut'[r]]
            /\ terminal' = [r \in Requests |-> terminal'[r]]
        BY <3>1 DEF FailPending
      <4>4. cb' \in [Requests -> BOOLEAN]
        BY <3>1 DEF FailPending
      <4> QED
        BY <4>1, <4>2, <4>3, <4>4
    <3>2. CASE NothingPending
      BY <3>2 DEF NothingPending
    <3> QED
      BY <2>1, <3>1, <3>2
  <2>3. UNCHANGED <<kind, pc, why, owner, outcome>>
    BY <1>1 DEF Register, Disconnect
  <2> QED
    BY <2>2, <2>3
<1>2. ASSUME NEW w \in Conns,
             \/ WireBreak(w) \/ ReceiveEvent(w) \/ EventPersisted(w) \/ ReceiveStatus(w)
      PROVE  UNCHANGED callVars
  BY <1>2 DEF WireBreak, ReceiveEvent, EventPersisted, ReceiveStatus
<1>3. ASSUME NEW w \in Conns, ReceiveCollectResult(w) \/ ReceiveAgentResult(w)
      PROVE  CallType'
  <2>1. PICK t \in Answers : Receiving(w, t)
    BY <1>3 DEF ReceiveCollectResult, ReceiveAgentResult, Answers
  <2>2. /\ Head(toCenter[w]).req \in Requests
        /\ Head(toCenter[w]).val \in Confirmed \cup {"dirty"}
    BY <2>1, FrameRead DEF FrameInv
  <2>3. /\ fut' = fut \/ fut' = [fut EXCEPT ![Head(toCenter[w]).req] = Head(toCenter[w]).val]
        /\ \/ terminal' = terminal
           \/ /\ Head(toCenter[w]).val \in Confirmed
              /\ terminal' = [terminal EXCEPT ![Head(toCenter[w]).req] = Head(toCenter[w]).val]
        /\ UNCHANGED <<kind, pc, why, owner, cb, outcome>>
    BY <1>3 DEF ReceiveCollectResult, ReceiveAgentResult
  <2> QED
    BY <2>2, <2>3
<1>4. ASSUME NEW w \in Conns, EventFails(w)
      PROVE  CallType'
  BY <1>4 DEF EventFails
<1>5. ASSUME NEW r \in Requests, NEW k \in {"collect", "loose"}, Dispatch(r, k)
      PROVE  CallType'
  BY <1>5 DEF Dispatch, LinkType
<1>6. ASSUME NEW r \in Requests, DispatchStrict(r)
      PROVE  CallType'
  BY <1>6 DEF DispatchStrict, LinkType
<1>7. ASSUME NEW r \in Requests, Observed(r)
      PROVE  CallType'
  BY <1>7 DEF Observed
<1>8. ASSUME NEW r \in Requests, NEW how \in Outcomes, Return(r, how)
      PROVE  CallType'
  BY <1>8 DEF Return
<1>9. ASSUME NEW r \in Requests, NEW reason \in Reasons, Cancelling(r, reason)
      PROVE  CallType'
  BY <1>9 DEF Cancelling
<1>10. ASSUME NEW r \in Requests, ObserverFails(r)
       PROVE  CallType'
  BY <1>8, <1>10 DEF ObserverFails
<1>11. ASSUME NEW r \in Requests, Awaited(r)
       PROVE  CallType'
  BY <1>8, <1>9, <1>11 DEF Awaited
<1>12. ASSUME NEW r \in Requests, NEW reason \in {"timeout", "aborted", "failed"},
              Interrupted(r, reason)
       PROVE  CallType'
  BY <1>8, <1>9, <1>12 DEF Interrupted
<1>13. ASSUME NEW r \in Requests, CancelConfirmed(r) \/ CancelAwaited(r)
       PROVE  CallType'
  <2>1. Resolved(r) \in Outcomes \cup {"pending", "unconfirmed"}
    BY DEF Resolved
  <2>2. \/ terminal[r] # "pending" /\ Return(r, Resolved(r))
        \/ Return(r, "unresolved")
        \/ pc' = [pc EXCEPT ![r] = "cancelwait"]
           /\ UNCHANGED <<kind, why, owner, cb, fut, terminal, outcome>>
    BY <1>13 DEF CancelConfirmed, CancelAwaited
  <2>3. terminal[r] # "pending" => Resolved(r) \in Outcomes
    BY DEF Resolved
  <2> QED
    BY <1>8, <2>2, <2>3
<1>14. ASSUME NEW r \in Requests, PruneRetained(r)
       PROVE  UNCHANGED callVars
  BY <1>14 DEF PruneRetained
<1>15. ASSUME NEW p \in Probes, ProbeReturns(p) \/ \E r \in Requests : ProbeTask(p, r)
       PROVE  UNCHANGED callVars
  BY <1>15 DEF ProbeReturns, ProbeTask
<1>16. CASE CenterRestart
  BY <1>16 DEF CenterRestart
<1>17. UNCHANGED callVars => CallType'
  BY Parts
<1> QED
  BY <1>1, <1>2, <1>3, <1>4, <1>5, <1>6, <1>7, <1>10, <1>11, <1>12, <1>13, <1>14, <1>15, <1>16,
     <1>17 DEF CenterNext

LEMMA CenterTypeStep ==
    ASSUME TypeOK, FrameInv, CenterNext
    PROVE  WireType' /\ LinkType' /\ KeepType' /\ ProbeType'
<1> DEFINE Typed == WireType' /\ LinkType' /\ KeepType' /\ ProbeType'
<1> USE DEF TypeOK, Conns
<1>0. /\ UNCHANGED keepVars => KeepType'
      /\ UNCHANGED probeVars => ProbeType'
      /\ UNCHANGED <<linkVars, persisted>> => LinkType'
      /\ UNCHANGED <<wireVars, restarts>> => WireType'
      /\ UNCHANGED <<opened, breaks, restarts, wire, toCenter>> /\ toEdge' \in Channels => WireType'
      /\ UNCHANGED <<opened, breaks, restarts, wire, toEdge>> /\ toCenter' \in Channels => WireType'
  BY Parts DEF WireType, LinkType, KeepType, ProbeType, Channels
<1>1. ASSUME NEW w \in Conns, Register(w) \/ Disconnect(w)
      PROVE  Typed
  <2>1. FailPending \/ NothingPending
    BY <1>1 DEF Register, Disconnect
  <2>2. UNCHANGED <<keepVars, persisted, busy, restarts, ppc, ptask, powner, pres>>
    BY <1>1 DEF Register, Disconnect
  <2>3. pfut' \in [Probes -> Statuses \cup {"pending"}]
    <3>1. CASE FailPending
      <4>1. \A p \in Probes : pfut'[p] \in {pfut[p], "unresolved"}
        BY <3>1 DEF FailPending
      <4>2. pfut' = [p \in Probes |-> pfut'[p]]
        BY <3>1 DEF FailPending
      <4> QED
        BY <4>1, <4>2 DEF ProbeType, Statuses
    <3>2. CASE NothingPending
      BY <3>2 DEF NothingPending, ProbeType
    <3> QED
      BY <2>1, <3>1, <3>2
  <2>4. LinkType'
    <3>1. /\ conn' = conn \/ conn' = w \/ conn' = 0
          /\ loop' = [loop EXCEPT ![w] = "open"] \/ loop' = [loop EXCEPT ![w] = "closed"]
      BY <1>1 DEF Register, Disconnect
    <3>2. conn' \in 0..MaxConn
      BY <3>1 DEF LinkType
    <3>3. loop' \in [Conns -> {"new", "open", "closed"}]
      BY <3>1 DEF LinkType
    <3> QED
      BY <2>2, <3>2, <3>3 DEF LinkType
  <2>5. WireType'
    <3>1. CASE Register(w)
      BY <1>0, <3>1 DEF Register
    <3>2. CASE Disconnect(w)
      <4>1. toCenter \in Channels /\ toCenter' = [toCenter EXCEPT ![w] = <<>>]
        BY <3>2 DEF Disconnect, WireType, Channels
      <4>2. toCenter' \in Channels
        BY <4>1, EmptySeq DEF Channels
      <4> QED
        BY <1>0, <3>2, <4>2 DEF Disconnect
    <3> QED
      BY <1>1, <3>1, <3>2
  <2> QED
    BY <1>0, <2>2, <2>3, <2>4, <2>5 DEF ProbeType
<1>2. ASSUME NEW w \in Conns, WireBreak(w)
      PROVE  Typed
  <2>1. toEdge \in Channels /\ toEdge' = [toEdge EXCEPT ![w] = <<>>]
    BY <1>2 DEF WireBreak, WireType, Channels
  <2>2. toEdge' \in Channels
    BY <2>1, EmptySeq DEF Channels
  <2>3. WireType'
    BY <1>2, <2>2 DEF WireBreak, WireType, Channels
  <2> QED
    BY <1>0, <1>2, <2>3 DEF WireBreak
<1>3. ASSUME NEW w \in Conns, ReceiveCollectResult(w) \/ ReceiveAgentResult(w) \/ ReceiveEvent(w)
                              \/ ReceiveStatus(w)
      PROVE  Typed
  <2>1. PICK t : Receiving(w, t)
    BY <1>3 DEF ReceiveCollectResult, ReceiveAgentResult, ReceiveEvent, ReceiveStatus
  <2> DEFINE m == Head(toCenter[w])
  <2>2. m \in Frames /\ m.req \in Requests /\ toCenter' \in Channels
    BY <2>1, FrameRead
  <2> HIDE DEF m
  <2>3. WireType'
    BY <1>0, <1>3, <2>2 DEF ReceiveCollectResult, ReceiveAgentResult, ReceiveEvent, ReceiveStatus
  <2>4. LinkType'
    <3>1. \/ UNCHANGED <<linkVars, persisted>>
          \/ /\ UNCHANGED <<conn, loop, persisted>>
             /\ \/ busy' = busy
                \/ busy' = [busy EXCEPT ![w] = <<m>>]
      BY <1>3 DEF ReceiveCollectResult, ReceiveAgentResult, ReceiveEvent, ReceiveStatus, m
    <3>2. <<m>> \in Seq(Frames)
      BY <2>2
    <3> QED
      BY <1>0, <3>1, <3>2 DEF LinkType
  <2>5. KeepType'
    <3>1. \/ UNCHANGED keepVars
          \/ /\ \/ retVal' = retVal
                \/ m.val \in Confirmed /\ retVal' = [retVal EXCEPT ![m.req] = m.val]
             /\ retOwner' = retOwner \/ retOwner' = [retOwner EXCEPT ![m.req] = 0]
      BY <1>3 DEF ReceiveCollectResult, ReceiveAgentResult, ReceiveEvent, ReceiveStatus, m
    <3> QED
      BY <1>0, <2>2, <3>1 DEF KeepType
  <2>6. ProbeType'
    <3>1. \/ UNCHANGED probeVars
          \/ /\ UNCHANGED <<ppc, ptask, powner, pres>>
             /\ \/ pfut' = pfut
                \/ pfut' = [pfut EXCEPT ![m.probe] = IF m.val = "dirty" THEN "unknown" ELSE m.val]
      BY <1>3 DEF ReceiveCollectResult, ReceiveAgentResult, ReceiveEvent, ReceiveStatus, m
    <3>2. (IF m.val = "dirty" THEN "unknown" ELSE m.val) \in Statuses
      BY <2>2 DEF Frames, Statuses, Confirmed
    <3> QED
      BY <1>0, <3>1, <3>2 DEF ProbeType
  <2> QED
    BY <2>3, <2>4, <2>5, <2>6
<1>4. ASSUME NEW w \in Conns, EventPersisted(w) \/ EventFails(w)
      PROVE  Typed
  <2>1. busy[w] \in Seq(Frames) /\ busy[w] # <<>>
    BY <1>4 DEF EventPersisted, EventFails, LinkType
  <2>2. Head(busy[w]) \in Frames
    BY <2>1, HeadTailProperties
  <2>5. Head(busy[w]).req \in Requests
    BY <2>2 DEF Frames
  <2>3. LinkType'
    <3>1. /\ UNCHANGED <<conn, loop>> /\ busy' = [busy EXCEPT ![w] = <<>>]
          /\ UNCHANGED persisted \/ persisted' = [persisted EXCEPT ![Head(busy[w]).req] = TRUE]
      BY <1>4 DEF EventPersisted, EventFails
    <3>2. persisted' \in [Requests -> BOOLEAN]
      BY <2>5, <3>1 DEF LinkType
    <3>3. busy' \in [Conns -> Seq(Frames)]
      BY <3>1, EmptySeq DEF LinkType
    <3> QED
      BY <3>1, <3>2, <3>3 DEF LinkType
  <2>4. WireType'
    <3>1. \/ UNCHANGED wireVars
          \/ /\ SendToEdge(w, Frame("ack", Head(busy[w]).req, "none", NoProbe))
             /\ UNCHANGED <<breaks, opened, wire, toCenter>>
      BY <1>4 DEF EventPersisted, EventFails
    <3>2. UNCHANGED restarts
      BY <1>4 DEF EventPersisted, EventFails
    <3> QED
      BY <1>0, <2>5, <3>1, <3>2, FrameTypes, CenterSends
  <2> QED
    BY <1>0, <1>4, <2>3, <2>4 DEF EventPersisted, EventFails
<1>5. ASSUME NEW r \in Requests, NEW k \in {"collect", "loose"}, Dispatch(r, k)
      PROVE  Typed
  BY <1>0, <1>5, FrameTypes, CenterSends DEF Dispatch
<1>6. ASSUME NEW r \in Requests, DispatchStrict(r) \/ ObserverFails(r)
      PROVE  Typed
  BY <1>0, <1>6 DEF DispatchStrict, ObserverFails
<1>7. ASSUME NEW r \in Requests, Observed(r)
      PROVE  Typed
  <2>1. KeepType'
    BY <1>7 DEF Observed, KeepType, CallType
  <2> QED
    BY <1>0, <1>7, <2>1, FrameTypes, CenterSends DEF Observed
<1>8. ASSUME NEW r \in Requests,
             \/ Awaited(r) \/ CancelConfirmed(r) \/ CancelAwaited(r)
             \/ \E reason \in {"timeout", "aborted", "failed"} : Interrupted(r, reason)
      PROVE  Typed
  <2>1. /\ UNCHANGED toEdge \/ SendToEdge(owner[r], Frame("cancel", r, "none", NoProbe))
        /\ UNCHANGED <<breaks, opened, wire, toCenter, linkVars, keepVars, probeVars, persisted,
                       restarts>>
    BY <1>8, Parts DEF Awaited, CancelConfirmed, CancelAwaited, Interrupted
  <2>2. toEdge' \in Channels
    BY <2>1, FrameTypes, CenterSends DEF WireType, Channels
  <2> QED
    BY <1>0, <2>1, <2>2
<1>9. ASSUME NEW r \in Requests, PruneRetained(r)
      PROVE  Typed
  <2>1. KeepType'
    BY <1>9 DEF PruneRetained, KeepType
  <2> QED
    BY <1>0, <1>9, <2>1 DEF PruneRetained
<1>10. ASSUME NEW p \in Probes, NEW r \in Requests, ProbeTask(p, r)
       PROVE  Typed
  <2>1. ProbeType'
    BY <1>10 DEF ProbeTask, ProbeType, Statuses, LinkType
  <2>2. UNCHANGED toEdge \/ SendToEdge(conn, Frame("status", r, "none", p))
    BY <1>10 DEF ProbeTask
  <2>3. toEdge' \in Channels
    BY <2>2, FrameTypes, CenterSends DEF WireType, Channels
  <2> QED
    BY <1>0, <1>10, <2>1, <2>3 DEF ProbeTask
<1>11. ASSUME NEW p \in Probes, ProbeReturns(p)
       PROVE  Typed
  <2>1. ProbeType'
    BY <1>11 DEF ProbeReturns, ProbeType, Statuses
  <2> QED
    BY <1>0, <1>11, <2>1 DEF ProbeReturns
<1>12. CASE CenterRestart
  <2>1. WireType'
    BY <1>12, EmptySeq DEF CenterRestart, WireType
  <2>2. LinkType' /\ KeepType'
    BY <1>12, EmptySeq DEF CenterRestart, LinkType, KeepType
  <2>3. ProbeType'
    BY <1>12 DEF CenterRestart, ProbeType, Statuses
  <2> QED
    BY <2>1, <2>2, <2>3
<1> QED
  BY <1>1, <1>2, <1>3, <1>4, <1>5, <1>6, <1>7, <1>8, <1>9, <1>10, <1>11, <1>12 DEF CenterNext

\* What cancelling a task does to it.
LEMMA Cancelled ==
    ASSUME TypeOK, NEW r \in Requests
    PROVE  /\ AfterCancel(r) \in TaskPoints /\ ResultsAfterCancel(r) \subseteq Results
           /\ est[r] = "none" <=> AfterCancel(r) = "none"
           /\ AfterCancel(r) \notin {"created", "running", "ackwait"}
           /\ AfterCancel(r) \in Answering => est[r] \in Answering
           /\ AfterCancel(r) = "closing" => est[r] \in {"running", "ackwait", "closing"}
           /\ est[r] \in {"running", "ackwait"} => "none" \notin ResultsAfterCancel(r)
           /\ est[r] \notin {"running", "ackwait"} => ResultsAfterCancel(r) = {eres[r]}
  BY DEF AfterCancel, ResultsAfterCancel, TypeOK, EdgeType, TaskPoints, Results, Confirmed, Answering

LEMMA EdgeTypeStep ==
    ASSUME TypeOK, EdgeInv, EdgeNext
    PROVE  WireType' /\ LinkType' /\ EdgeType'
<1> DEFINE Typed == WireType' /\ LinkType' /\ EdgeType'
<1> USE DEF TypeOK, Conns
<1>0. /\ UNCHANGED <<linkVars, persisted>> => LinkType'
      /\ UNCHANGED <<wireVars, restarts>> => WireType'
      /\ UNCHANGED <<opened, breaks, restarts, wire, toCenter>> /\ toEdge' \in Channels => WireType'
      /\ UNCHANGED <<opened, breaks, restarts, wire, toEdge>> /\ toCenter' \in Channels => WireType'
  BY Parts DEF WireType, LinkType, Channels
<1>1. CASE EdgeConnect
  <2>1. opened + 1 \in Conns
    BY <1>1 DEF EdgeConnect, WireType
  <2>2. WireType'
    BY <1>1, <2>1 DEF EdgeConnect, WireType
  <2>3. loop' \in [Conns -> {"new", "open", "closed"}]
    BY <1>1, <2>1 DEF EdgeConnect, LinkType
  <2>4. LinkType'
    BY <1>1, <2>3 DEF EdgeConnect, LinkType
  <2>5. EdgeType'
    BY <1>1, <2>1 DEF EdgeConnect, EdgeType
  <2> QED
    BY <2>2, <2>4, <2>5
<1>2. CASE EdgeLose
  <2>1. EdgeType'
    BY <1>2 DEF EdgeLose, EdgeType
  <2> QED
    BY <1>0, <1>2, <2>1 DEF EdgeLose
<1>3. CASE EdgeSweep
  <2>1. \A r \in Requests : AfterCancel(r) \in TaskPoints
    BY Cancelled
  <2>2. est' \in [Requests -> TaskPoints]
    <3>1. \A r \in Requests : est'[r] \in TaskPoints
      BY <1>3, <2>1 DEF EdgeSweep, EdgeType
    <3>2. est' = [r \in Requests |-> est'[r]]
      BY <1>3 DEF EdgeSweep
    <3> QED
      BY <3>1, <3>2
  <2>3. eres' \in [Requests -> Results]
    BY <1>3 DEF EdgeSweep
  <2>4. EdgeType'
    BY <1>3, <2>2, <2>3 DEF EdgeSweep, EdgeType
  <2> QED
    BY <1>0, <1>3, <2>4 DEF EdgeSweep
<1>4. ASSUME NEW t, EdgeReceiving(t), UNCHANGED <<breaks, opened, wire, toCenter, restarts>>
      PROVE  WireType'
  BY <1>0, <1>4, EdgeFrameRead
<1>5. CASE EdgeReceiveTask
  <2>1. Head(toEdge[econn]).req \in Requests
    BY <1>5, EdgeFrameRead DEF EdgeReceiveTask
  <2>2. EdgeType'
    BY <1>5, <2>1 DEF EdgeReceiveTask, EdgeType, TaskPoints, Results
  <2> QED
    BY <1>0, <1>4, <1>5, <2>2 DEF EdgeReceiveTask
<1>6. CASE EdgeReceiveCollect
  <2>1. Head(toEdge[econn]).req \in Requests
    BY <1>6, EdgeFrameRead DEF EdgeReceiveCollect
  <2>2. native' \in [Requests -> BOOLEAN]
    BY <1>6, <2>1 DEF EdgeReceiveCollect, EdgeType
  <2>3. EdgeType'
    BY <1>6, <2>1, <2>2 DEF EdgeReceiveCollect, EdgeType, TaskPoints
  <2> QED
    BY <1>0, <1>4, <1>6, <2>3 DEF EdgeReceiveCollect
<1>7. CASE EdgeReceiveCancel
  <2> DEFINE r == Head(toEdge[econn]).req
  <2>1. r \in Requests
    BY <1>7, EdgeFrameRead DEF EdgeReceiveCancel
  <2> HIDE DEF r
  <2>2. /\ \/ est' = est \/ est' = [est EXCEPT ![r] = "closing"]
           \/ est' = [est EXCEPT ![r] = AfterCancel(r)]
        /\ \/ eres' = eres \/ eres' = [eres EXCEPT ![r] = "error"]
           \/ \E v \in ResultsAfterCancel(r) : eres' = [eres EXCEPT ![r] = v]
    BY <1>7 DEF EdgeReceiveCancel, r
  <2>3. AfterCancel(r) \in TaskPoints /\ ResultsAfterCancel(r) \subseteq Results
    BY <2>1, Cancelled
  <2>4. est' \in [Requests -> TaskPoints] /\ eres' \in [Requests -> Results]
    BY <2>1, <2>2, <2>3 DEF EdgeType, TaskPoints, Results, Confirmed
  <2>5. EdgeType'
    BY <1>7, <2>4 DEF EdgeReceiveCancel, EdgeType
  <2> QED
    BY <1>0, <1>4, <1>7, <2>5 DEF EdgeReceiveCancel
<1>8. CASE EdgeReceiveAck
  <2>1. Head(toEdge[econn]).req \in Requests
    BY <1>8, EdgeFrameRead DEF EdgeReceiveAck
  <2>2. past' \in [Requests -> BOOLEAN]
    BY <1>8, <2>1 DEF EdgeReceiveAck, EdgeType
  <2>3. est' \in [Requests -> TaskPoints]
    BY <1>8, <2>1 DEF EdgeReceiveAck, EdgeType, TaskPoints
  <2>4. EdgeType'
    BY <1>8, <2>2, <2>3 DEF EdgeReceiveAck, EdgeType
  <2> QED
    BY <1>0, <1>4, <1>8, <2>4 DEF EdgeReceiveAck
<1>9. CASE EdgeReceiveStatus
  <2> DEFINE m == Head(toEdge[econn])
  <2>1. m \in Frames /\ toEdge' \in Channels
    BY <1>9, EdgeFrameRead DEF EdgeReceiveStatus
  <2> HIDE DEF m
  <2>2. m.req \in Requests /\ m.probe \in Probes \cup {NoProbe}
    BY <2>1 DEF Frames
  <2>3. StatusOf(m.req) \in Confirmed \cup {"dirty", "running", "unknown"}
    BY DEF StatusOf
  <2>4. toCenter' \in Channels
    <3>1. Frame("status_result", m.req, StatusOf(m.req), m.probe) \in Frames
      BY <2>2, <2>3, FrameTypes
    <3> QED
      BY <1>9, <3>1, EdgeSends DEF EdgeReceiveStatus, m
  <2>5. WireType'
    BY <1>9, <2>1, <2>4 DEF EdgeReceiveStatus, WireType, Channels
  <2>6. EdgeType'
    BY <1>9, Parts DEF EdgeReceiveStatus, EdgeType
  <2> QED
    BY <1>0, <1>9, <2>5, <2>6 DEF EdgeReceiveStatus
<1>10. CASE EdgeRestart
  <2>1. toEdge' \in Channels
    BY <1>10, EmptySeq DEF EdgeRestart, Channels
  <2>4. wire' \in [Conns -> {"open", "broken"}]
    BY <1>10 DEF EdgeRestart, WireType
  <2>5. restarts' \in Nat
    BY <1>10 DEF EdgeRestart, WireType
  <2>2. WireType'
    BY <1>10, <2>1, <2>4, <2>5 DEF EdgeRestart, WireType, Channels
  <2>3. EdgeType'
    BY <1>10 DEF EdgeRestart, EdgeType, TaskPoints, Results
  <2> QED
    BY <1>0, <1>10, <2>2, <2>3 DEF EdgeRestart
<1>11. ASSUME NEW r \in Requests, EdgeEmit(r)
       PROVE  Typed
  <2>1. toCenter' \in Channels
    <3>1. toCenter' = toCenter \/ SendToCenter(ews[r], Frame("event", r, "none", NoProbe))
      BY <1>11 DEF EdgeEmit
    <3> QED
      BY <3>1, FrameTypes, EdgeSends DEF WireType, Channels
  <2>2. past' \in [Requests -> BOOLEAN] /\ persisted' \in [Requests -> BOOLEAN]
    BY <1>11 DEF EdgeEmit, EdgeType, LinkType
  <2>3. est' \in [Requests -> TaskPoints] /\ eres' \in [Requests -> Results]
    BY <1>11 DEF EdgeEmit, EdgeType, TaskPoints, Results, Confirmed
  <2>4. EdgeType'
    BY <1>11, <2>2, <2>3 DEF EdgeEmit, EdgeType
  <2>5. LinkType'
    BY <1>11, <2>2, Parts DEF EdgeEmit, LinkType
  <2> QED
    BY <1>0, <1>11, <2>1, <2>4, <2>5 DEF EdgeEmit
<1>12. ASSUME NEW r \in Requests, EdgeSend(r)
       PROVE  Typed
  <2>1. Frame(IF kind[r] = "collect" THEN "result" ELSE "agent_result", r, eres[r], NoProbe) \in Frames
    BY FrameTypes DEF EdgeType, Answers
  <2>2. toCenter' \in Channels
    BY <1>12, <2>1, EdgeSends DEF EdgeSend
  <2>3. est' \in [Requests -> TaskPoints] /\ cache' \in [Requests -> Results]
    BY <1>12 DEF EdgeSend, EdgeType, TaskPoints
  <2>4. EdgeType'
    BY <1>12, <2>3 DEF EdgeSend, EdgeType
  <2> QED
    BY <1>0, <1>12, <2>2, <2>4 DEF EdgeSend
<1>13. ASSUME NEW r \in Requests,
              \/ EdgeBegin(r) \/ EdgeIterationEnds(r) \/ EdgeClose(r) \/ EdgeFlushed(r)
              \/ EdgeExpire(r) \/ NativeExit(r)
       PROVE  Typed
  <2>1. native' \in [Requests -> BOOLEAN]
    BY <1>13 DEF EdgeBegin, EdgeIterationEnds, EdgeClose, EdgeFlushed, EdgeExpire, NativeExit,
       EdgeType
  <2>2. est' \in [Requests -> TaskPoints]
    BY <1>13 DEF EdgeBegin, EdgeIterationEnds, EdgeClose, EdgeFlushed, EdgeExpire, NativeExit,
       EdgeType, TaskPoints
  <2>3. eres' \in [Requests -> Results] /\ cache' \in [Requests -> Results]
    BY <1>13 DEF EdgeBegin, EdgeIterationEnds, EdgeClose, EdgeFlushed, EdgeExpire, NativeExit,
       EdgeType, Results, Confirmed
  <2>4. UNCHANGED <<ephase, econn, ews, past>> /\ UNCHANGED <<wireVars, restarts>>
        /\ UNCHANGED <<linkVars, persisted>>
    BY <1>13 DEF EdgeBegin, EdgeIterationEnds, EdgeClose, EdgeFlushed, EdgeExpire, NativeExit
  <2>5. EdgeType'
    BY <2>1, <2>2, <2>3, <2>4 DEF EdgeType
  <2> QED
    BY <1>0, <2>4, <2>5
<1> QED
  BY <1>1, <1>2, <1>3, <1>5, <1>6, <1>7, <1>8, <1>9, <1>10, <1>11, <1>12, <1>13 DEF EdgeNext

\* Every step keeps the types.
LEMMA TypeStep ==
    ASSUME TypeOK, EdgeInv, FrameInv, [Next]_vars
    PROVE  TypeOK'
<1>1. CASE CenterNext
  <2>1. EdgeType'
    BY <1>1, CenterKeepsEdge, Parts DEF TypeOK, EdgeType
  <2> QED
    BY <1>1, <2>1, CallTypeStep, CenterTypeStep DEF TypeOK
<1>2. CASE EdgeNext
  <2>1. CallType' /\ KeepType' /\ ProbeType'
    BY <1>2, EdgeKeepsCenter, Parts DEF TypeOK, CallType, KeepType, ProbeType
  <2> QED
    BY <1>2, <2>1, EdgeTypeStep DEF TypeOK
<1>3. CASE UNCHANGED vars
  BY <1>3, Parts DEF vars, TypeOK, WireType, LinkType, CallType, KeepType, ProbeType, EdgeType
<1> QED
  BY <1>1, <1>2, <1>3 DEF Next

-----------------------------------------------------------------------------
(* The edge's tasks *)

\* A frame that starts a request finds it not started.
LEMMA StartsOnce ==
    ASSUME TypeOK, EdgeInv, StartInv, NEW t \in Starting, EdgeReceiving(t)
    PROVE  LET r == Head(toEdge[econn]).req IN r \in Requests /\ est[r] = "none" /\ WasSent(r)
<1> DEFINE m == Head(toEdge[econn])
<1>1. m \in Frames /\ Carries(toEdge, m) /\ m.type = t /\ m.req \in Requests
  BY EdgeFrameRead
<1>2. Matches(m, Starting, m.req)
  BY <1>1 DEF Matches
<1> HIDE DEF m
<1>3. Holds(toEdge, Starting, m.req)
  BY <1>1, <1>2 DEF Holds
<1> QED
  BY <1>1, <1>3 DEF StartInv, m

\* A step of the edge keeps its own invariant, starts a task only on such a
\* frame, and starts nothing of a request that is over.
LEMMA EdgeTaskStep ==
    ASSUME TypeOK, EdgeInv, StartInv, EdgeNext
    PROVE  /\ EdgeInv'
           /\ \A r \in Requests : Over(r) => Over(r)'
           /\ \A r \in Requests : est[r] # "none" => est'[r] # "none"
           /\ \A r \in Requests : est[r] = "none" /\ est'[r] # "none" =>
                 \E t \in Starting : EdgeReceiving(t) /\ Head(toEdge[econn]).req = r
<1> DEFINE Kept == /\ EdgeInv'
                   /\ \A r \in Requests : Over(r) => Over(r)'
                   /\ \A r \in Requests : est[r] # "none" => est'[r] # "none"
           Started == \A r \in Requests : est[r] = "none" /\ est'[r] # "none" =>
                         \E t \in Starting : EdgeReceiving(t) /\ Head(toEdge[econn]).req = r
<1> USE DEF TypeOK, EdgeInv, Over, Conns
<1>1. CASE EdgeConnect
  BY <1>1 DEF EdgeConnect, WireType
<1>2. CASE EdgeLose
  BY <1>2 DEF EdgeLose
<1>3. CASE EdgeSweep
  <2>1. \A r \in Requests :
           /\ est'[r] = IF kind[r] = "collect" THEN est[r] ELSE AfterCancel(r)
           /\ eres'[r] \in IF kind[r] = "collect" THEN {eres[r]} ELSE ResultsAfterCancel(r)
           /\ native'[r] = native[r] /\ cache'[r] = cache[r]
    BY <1>3 DEF EdgeSweep
  <2>2. ASSUME NEW r \in Requests
        PROVE  /\ est'[r] \in {"none", "created"} => ~native'[r]
               /\ est'[r] \in Answering /\ eres'[r] \in Confirmed => ~native'[r]
               /\ est'[r] \in Answering \cup {"closing"} => eres'[r] # "none"
               /\ Over(r) => Over(r)'
               /\ est[r] # "none" <=> est'[r] # "none"
    BY <2>1, <2>2, Cancelled DEF Answering
  <2>3. ephase' = "down" /\ \A r \in Requests : cache'[r] \in Confirmed => Over(r)'
    BY <1>3, <2>2 DEF EdgeSweep
  <2> QED
    BY <2>2, <2>3
<1>4. CASE EdgeReceiveTask
  <2>1. LET r == Head(toEdge[econn]).req IN r \in Requests /\ est[r] = "none"
    BY <1>4, StartsOnce DEF EdgeReceiveTask, Starting
  <2>2. Kept
    BY <1>4, <2>1 DEF EdgeReceiveTask, EdgeType, Answering, Confirmed
  <2>3. Started
    BY <1>4, <2>1 DEF EdgeReceiveTask, EdgeType, Starting
  <2> QED
    BY <2>2, <2>3
<1>5. CASE EdgeReceiveCollect
  <2>1. LET r == Head(toEdge[econn]).req IN r \in Requests /\ est[r] = "none"
    BY <1>5, StartsOnce DEF EdgeReceiveCollect, Starting
  <2>2. Kept
    BY <1>5, <2>1 DEF EdgeReceiveCollect, EdgeType, Answering, Confirmed
  <2>3. Started
    BY <1>5, <2>1 DEF EdgeReceiveCollect, EdgeType, Starting
  <2> QED
    BY <2>2, <2>3
<1>6. CASE EdgeReceiveCancel
  <2> DEFINE q == Head(toEdge[econn]).req
  <2>1. q \in Requests
    BY <1>6, EdgeFrameRead DEF EdgeReceiveCancel
  <2> HIDE DEF q
  <2>2. UNCHANGED <<ephase, econn, native, cache>>
    BY <1>6 DEF EdgeReceiveCancel
  <2>3. \A r \in Requests \ {q} : est'[r] = est[r] /\ eres'[r] = eres[r]
    BY <1>6, <2>1 DEF EdgeReceiveCancel, q, EdgeType
  <2>4. \/ est'[q] = est[q] /\ eres'[q] = eres[q]
        \/ est[q] = "running" /\ est'[q] = "closing" /\ eres'[q] = "error"
        \/ est'[q] = AfterCancel(q) /\ eres'[q] \in ResultsAfterCancel(q)
    BY <1>6, <2>1 DEF EdgeReceiveCancel, q, EdgeType
  <2>5. /\ est'[q] \in {"none", "created"} => ~native[q]
        /\ est'[q] \in Answering /\ eres'[q] \in Confirmed => ~native[q]
        /\ est'[q] \in Answering \cup {"closing"} => eres'[q] # "none"
        /\ est[q] \notin {"none", "created"} => est'[q] \notin {"none", "created"}
        /\ est[q] # "none" <=> est'[q] # "none"
    BY <2>1, <2>4, Cancelled DEF Answering
  <2> QED
    BY <2>1, <2>2, <2>3, <2>5
<1>7. CASE EdgeReceiveAck
  <2>1. Head(toEdge[econn]).req \in Requests
    BY <1>7, EdgeFrameRead DEF EdgeReceiveAck
  <2> QED
    BY <1>7, <2>1 DEF EdgeReceiveAck, EdgeType, Answering
<1>8. CASE EdgeReceiveStatus
  BY <1>8, Parts DEF EdgeReceiveStatus
<1>9. CASE EdgeRestart
  BY <1>9 DEF EdgeRestart, Answering, Confirmed
<1>10. ASSUME NEW r \in Requests, EdgeBegin(r) \/ EdgeEmit(r) \/ EdgeIterationEnds(r)
       PROVE  Kept /\ Started
  BY <1>10 DEF EdgeBegin, EdgeEmit, EdgeIterationEnds, EdgeType, Answering, Confirmed
<1>11. ASSUME NEW r \in Requests, EdgeClose(r) \/ EdgeSend(r) \/ EdgeFlushed(r)
       PROVE  Kept /\ Started
  BY <1>11 DEF EdgeClose, EdgeSend, EdgeFlushed, EdgeType, Answering, Confirmed
<1>12. ASSUME NEW r \in Requests, EdgeExpire(r) \/ NativeExit(r)
       PROVE  Kept /\ Started
  BY <1>12 DEF EdgeExpire, NativeExit, EdgeType, Answering, Confirmed
<1> QED
  BY <1>1, <1>2, <1>3, <1>4, <1>5, <1>6, <1>7, <1>8, <1>9, <1>10, <1>11, <1>12 DEF EdgeNext

-----------------------------------------------------------------------------
(* The centre's dispatches and probes *)

\* A step of the centre keeps what a dispatch and a probe rely on, and a
\* request that was sent stays sent.
LEMMA DispatchStep ==
    ASSUME TypeOK, CallInv, FrameInv, CenterNext
    PROVE  /\ CallInv'
           /\ \A r \in Requests : WasSent(r) => WasSent(r)'
<1> DEFINE Kept == CallInv' /\ \A r \in Requests : WasSent(r) => WasSent(r)'
<1> USE DEF TypeOK, CallType, CallInv, WasSent
<1>1. ASSUME NEW w \in Conns, Register(w) \/ Disconnect(w)
      PROVE  Kept
  <2>1. FailPending \/ NothingPending
    BY <1>1 DEF Register, Disconnect
  <2>2. \A r \in Requests : /\ fut[r] # "none" => fut'[r] # "none"
                            /\ terminal[r] # "none" => terminal'[r] # "none"
    BY <2>1 DEF FailPending, NothingPending
  <2>3. UNCHANGED <<kind, pc, why, owner, outcome>>
    BY <1>1 DEF Register, Disconnect
  <2> QED
    BY <2>2, <2>3
<1>2. ASSUME NEW w \in Conns, ReceiveCollectResult(w) \/ ReceiveAgentResult(w)
      PROVE  Kept
  <2>1. PICK t \in Answers : Receiving(w, t)
    BY <1>2 DEF ReceiveCollectResult, ReceiveAgentResult, Answers
  <2>2. Head(toCenter[w]).val \in Confirmed \cup {"dirty"}
    BY <2>1, FrameRead DEF FrameInv
  <2>3. /\ fut' = fut \/ fut' = [fut EXCEPT ![Head(toCenter[w]).req] = Head(toCenter[w]).val]
        /\ \/ terminal' = terminal
           \/ terminal' = [terminal EXCEPT ![Head(toCenter[w]).req] = Head(toCenter[w]).val]
        /\ UNCHANGED <<kind, pc, why, owner, cb, outcome>>
    BY <1>2 DEF ReceiveCollectResult, ReceiveAgentResult
  <2> QED
    BY <2>2, <2>3 DEF Confirmed
<1>3. ASSUME NEW w \in Conns, EventFails(w)
      PROVE  Kept
  <2>1. /\ fut' = fut \/ fut' = [fut EXCEPT ![Head(busy[w]).req] = "raised"]
        /\ UNCHANGED <<kind, pc, why, owner, cb, terminal, outcome>>
    BY <1>3 DEF EventFails
  <2> QED
    BY <2>1
<1>4. ASSUME NEW r \in Requests, NEW k \in {"collect", "loose"}, Dispatch(r, k)
      PROVE  Kept
  BY <1>4 DEF Dispatch
<1>5. ASSUME NEW r \in Requests, DispatchStrict(r) \/ Observed(r) \/ ObserverFails(r)
      PROVE  Kept
  BY <1>5 DEF DispatchStrict, Observed, ObserverFails, Return
<1>6. ASSUME NEW r \in Requests, pc[r] \in {"waiting", "cancel", "cancelwait"},
             NEW how, how \notin {"none", "notsent"}, Return(r, how)
      PROVE  Kept
  BY <1>6 DEF Return
<1>7. ASSUME NEW r \in Requests, pc[r] = "waiting", kind[r] = "strict",
             NEW reason \in Reasons \ {"none"}, Cancelling(r, reason)
      PROVE  Kept
  BY <1>7 DEF Cancelling
<1>8. ASSUME NEW r \in Requests, Awaited(r)
      PROVE  Kept
  <2>1. fut[r] \notin {"none", "notsent"} /\ pc[r] = "waiting"
    BY <1>8 DEF Awaited, FutureValues, Confirmed
  <2> QED
    BY <1>6, <1>7, <1>8, <2>1 DEF Awaited, Reasons, Confirmed
<1>9. ASSUME NEW r \in Requests, NEW reason \in {"timeout", "aborted", "failed"},
             Interrupted(r, reason)
      PROVE  Kept
  BY <1>6, <1>7, <1>9 DEF Interrupted, Reasons
<1>10. ASSUME NEW r \in Requests, CancelConfirmed(r) \/ CancelAwaited(r)
       PROVE  Kept
  <2>1. pc[r] \in {"cancel", "cancelwait"}
    BY <1>10 DEF CancelConfirmed, CancelAwaited
  <2>2. Resolved(r) \notin {"none", "notsent"}
    BY <2>1 DEF Resolved, TerminalValues, Confirmed, Reasons
  <2>3. \/ \E how : how \notin {"none", "notsent"} /\ Return(r, how)
        \/ /\ pc' = [pc EXCEPT ![r] = "cancelwait"]
           /\ UNCHANGED <<kind, why, owner, cb, fut, terminal, outcome>>
    BY <1>10, <2>2 DEF CancelConfirmed, CancelAwaited
  <2> QED
    BY <1>6, <2>1, <2>3
<1>11. CASE CenterRestart
  BY <1>11 DEF CenterRestart
<1>12. CASE UNCHANGED callVars
  BY <1>12, Parts
<1> QED
  BY <1>1, <1>2, <1>3, <1>4, <1>5, <1>8, <1>9, <1>10, <1>11, <1>12
     DEF CenterNext, WireBreak, ReceiveEvent, EventPersisted, ReceiveStatus, PruneRetained,
         ProbeTask, ProbeReturns

LEMMA ProbeStep ==
    ASSUME TypeOK, ProbeInv, CenterNext
    PROVE  ProbeInv'
<1> USE DEF TypeOK, ProbeType, ProbeInv
<1>1. ASSUME NEW w \in Conns, Register(w) \/ Disconnect(w)
      PROVE  ProbeInv'
  BY <1>1 DEF Register, Disconnect, FailPending, NothingPending
<1>2. ASSUME NEW w \in Conns, ReceiveStatus(w)
      PROVE  ProbeInv'
  BY <1>2 DEF ReceiveStatus
<1>3. ASSUME NEW p \in Probes, NEW r \in Requests, ProbeTask(p, r)
      PROVE  ProbeInv'
  BY <1>3 DEF ProbeTask
<1>4. ASSUME NEW p \in Probes, ProbeReturns(p)
      PROVE  ProbeInv'
  BY <1>4 DEF ProbeReturns
<1>5. CASE CenterRestart
  BY <1>5 DEF CenterRestart
<1>6. CASE UNCHANGED probeVars
  BY <1>6, Parts
<1> QED
  BY <1>1, <1>2, <1>3, <1>4, <1>5, <1>6
     DEF CenterNext, WireBreak, ReceiveCollectResult, ReceiveAgentResult, ReceiveEvent,
         EventPersisted, EventFails, Dispatch, DispatchStrict, Observed, ObserverFails, Awaited,
         Interrupted, CancelConfirmed, CancelAwaited, PruneRetained

-----------------------------------------------------------------------------
(* What a step does to the two directions *)

LEMMA FewerFrames ==
    ASSUME NEW c \in Channels, NEW d
    PROVE  /\ d = c => Fewer(d, c)
           /\ \A w \in Conns : c[w] # <<>> /\ d = [c EXCEPT ![w] = Tail(@)] => Fewer(d, c)
           /\ \A w \in Conns : d = [c EXCEPT ![w] = <<>>] => Fewer(d, c)
           /\ d = [w \in Conns |-> <<>>] => Fewer(d, c)
<1>1. ASSUME d \in Channels, \A m : Carries(d, m) => Carries(c, m),
             \A T, r : Once(c, T, r) => Once(d, T, r)
      PROVE  Fewer(d, c)
  BY <1>1 DEF Fewer, Holds
<1>2. ASSUME NEW w \in Conns, c[w] # <<>>, d = [c EXCEPT ![w] = Tail(@)]
      PROVE  Fewer(d, c)
  BY <1>2, ReadFrame
<1>3. ASSUME NEW w \in Conns, d = [c EXCEPT ![w] = <<>>]
      PROVE  Fewer(d, c)
  <2>1. d = [v \in Conns |-> d[v]] /\ \A v \in Conns : d[v] = c[v] \/ d[v] = <<>>
    BY <1>3 DEF Channels
  <2> QED
    BY <1>1, <2>1, LoseFrames
<1>4. ASSUME d = [w \in Conns |-> <<>>]
      PROVE  Fewer(d, c)
  <2>1. d = [v \in Conns |-> d[v]] /\ \A v \in Conns : d[v] = c[v] \/ d[v] = <<>>
    BY <1>4
  <2> QED
    BY <1>1, <2>1, LoseFrames
<1>5. d = c => Fewer(d, c)
  BY DEF Fewer
<1> QED
  BY <1>2, <1>3, <1>4, <1>5

LEMMA OneFrameMore ==
    ASSUME NEW c \in Channels, NEW n \in Frames, NEW w, NEW d,
           d = c \/ d = [c EXCEPT ![w] = Append(@, n)]
    PROVE  OneMore(d, c, n)
<1>1. /\ d \in Channels
      /\ \A m : Carries(d, m) => Carries(c, m) \/ m = n
      /\ \A T, r : Once(c, T, r) /\ (~Matches(n, T, r) \/ ~Holds(c, T, r)) => Once(d, T, r)
  BY SendFrame
<1>2. \A T, r : Holds(d, T, r) => Holds(c, T, r) \/ Matches(n, T, r)
  BY <1>1 DEF Holds
<1> QED
  BY <1>1, <1>2 DEF OneMore

LEMMA Sending ==
    ASSUME TypeOK, NEW w, NEW n \in Frames
    PROVE  /\ SendToEdge(w, n) => OneMore(toEdge', toEdge, n)
           /\ SendToCenter(w, n) => OneMore(toCenter', toCenter, n)
<1>1. toEdge \in Channels /\ toCenter \in Channels
  BY DEF TypeOK, WireType, Channels
<1>2. SendToEdge(w, n) => toEdge' = toEdge \/ toEdge' = [toEdge EXCEPT ![w] = Append(@, n)]
  BY DEF SendToEdge
<1>3. SendToCenter(w, n) =>
          toCenter' = toCenter \/ toCenter' = [toCenter EXCEPT ![w] = Append(@, n)]
  BY DEF SendToCenter
<1> QED
  BY <1>1, <1>2, <1>3, OneFrameMore

\* The centre reads or loses frames of the edge.
LEMMA CenterReads ==
    ASSUME TypeOK, CenterNext
    PROVE  Fewer(toCenter', toCenter)
<1>1. toCenter \in Channels
  BY DEF TypeOK, WireType, Channels
<1>2. \/ toCenter' = toCenter
      \/ \E w \in Conns : toCenter[w] # <<>> /\ toCenter' = [toCenter EXCEPT ![w] = Tail(@)]
      \/ \E w \in Conns : toCenter' = [toCenter EXCEPT ![w] = <<>>]
      \/ toCenter' = [w \in Conns |-> <<>>]
  <2>1. ASSUME NEW w \in Conns, Register(w) \/ WireBreak(w) \/ EventPersisted(w) \/ EventFails(w)
        PROVE  toCenter' = toCenter
    BY <2>1 DEF Register, WireBreak, EventPersisted, EventFails, wireVars
  <2>2. ASSUME NEW w \in Conns, ReceiveCollectResult(w) \/ ReceiveAgentResult(w) \/ ReceiveEvent(w)
                                \/ ReceiveStatus(w)
        PROVE  toCenter[w] # <<>> /\ toCenter' = [toCenter EXCEPT ![w] = Tail(@)]
    BY <2>2 DEF ReceiveCollectResult, ReceiveAgentResult, ReceiveEvent, ReceiveStatus, Receiving
  <2>3. ASSUME NEW w \in Conns, Disconnect(w)
        PROVE  toCenter' = [toCenter EXCEPT ![w] = <<>>]
    BY <2>3 DEF Disconnect
  <2>4. CASE CenterRestart
    BY <2>4 DEF CenterRestart
  <2>5. ASSUME NEW r \in Requests,
               \/ Dispatch(r, "collect") \/ Dispatch(r, "loose") \/ DispatchStrict(r)
               \/ Observed(r) \/ ObserverFails(r) \/ Awaited(r) \/ Interrupted(r, "timeout")
               \/ Interrupted(r, "aborted") \/ Interrupted(r, "failed")
               \/ CancelConfirmed(r) \/ CancelAwaited(r) \/ PruneRetained(r)
        PROVE  toCenter' = toCenter
    BY <2>5 DEF Dispatch, DispatchStrict, Observed, ObserverFails, Awaited, Interrupted,
       CancelConfirmed, CancelAwaited, PruneRetained, wireVars
  <2>6. ASSUME NEW p \in Probes, ProbeReturns(p) \/ \E r \in Requests : ProbeTask(p, r)
        PROVE  toCenter' = toCenter
    BY <2>6 DEF ProbeReturns, ProbeTask, wireVars
  <2> QED
    BY <2>1, <2>2, <2>3, <2>4, <2>5, <2>6 DEF CenterNext
<1> QED
  BY <1>1, <1>2, FewerFrames

\* The centre sends a request when it had not been sent, and acknowledges an
\* event its callback consumed.
CenterFrame(n) ==
    \/ n.type \in Starting /\ ~WasSent(n.req) /\ WasSent(n.req)'
    \/ n.type \in {"cancel", "status"}
    \/ n.type = "ack" /\ \E w \in Conns : BusyWith(w, n.req) /\ EventPersisted(w)

LEMMA CenterWrites ==
    ASSUME TypeOK, CenterNext
    PROVE  \/ Fewer(toEdge', toEdge)
           \/ \E n \in Frames : OneMore(toEdge', toEdge, n) /\ CenterFrame(n)
<1> DEFINE Wrote == \E n \in Frames : OneMore(toEdge', toEdge, n) /\ CenterFrame(n)
<1>0. toEdge \in Channels
  BY DEF TypeOK, WireType, Channels
<1>1. toEdge' = toEdge => Fewer(toEdge', toEdge)
  BY <1>0, FewerFrames
<1>2. ASSUME NEW w \in Conns, WireBreak(w)
      PROVE  Fewer(toEdge', toEdge)
  BY <1>0, <1>2, FewerFrames DEF WireBreak
<1>3. CenterRestart => Fewer(toEdge', toEdge)
  BY <1>0, FewerFrames DEF CenterRestart
<1>4. ASSUME NEW w \in Conns, EventPersisted(w)
      PROVE  Wrote
  <2> DEFINE r == Head(busy[w]).req
             n == Frame("ack", r, "none", NoProbe)
  <2>1. busy[w] \in Seq(Frames) /\ busy[w] # <<>>
    BY <1>4 DEF EventPersisted, TypeOK, LinkType
  <2>2. Head(busy[w]) \in Frames
    BY <2>1, HeadTailProperties
  <2>3. r \in Requests /\ BusyWith(w, r)
    BY <2>1, <2>2 DEF Frames, BusyWith
  <2>4. n \in Frames /\ SendToEdge(w, n)
    BY <1>4, <2>3, FrameTypes DEF EventPersisted
  <2>5. n.type = "ack" /\ n.req = r
    BY DEF Frame
  <2> HIDE DEF r, n
  <2>6. CenterFrame(n)
    BY <1>4, <2>3, <2>5 DEF CenterFrame
  <2> QED
    BY <2>4, <2>6, Sending
<1>5. ASSUME NEW w, NEW r \in Requests, NEW t \in Starting, pc[r] \in {"idle", "observing"},
             pc' = [pc EXCEPT ![r] = "waiting"],
             SendToEdge(w, Frame(t, r, "none", NoProbe))
      PROVE  Wrote
  <2> DEFINE n == Frame(t, r, "none", NoProbe)
  <2>1. n \in Frames
    BY FrameTypes DEF Starting
  <2>2. n.type = t /\ n.req = r
    BY DEF Frame
  <2> HIDE DEF n
  <2>3. CenterFrame(n)
    BY <1>5, <2>2 DEF CenterFrame, WasSent, TypeOK, CallType
  <2> QED
    BY <1>5, <2>1, <2>3, Sending DEF n
<1>6. ASSUME NEW r \in Requests, Observed(r) \/ \E k \in {"collect", "loose"} : Dispatch(r, k)
      PROVE  Wrote
  BY <1>5, <1>6 DEF Observed, Dispatch, Starting
<1>7. ASSUME NEW w, NEW n \in Frames, n.type \in {"cancel", "status"}, SendToEdge(w, n)
      PROVE  Wrote
  BY <1>7, Sending DEF CenterFrame
<1>8. ASSUME NEW r \in Requests
      PROVE  /\ Frame("cancel", r, "none", NoProbe) \in Frames
             /\ Frame("cancel", r, "none", NoProbe).type = "cancel"
             /\ \A p \in Probes : /\ Frame("status", r, "none", p) \in Frames
                                  /\ Frame("status", r, "none", p).type = "status"
  BY FrameTypes DEF Frame
<1>9. ASSUME NEW r \in Requests,
             \/ Awaited(r) \/ CancelConfirmed(r) \/ CancelAwaited(r)
             \/ \E reason \in {"timeout", "aborted", "failed"} : Interrupted(r, reason)
      PROVE  toEdge' = toEdge \/ Wrote
  <2>1. UNCHANGED toEdge \/ SendToEdge(owner[r], Frame("cancel", r, "none", NoProbe))
    BY <1>9, Parts DEF Awaited, CancelConfirmed, CancelAwaited, Interrupted
  <2> HIDE DEF Wrote
  <2> QED
    BY <1>7, <1>8, <2>1
<1>10. ASSUME NEW p \in Probes, NEW r \in Requests, ProbeTask(p, r)
       PROVE  toEdge' = toEdge \/ Wrote
  <2>1. UNCHANGED toEdge \/ SendToEdge(conn, Frame("status", r, "none", p))
    BY <1>10 DEF ProbeTask
  <2> HIDE DEF Wrote
  <2> QED
    BY <1>7, <1>8, <2>1
<1>11. ASSUME NEW w \in Conns,
              \/ Register(w) \/ Disconnect(w) \/ ReceiveCollectResult(w) \/ ReceiveAgentResult(w)
              \/ ReceiveEvent(w) \/ EventFails(w) \/ ReceiveStatus(w)
       PROVE  toEdge' = toEdge
  BY <1>11 DEF Register, Disconnect, ReceiveCollectResult, ReceiveAgentResult, ReceiveEvent,
     EventFails, ReceiveStatus, wireVars
<1>12. ASSUME NEW r \in Requests, DispatchStrict(r) \/ ObserverFails(r) \/ PruneRetained(r)
       PROVE  toEdge' = toEdge
  BY <1>12 DEF DispatchStrict, ObserverFails, PruneRetained, wireVars
<1>13. ASSUME NEW p \in Probes, ProbeReturns(p)
       PROVE  toEdge' = toEdge
  BY <1>13 DEF ProbeReturns, wireVars
<1> HIDE DEF Wrote
<1> DEFINE Done == toEdge' = toEdge \/ Fewer(toEdge', toEdge) \/ Wrote
<1>14. ASSUME NEW w \in Conns,
              \/ Register(w) \/ Disconnect(w) \/ WireBreak(w)
              \/ ReceiveCollectResult(w) \/ ReceiveAgentResult(w) \/ ReceiveEvent(w)
              \/ EventPersisted(w) \/ EventFails(w) \/ ReceiveStatus(w)
       PROVE  Done
  BY <1>2, <1>4, <1>11, <1>14
<1>15. ASSUME NEW r \in Requests,
              \/ Dispatch(r, "collect") \/ Dispatch(r, "loose") \/ DispatchStrict(r)
              \/ Observed(r) \/ ObserverFails(r) \/ Awaited(r) \/ Interrupted(r, "timeout")
              \/ Interrupted(r, "aborted") \/ Interrupted(r, "failed")
              \/ CancelConfirmed(r) \/ CancelAwaited(r) \/ PruneRetained(r)
       PROVE  Done
  BY <1>6, <1>9, <1>12, <1>15
<1>16. Done
  BY <1>3, <1>10, <1>13, <1>14, <1>15 DEF CenterNext
<1> QED
  BY <1>1, <1>16 DEF Wrote

\* The edge reads or loses frames of the centre.
LEMMA EdgeReads ==
    ASSUME TypeOK, EdgeInv, EdgeNext
    PROVE  Fewer(toEdge', toEdge)
<1>1. toEdge \in Channels
  BY DEF TypeOK, WireType, Channels
<1>2. ASSUME NEW t, EdgeReceiving(t)
      PROVE  Fewer(toEdge', toEdge)
  <2>1. econn \in Conns
    BY <1>2, EdgeFrameRead
  <2> QED
    BY <1>1, <1>2, <2>1, FewerFrames DEF EdgeReceiving
<1>3. CASE EdgeRestart
  BY <1>1, <1>3, FewerFrames DEF EdgeRestart
<1>4. CASE UNCHANGED toEdge
  BY <1>1, <1>4, FewerFrames
<1>5. \/ EdgeRestart \/ UNCHANGED toEdge \/ \E t : EdgeReceiving(t)
  BY Parts DEF EdgeNext, EdgeConnect, EdgeLose, EdgeSweep, EdgeReceiveTask, EdgeReceiveCollect,
     EdgeReceiveCancel, EdgeReceiveAck, EdgeReceiveStatus, EdgeBegin, EdgeEmit,
     EdgeIterationEnds, EdgeClose, EdgeSend, EdgeFlushed, EdgeExpire, NativeExit
<1> QED
  BY <1>2, <1>3, <1>4, <1>5

\* The edge answers a probe with what it knows, emits an event it will wait
\* for, and sends the result of a task that has ended.
EdgeFrame(n) ==
    \/ n.type = "status_result" /\ n.val = StatusOf(n.req) /\ UNCHANGED edgeVars
    \/ n.type = "event" /\ n.val = "none" /\ est[n.req] = "running" /\ EdgeEmit(n.req)
    \/ n.type \in Answers /\ est[n.req] \in Answering /\ n.val = eres[n.req] /\ EdgeSend(n.req)

LEMMA EdgeWrites ==
    ASSUME TypeOK, EdgeInv, EdgeNext
    PROVE  \/ toCenter' = toCenter
           \/ \E n \in Frames : OneMore(toCenter', toCenter, n) /\ EdgeFrame(n)
<1> DEFINE Wrote == \E n \in Frames : OneMore(toCenter', toCenter, n) /\ EdgeFrame(n)
<1>1. CASE EdgeReceiveStatus
  <2> DEFINE m == Head(toEdge[econn])
             n == Frame("status_result", m.req, StatusOf(m.req), m.probe)
  <2>1. m \in Frames
    BY <1>1, EdgeFrameRead DEF EdgeReceiveStatus
  <2>2. m.req \in Requests /\ m.probe \in Probes \cup {NoProbe}
    BY <2>1 DEF Frames
  <2>3. StatusOf(m.req) \in Confirmed \cup {"dirty", "running", "unknown"}
    BY DEF StatusOf
  <2>4. n \in Frames /\ SendToCenter(econn, n)
    BY <1>1, <2>2, <2>3, FrameTypes DEF EdgeReceiveStatus
  <2>5. n.type = "status_result" /\ n.req = m.req /\ n.val = StatusOf(m.req)
    BY DEF Frame
  <2> HIDE DEF n, m
  <2>6. EdgeFrame(n)
    BY <1>1, <2>5 DEF EdgeFrame, EdgeReceiveStatus
  <2> QED
    BY <2>4, <2>6, Sending
<1>2. ASSUME NEW r \in Requests, EdgeEmit(r)
      PROVE  toCenter' = toCenter \/ Wrote
  <2> DEFINE n == Frame("event", r, "none", NoProbe)
  <2>1. n \in Frames
    BY FrameTypes
  <2>2. n.type = "event" /\ n.req = r /\ n.val = "none"
    BY DEF Frame
  <2>3. toCenter' = toCenter \/ SendToCenter(ews[r], n)
    BY <1>2 DEF EdgeEmit
  <2> HIDE DEF n
  <2>4. EdgeFrame(n)
    BY <1>2, <2>2 DEF EdgeFrame, EdgeEmit
  <2> QED
    BY <2>1, <2>3, <2>4, Sending
<1>3. ASSUME NEW r \in Requests, EdgeSend(r)
      PROVE  Wrote
  <2> DEFINE t == IF kind[r] = "collect" THEN "result" ELSE "agent_result"
             n == Frame(t, r, eres[r], NoProbe)
  <2>1. n \in Frames
    BY FrameTypes DEF TypeOK, EdgeType, Answers
  <2>2. n.type \in Answers /\ n.req = r /\ n.val = eres[r]
    BY DEF Frame, Answers
  <2>3. SendToCenter(ews[r], n)
    BY <1>3 DEF EdgeSend
  <2> HIDE DEF n
  <2>4. EdgeFrame(n)
    BY <1>3, <2>2 DEF EdgeFrame, EdgeSend, Answering
  <2> QED
    BY <2>1, <2>3, <2>4, Sending
<1> HIDE DEF Wrote
<1>4. \/ toCenter' = toCenter \/ EdgeReceiveStatus
      \/ \E r \in Requests : EdgeEmit(r) \/ EdgeSend(r)
  BY Parts DEF EdgeNext, EdgeConnect, EdgeLose, EdgeSweep, EdgeReceiveTask, EdgeReceiveCollect,
     EdgeReceiveCancel, EdgeReceiveAck, EdgeRestart, EdgeBegin,
     EdgeIterationEnds, EdgeClose, EdgeFlushed, EdgeExpire, NativeExit
<1> QED
  BY <1>1, <1>2, <1>3, <1>4 DEF Wrote

-----------------------------------------------------------------------------
(* Starts, confirmed results and the evidence kept of them *)

LEMMA StartStep ==
    ASSUME TypeOK, CallInv, EdgeInv, StartInv, FrameInv, Next
    PROVE  StartInv'
<1>1. CASE CenterNext
  <2>1. UNCHANGED est
    BY <1>1, CenterKeepsEdge, Parts
  <2>2. \A r \in Requests : WasSent(r) => WasSent(r)'
    BY <1>1, DispatchStep
  <2>3. CASE Fewer(toEdge', toEdge)
    BY <2>1, <2>2, <2>3 DEF StartInv, Fewer
  <2>4. ASSUME NEW n \in Frames, OneMore(toEdge', toEdge, n), CenterFrame(n)
        PROVE  StartInv'
    <3> SUFFICES ASSUME NEW r \in Requests
                 PROVE  /\ est'[r] # "none" => WasSent(r)'
                        /\ Holds(toEdge', Starting, r) => est'[r] = "none" /\ WasSent(r)'
                        /\ Once(toEdge', Starting, r)
      BY DEF StartInv
    <3>1. Matches(n, Starting, r) => ~WasSent(r) /\ WasSent(r)'
      BY <2>4 DEF CenterFrame, Matches, Starting
    <3>2. ~WasSent(r) => est[r] = "none" /\ ~Holds(toEdge, Starting, r)
      BY DEF StartInv
    <3>3. Holds(toEdge', Starting, r) => Holds(toEdge, Starting, r) \/ Matches(n, Starting, r)
      BY <2>4 DEF OneMore
    <3>4. Once(toEdge', Starting, r)
      BY <2>4, <3>1, <3>2 DEF OneMore, StartInv
    <3> QED
      BY <2>1, <2>2, <3>1, <3>2, <3>3, <3>4 DEF StartInv
  <2> QED
    BY <1>1, <2>3, <2>4, CenterWrites
<1>2. CASE EdgeNext
  <2>1. \A r \in Requests : WasSent(r)' <=> WasSent(r)
    BY <1>2, EdgeKeepsCenter, Parts DEF WasSent
  <2>2. Fewer(toEdge', toEdge)
    BY <1>2, EdgeReads
  <2>3. ASSUME NEW r \in Requests, est[r] = "none", est'[r] # "none"
        PROVE  WasSent(r) /\ ~Holds(toEdge', Starting, r)
    <3>1. PICK t \in Starting : EdgeReceiving(t) /\ Head(toEdge[econn]).req = r
      BY <1>2, <2>3, EdgeTaskStep
    <3>2. WasSent(r)
      BY <3>1, StartsOnce
    <3>3. /\ econn \in Conns /\ toEdge \in Channels /\ toEdge[econn] # <<>>
          /\ toEdge' = [toEdge EXCEPT ![econn] = Tail(@)]
      BY <3>1, EdgeFrameRead DEF EdgeReceiving, TypeOK, WireType, Channels
    <3>4. Matches(Head(toEdge[econn]), Starting, r)
      BY <3>1 DEF EdgeReceiving, Matches
    <3>5. Once(toEdge, Starting, r)
      BY DEF StartInv
    <3> QED
      BY <3>2, <3>3, <3>4, <3>5, ReadFrame
  <2> QED
    BY <1>2, <2>1, <2>2, <2>3, EdgeTaskStep DEF StartInv, Fewer
<1> QED
  BY <1>1, <1>2 DEF Next

LEMMA FrameStep ==
    ASSUME TypeOK, EdgeInv, StartInv, FrameInv, Next
    PROVE  FrameInv'
<1>1. CASE CenterNext
  <2>1. \A r : Over(r)' <=> Over(r)
    BY <1>1, CenterKeepsEdge, Parts DEF Over
  <2>2. \A m : Carries(toCenter', m) => Carries(toCenter, m)
    BY <1>1, CenterReads DEF Fewer
  <2> QED
    BY <2>1, <2>2 DEF FrameInv
<1>2. CASE EdgeNext
  <2>1. \A r \in Requests : Over(r) => Over(r)'
    BY <1>2, EdgeTaskStep
  <2>2. \A m \in Frames : m.req \in Requests
    BY DEF Frames
  <2>3. CASE toCenter' = toCenter
    BY <2>1, <2>2, <2>3 DEF FrameInv
  <2>4. ASSUME NEW n \in Frames, OneMore(toCenter', toCenter, n), EdgeFrame(n)
        PROVE  FrameInv'
    <3>1. \A m : Carries(toCenter', m) => Carries(toCenter, m) \/ m = n
      BY <2>4 DEF OneMore
    <3>2. n.type \in Answers => n.val \in Confirmed \cup {"dirty"}
      BY <2>2, <2>4 DEF EdgeFrame, Answers, EdgeInv, TypeOK, EdgeType, Results
    <3>3. n.val \in Confirmed => Over(n.req)
      BY <2>2, <2>4 DEF EdgeFrame, StatusOf, EdgeInv, Over, Confirmed, Answering
    <3> QED
      BY <2>1, <2>2, <3>1, <3>2, <3>3 DEF FrameInv
  <2> QED
    BY <1>2, <2>3, <2>4, EdgeWrites
<1> QED
  BY <1>1, <1>2 DEF Next

LEMMA EvidenceStep ==
    ASSUME TypeOK, CallInv, ProbeInv, EdgeInv, StartInv, FrameInv, EvidenceInv, Next
    PROVE  EvidenceInv'
<1> USE DEF EvidenceInv
<1>1. CASE CenterNext
  \* a confirmed value is kept, moved, or taken from a frame about a request that is over
  <2> DEFINE CallsKeep(r) ==
               /\ fut'[r] \in Confirmed => fut[r] \in Confirmed \/ Over(r)
               /\ terminal'[r] \in Confirmed => terminal[r] \in Confirmed \/ Over(r)
               /\ retVal'[r] \in Confirmed => retVal[r] \in Confirmed \/ Over(r)
             ProbesKeep(p) ==
               /\ \/ ptask'[p] = ptask[p]
                  \/ pres'[p] \notin Confirmed /\ pfut'[p] \notin Confirmed
               /\ pfut'[p] \in Confirmed =>
                     pfut[p] \in Confirmed \/ (ptask[p] \in Requests /\ Over(ptask[p]))
               /\ pres'[p] \in Confirmed => pres[p] \in Confirmed \/ pfut[p] \in Confirmed
             CallsKept == \A r \in Requests : CallsKeep(r)
             ProbesKept == \A p \in Probes : ProbesKeep(p)
  <2>0. \A r : Over(r)' <=> Over(r)
    BY <1>1, CenterKeepsEdge, Parts DEF Over
  <2>1. CallsKept /\ ProbesKept => EvidenceInv'
    BY <2>0
  <2> USE DEF TypeOK, CallType, KeepType, ProbeType
  <2>2. /\ UNCHANGED <<fut, terminal, retVal>> => CallsKept
        /\ UNCHANGED <<ptask, pres, pfut>> => ProbesKept
    OBVIOUS
  <2>3. ASSUME NEW w \in Conns, Register(w) \/ Disconnect(w)
        PROVE  CallsKept /\ ProbesKept
    <3>1. FailPending \/ NothingPending
      BY <2>3 DEF Register, Disconnect
    <3>2. \A r \in Requests : /\ fut'[r] \in Confirmed => fut[r] \in Confirmed
                              /\ terminal'[r] \in Confirmed => terminal[r] \in Confirmed
      BY <3>1 DEF FailPending, NothingPending, Confirmed
    <3>3. \A p \in Probes : pfut'[p] \in Confirmed => pfut[p] \in Confirmed
      BY <3>1 DEF FailPending, NothingPending, Confirmed
    <3>4. UNCHANGED <<retVal, ptask, pres>>
      BY <2>3, Parts DEF Register, Disconnect
    <3> QED
      BY <3>2, <3>3, <3>4
  <2>4. ASSUME NEW w \in Conns, NEW t, Receiving(w, t)
        PROVE  /\ Head(toCenter[w]) \in Frames /\ Head(toCenter[w]).req \in Requests
               /\ Head(toCenter[w]).val \in Confirmed => Over(Head(toCenter[w]).req)
    BY <2>4, FrameRead DEF FrameInv
  <2>5. ASSUME NEW w \in Conns, ReceiveCollectResult(w) \/ ReceiveAgentResult(w)
        PROVE  CallsKept /\ ProbesKept
    <3> DEFINE m == Head(toCenter[w])
    <3>1. m.req \in Requests /\ (m.val \in Confirmed => Over(m.req))
      BY <2>4, <2>5 DEF ReceiveCollectResult, ReceiveAgentResult
    <3>2. /\ fut' = fut \/ fut' = [fut EXCEPT ![m.req] = m.val]
          /\ terminal' = terminal \/ terminal' = [terminal EXCEPT ![m.req] = m.val]
          /\ retVal' = retVal \/ retVal' = [retVal EXCEPT ![m.req] = m.val]
      BY <2>5, Parts DEF ReceiveCollectResult, ReceiveAgentResult
    <3>3. UNCHANGED <<ptask, pres, pfut>>
      BY <2>5, Parts DEF ReceiveCollectResult, ReceiveAgentResult
    <3> HIDE DEF m
    <3>4. CallsKept
      BY <3>1, <3>2
    <3> QED
      BY <2>2, <3>3, <3>4
  <2>6. ASSUME NEW w \in Conns, ReceiveStatus(w)
        PROVE  CallsKept /\ ProbesKept
    <3>1. UNCHANGED <<fut, terminal, retVal, ptask, pres>>
      BY <2>6, Parts DEF ReceiveStatus
    <3> DEFINE m == Head(toCenter[w])
    <3>2. m.req \in Requests /\ (m.val \in Confirmed => Over(m.req))
      BY <2>4, <2>6 DEF ReceiveStatus
    <3>3. \A p \in Probes : pfut'[p] \in Confirmed =>
             pfut[p] \in Confirmed \/ (ptask[p] = m.req /\ m.val \in Confirmed)
      BY <2>6 DEF ReceiveStatus, Confirmed
    <3> HIDE DEF m
    <3> QED
      BY <3>1, <3>2, <3>3
  <2>7. ASSUME NEW w \in Conns, EventFails(w)
        PROVE  CallsKept /\ ProbesKept
    <3>1. UNCHANGED <<terminal, retVal, ptask, pres, pfut>>
      BY <2>7, Parts DEF EventFails
    <3> QED
      BY <2>7, <3>1 DEF EventFails, Confirmed
  <2>8. ASSUME NEW r \in Requests, NEW k \in {"collect", "loose"}, Dispatch(r, k)
        PROVE  CallsKept /\ ProbesKept
    <3>1. UNCHANGED <<terminal, retVal, ptask, pres, pfut>>
      BY <2>8, Parts DEF Dispatch
    <3> QED
      BY <2>8, <3>1 DEF Dispatch, Confirmed
  <2>9. ASSUME NEW r \in Requests, DispatchStrict(r) \/ Observed(r) \/ ObserverFails(r)
        PROVE  CallsKept /\ ProbesKept
    <3>1. UNCHANGED <<ptask, pres, pfut>>
      BY <2>9, Parts DEF DispatchStrict, Observed, ObserverFails
    <3>2. CallsKept
      BY <2>9, Parts DEF DispatchStrict, Observed, ObserverFails, Return, Confirmed
    <3> QED
      BY <2>2, <3>1, <3>2
  <2>10. ASSUME NEW r \in Requests,
                \/ Awaited(r) \/ CancelConfirmed(r) \/ CancelAwaited(r)
                \/ \E reason \in {"timeout", "aborted", "failed"} : Interrupted(r, reason)
         PROVE  CallsKept /\ ProbesKept
    <3>1. \/ \E how : Return(r, how)
          \/ UNCHANGED <<fut, terminal>>
      BY <2>10 DEF Awaited, CancelConfirmed, CancelAwaited, Interrupted, Cancelling
    <3>2. UNCHANGED <<retVal, ptask, pres, pfut>>
      BY <2>10, Parts DEF Awaited, CancelConfirmed, CancelAwaited, Interrupted
    <3>3. CallsKept
      BY <3>1, <3>2 DEF Return, Confirmed
    <3> QED
      BY <2>2, <3>2, <3>3
  <2>11. ASSUME NEW r \in Requests, PruneRetained(r)
         PROVE  CallsKept /\ ProbesKept
    <3>1. UNCHANGED <<fut, terminal, ptask, pres, pfut>>
      BY <2>11, Parts DEF PruneRetained
    <3> QED
      BY <2>11, <3>1 DEF PruneRetained, Confirmed
  <2>12. ASSUME NEW p \in Probes, NEW r \in Requests, ProbeTask(p, r)
         PROVE  CallsKept /\ ProbesKept
    <3>1. UNCHANGED <<fut, terminal, retVal>>
      BY <2>12, Parts DEF ProbeTask
    <3>2. pfut[p] = "none" /\ pres[p] = "none"
      BY <2>12 DEF ProbeTask, ProbeInv
    <3>3. \A q \in Probes : /\ q # p => ptask'[q] = ptask[q]
                            /\ pfut'[q] \in Confirmed => pfut[q] \in Confirmed
                            /\ pres'[q] \in Confirmed => pres[q] \in Confirmed
      BY <2>12 DEF ProbeTask, Confirmed
    <3>4. pfut[p] \notin Confirmed /\ pres[p] \notin Confirmed
      BY <3>2 DEF Confirmed
    <3> QED
      BY <2>2, <3>1, <3>3, <3>4
  <2>13. ASSUME NEW p \in Probes, ProbeReturns(p)
         PROVE  CallsKept /\ ProbesKept
    <3>1. UNCHANGED <<fut, terminal, retVal, ptask>>
      BY <2>13, Parts DEF ProbeReturns
    <3> QED
      BY <2>13, <3>1 DEF ProbeReturns, Confirmed
  <2>14. CenterRestart => CallsKept /\ ProbesKept
    BY DEF CenterRestart, Confirmed
  <2>15. ASSUME NEW w \in Conns, WireBreak(w) \/ ReceiveEvent(w) \/ EventPersisted(w)
         PROVE  CallsKept /\ ProbesKept
    <3>1. UNCHANGED <<fut, terminal, retVal, ptask, pres, pfut>>
      BY <2>15, Parts DEF WireBreak, ReceiveEvent, EventPersisted
    <3> QED
      BY <2>2, <3>1
  <2> HIDE DEF CallsKept, ProbesKept
  <2>16. CallsKept /\ ProbesKept
    BY <1>1, <2>3, <2>5, <2>6, <2>7, <2>8, <2>9, <2>10, <2>11, <2>12, <2>13, <2>14, <2>15
       DEF CenterNext
  <2> QED
    BY <2>1, <2>16 DEF CallsKept, ProbesKept
<1>2. CASE EdgeNext
  <2>1. UNCHANGED <<fut, terminal, retVal, ptask, pres, pfut>>
    BY <1>2, EdgeKeepsCenter, Parts
  <2>2. \A r \in Requests : Over(r) => Over(r)'
    BY <1>2, EdgeTaskStep
  <2> QED
    BY <2>1, <2>2
<1> QED
  BY <1>1, <1>2 DEF Next

-----------------------------------------------------------------------------
(* The way of a durable event *)

Before == {"none", "created", "running"}

LEMMA BusyFrames ==
    ASSUME TypeOK, NEW w \in Conns, busy[w] # <<>>
    PROVE  Head(busy[w]).req \in Requests
<1>1. Head(busy[w]) \in Frames
  BY HeadTailProperties DEF TypeOK, LinkType
<1> QED
  BY <1>1 DEF Frames

\* The centre takes an event from the wire to its callback, and the callback
\* gives it back as an acknowledgement; any other step only loses them.
LEMMA CenterEvents ==
    ASSUME TypeOK, CenterNext
    PROVE  /\ \A r \in Requests : persisted[r] => persisted'[r]
           /\ \A r \in Requests : HasEvent(r)' => HasEvent(r)
           /\ \A r \in Requests : Once(toCenter, {"event"}, r) => Once(toCenter', {"event"}, r)
           /\ \/ \E w \in Conns : ReceiveEvent(w) \/ EventPersisted(w)
              \/ /\ \A w \in Conns : busy'[w] \in {busy[w], <<>>}
                 /\ \A r \in Requests : HasAck(r)' => HasAck(r)
                 /\ \A r \in Requests : Once(toEdge, {"ack"}, r) => Once(toEdge', {"ack"}, r)
<1> DEFINE Losing == UNCHANGED persisted /\ \A w \in Conns : busy'[w] \in {busy[w], <<>>}
<1>1. UNCHANGED linkVars /\ UNCHANGED persisted => Losing
  BY Parts
<1>2. ASSUME NEW w \in Conns,
             \/ Register(w) \/ Disconnect(w) \/ WireBreak(w) \/ ReceiveCollectResult(w)
             \/ ReceiveAgentResult(w) \/ EventFails(w) \/ ReceiveStatus(w)
      PROVE  Losing
  BY <1>2, Parts DEF Register, Disconnect, WireBreak, ReceiveCollectResult, ReceiveAgentResult,
     EventFails, ReceiveStatus, TypeOK, LinkType
<1>4. ASSUME NEW r \in Requests,
             \/ Dispatch(r, "collect") \/ Dispatch(r, "loose") \/ DispatchStrict(r)
             \/ Observed(r) \/ ObserverFails(r) \/ Awaited(r) \/ Interrupted(r, "timeout")
             \/ Interrupted(r, "aborted") \/ Interrupted(r, "failed")
             \/ CancelConfirmed(r) \/ CancelAwaited(r) \/ PruneRetained(r)
      PROVE  UNCHANGED linkVars /\ UNCHANGED persisted
  BY <1>4 DEF Dispatch, DispatchStrict, Observed, ObserverFails, Awaited, Interrupted,
     CancelConfirmed, CancelAwaited, PruneRetained
<1>5. ASSUME NEW p \in Probes, ProbeReturns(p) \/ \E r \in Requests : ProbeTask(p, r)
      PROVE  UNCHANGED linkVars /\ UNCHANGED persisted
  BY <1>5 DEF ProbeReturns, ProbeTask
<1>6. Losing \/ \E w \in Conns : ReceiveEvent(w) \/ EventPersisted(w)
  <2>1. CenterRestart => Losing
    BY DEF CenterRestart
  <2> HIDE DEF Losing
  <2> QED
    BY <1>1, <1>2, <1>4, <1>5, <2>1 DEF CenterNext
<1>7. \A r \in Requests : persisted[r] => persisted'[r]
  <2>1. ASSUME NEW w \in Conns, ReceiveEvent(w) \/ EventPersisted(w)
        PROVE  \A r \in Requests : persisted[r] => persisted'[r]
    <3>1. ReceiveEvent(w) => UNCHANGED persisted
      BY DEF ReceiveEvent
    <3>2. EventPersisted(w) => persisted' = [persisted EXCEPT ![Head(busy[w]).req] = TRUE]
      BY DEF EventPersisted
    <3>3. \A r \in Requests : persisted' = [persisted EXCEPT ![r] = TRUE] =>
                                 \A q \in Requests : persisted[q] => persisted'[q]
      BY DEF TypeOK, LinkType
    <3>4. EventPersisted(w) => Head(busy[w]).req \in Requests
      BY BusyFrames DEF EventPersisted
    <3> QED
      BY <2>1, <3>1, <3>2, <3>3, <3>4
  <2> QED
    BY <1>6, <2>1
<1>8. Fewer(toCenter', toCenter)
  BY CenterReads
<1>9. ASSUME \A w \in Conns : ~EventPersisted(w), NEW r \in Requests
      PROVE  /\ HasAck(r)' => HasAck(r)
             /\ Once(toEdge, {"ack"}, r) => Once(toEdge', {"ack"}, r)
  <2>1. CASE Fewer(toEdge', toEdge)
    BY <2>1 DEF Fewer, HasAck
  <2>2. ASSUME NEW n \in Frames, OneMore(toEdge', toEdge, n), CenterFrame(n)
        PROVE  /\ HasAck(r)' => HasAck(r)
               /\ Once(toEdge, {"ack"}, r) => Once(toEdge', {"ack"}, r)
    <3>1. ~Matches(n, {"ack"}, r)
      BY <1>9, <2>2 DEF CenterFrame, Matches, Starting
    <3> QED
      BY <2>2, <3>1 DEF OneMore, HasAck
  <2> QED
    BY <2>1, <2>2, CenterWrites
<1>10. \A r \in Requests : /\ HasEvent(r)' => HasEvent(r)
                           /\ Once(toCenter, {"event"}, r) => Once(toCenter', {"event"}, r)
  BY <1>8 DEF Fewer, HasEvent
<1> QED
  BY <1>6, <1>7, <1>9, <1>10

LEMMA CenterEventStep ==
    ASSUME TypeOK, EventInv, EvidenceBeforeCleanup, CenterNext
    PROVE  EventInv' /\ EvidenceBeforeCleanup'
<1>1. UNCHANGED <<est, past>>
  BY CenterKeepsEdge, Parts
<1>2. EvidenceBeforeCleanup'
  BY <1>1, CenterEvents DEF EvidenceBeforeCleanup
<1>3. ASSUME NEW w \in Conns, ReceiveEvent(w)
      PROVE  EventInv'
  <2> DEFINE m == Head(toCenter[w])
  <2>1. /\ m \in Frames /\ Carries(toCenter, m) /\ m.type = "event" /\ m.req \in Requests
        /\ busy[w] = <<>> /\ toCenter[w] # <<>> /\ toCenter' = [toCenter EXCEPT ![w] = Tail(@)]
    BY <1>3, FrameRead DEF ReceiveEvent, Receiving
  <2>2. PICK q \in Requests : q = m.req
    BY <2>1
  <2>2a. Matches(m, {"event"}, q)
    BY <2>1, <2>2 DEF Matches
  <2>3. HasEvent(q) /\ ~HasEvent(q)'
    <3>1. HasEvent(q)
      BY <2>1, <2>2a DEF HasEvent, Holds
    <3>2. Once(toCenter, {"event"}, q) /\ toCenter \in Channels
      BY <2>1 DEF EventInv, TypeOK, WireType, Channels
    <3>3. ~Holds(toCenter', {"event"}, q)
      BY <2>1, <2>2a, <3>2, ReadFrame
    <3> QED
      BY <3>1, <3>3 DEF HasEvent
  <2>4. /\ busy' = busy \/ busy' = [busy EXCEPT ![w] = <<m>>]
        /\ UNCHANGED <<toEdge, persisted>>
    BY <1>3 DEF ReceiveEvent
  <2>5. Head(<<m>>) = m /\ <<m>> # <<>>
    BY <2>1
  <2> HIDE DEF m
  <2>6. \A v \in Conns, r \in Requests :
           BusyWith(v, r)' => BusyWith(v, r) \/ (v = w /\ r = q)
    BY <2>2, <2>4, <2>5 DEF BusyWith, TypeOK, LinkType
  <2>7. \A r \in Requests : IsBusy(r)' => IsBusy(r) \/ r = q
    BY <2>6 DEF IsBusy
  <2>8. \A r \in Requests : HasAck(r)' <=> HasAck(r)
    BY <2>4 DEF HasAck
  <2>9. ~IsBusy(q) /\ ~HasAck(q) /\ est[q] \notin Before
    BY <2>3 DEF EventInv, Before
  <2>10. \A r \in Requests : \A u, v \in Conns : BusyWith(u, r)' /\ BusyWith(v, r)' => u = v
    BY <2>6, <2>9 DEF EventInv, IsBusy
  <2>11. \A r \in Requests : /\ HasEvent(r)' => HasEvent(r) /\ r # q
                             /\ Once(toCenter', {"event"}, r) /\ Once(toEdge', {"ack"}, r)
    BY <2>3, <2>4, CenterEvents DEF EventInv
  <2> QED
    BY <1>1, <2>4, <2>7, <2>8, <2>9, <2>10, <2>11 DEF EventInv, Before
<1>4. ASSUME NEW w \in Conns, EventPersisted(w)
      PROVE  EventInv'
  <2> DEFINE q == Head(busy[w]).req
             n == Frame("ack", q, "none", NoProbe)
  <2>1. q \in Requests /\ BusyWith(w, q) /\ IsBusy(q)
    BY <1>4, BusyFrames DEF EventPersisted, BusyWith, IsBusy
  <2>2. n \in Frames /\ n.type = "ack" /\ n.req = q
    BY <2>1, FrameTypes DEF Frame
  <2>3. /\ persisted' = [persisted EXCEPT ![q] = TRUE] /\ busy' = [busy EXCEPT ![w] = <<>>]
        /\ SendToEdge(w, n)
    BY <1>4 DEF EventPersisted
  <2> HIDE DEF q, n
  <2>4. OneMore(toEdge', toEdge, n)
    BY <2>2, <2>3, Sending
  <2>5. ~HasEvent(q) /\ ~HasAck(q) /\ est[q] \notin Before
    BY <2>1 DEF EventInv, Before
  <2>6. \A r \in Requests : /\ HasAck(r)' => HasAck(r) \/ r = q
                            /\ Once(toEdge', {"ack"}, r)
    <3>1. \A r \in Requests : Matches(n, {"ack"}, r) => r = q
      BY <2>2 DEF Matches
    <3> QED
      BY <2>4, <2>5, <3>1 DEF OneMore, HasAck, EventInv
  <2>7. \A v \in Conns, r \in Requests : BusyWith(v, r)' => BusyWith(v, r) /\ v # w
    BY <2>3 DEF BusyWith, TypeOK, LinkType
  <2>8. /\ \A r \in Requests : IsBusy(r)' => IsBusy(r) /\ r # q
        /\ \A r \in Requests : \A u, v \in Conns : BusyWith(u, r)' /\ BusyWith(v, r)' => u = v
    BY <2>1, <2>7 DEF EventInv, IsBusy
  <2>9. \A r \in Requests : /\ HasEvent(r)' => HasEvent(r)
                            /\ Once(toCenter', {"event"}, r)
                            /\ persisted[r] => persisted'[r]
    BY CenterEvents DEF EventInv
  <2>10. persisted'[q]
    BY <2>1, <2>3 DEF TypeOK, LinkType
  <2> QED
    BY <1>1, <2>1, <2>5, <2>6, <2>8, <2>9, <2>10 DEF EventInv, Before
<1>5. ASSUME \A w \in Conns : busy'[w] \in {busy[w], <<>>},
             \A r \in Requests : HasAck(r)' => HasAck(r),
             \A r \in Requests : Once(toEdge, {"ack"}, r) => Once(toEdge', {"ack"}, r)
      PROVE  EventInv'
  <2>1. \A v \in Conns, r \in Requests : BusyWith(v, r)' => BusyWith(v, r)
    BY <1>5 DEF BusyWith
  <2>2. \A r \in Requests : IsBusy(r)' => IsBusy(r)
    BY <2>1 DEF IsBusy
  <2> QED
    BY <1>1, <1>5, <2>1, <2>2, CenterEvents DEF EventInv
<1>6. EventInv'
  BY <1>3, <1>4, <1>5, CenterEvents
<1> QED
  BY <1>2, <1>6

\* A task leaves its first steps, and comes back to iterating, only as described.
LEMMA EdgeQuiet ==
    ASSUME TypeOK, EdgeInv, StartInv, EdgeNext, NEW r \in Requests, ~EdgeEmit(r),
           EdgeReceiveAck => Head(toEdge[econn]).req # r \/ est[r] # "ackwait"
    PROVE  /\ est'[r] \in Before => est[r] \in Before
           /\ est'[r] = "ackwait" => est[r] = "ackwait"
           /\ past'[r] = past[r] /\ persisted'[r] = persisted[r]
<1> USE DEF TypeOK, EdgeType, LinkType, Before
<1>1. CASE EdgeConnect \/ EdgeLose \/ EdgeReceiveStatus
  BY <1>1, Parts DEF EdgeConnect, EdgeLose, EdgeReceiveStatus
<1>2. CASE EdgeSweep
  BY <1>2, Cancelled DEF EdgeSweep
<1>3. CASE EdgeReceiveTask
  BY <1>3, StartsOnce DEF EdgeReceiveTask, Starting
<1>4. CASE EdgeReceiveCollect
  BY <1>4, StartsOnce DEF EdgeReceiveCollect, Starting
<1>5. CASE EdgeReceiveCancel
  <2> DEFINE q == Head(toEdge[econn]).req
  <2>1. q \in Requests /\ UNCHANGED <<past, persisted>>
    BY <1>5, EdgeFrameRead DEF EdgeReceiveCancel
  <2>2. est' = est \/ est' = [est EXCEPT ![q] = "closing"] \/ est' = [est EXCEPT ![q] = AfterCancel(q)]
    BY <1>5 DEF EdgeReceiveCancel
  <2> HIDE DEF q
  <2> QED
    BY <2>1, <2>2, Cancelled
<1>6. CASE EdgeReceiveAck
  <2>1. Head(toEdge[econn]).req \in Requests
    BY <1>6, EdgeFrameRead DEF EdgeReceiveAck
  <2> QED
    BY <1>6, <2>1 DEF EdgeReceiveAck
<1>7. CASE EdgeRestart
  BY <1>7 DEF EdgeRestart
<1>8. ASSUME NEW q \in Requests, EdgeEmit(q)
      PROVE  q # r /\ est'[r] = est[r] /\ past'[r] = past[r] /\ persisted'[r] = persisted[r]
  BY <1>8 DEF EdgeEmit
<1>9. ASSUME NEW q \in Requests,
             \/ EdgeBegin(q) \/ EdgeIterationEnds(q) \/ EdgeClose(q) \/ EdgeSend(q)
             \/ EdgeFlushed(q) \/ EdgeExpire(q) \/ NativeExit(q)
      PROVE  /\ est'[r] \in Before => est[r] \in Before
             /\ est'[r] = "ackwait" => est[r] = "ackwait"
             /\ past'[r] = past[r] /\ persisted'[r] = persisted[r]
  BY <1>9 DEF EdgeBegin, EdgeIterationEnds, EdgeClose, EdgeSend, EdgeFlushed, EdgeExpire, NativeExit
<1> QED
  BY <1>1, <1>2, <1>3, <1>4, <1>5, <1>6, <1>7, <1>8, <1>9 DEF EdgeNext

LEMMA EdgeEventStep ==
    ASSUME TypeOK, EdgeInv, StartInv, EventInv, EvidenceBeforeCleanup, EdgeNext
    PROVE  EventInv' /\ EvidenceBeforeCleanup'
<1>1. /\ \A r \in Requests : HasAck(r)' => HasAck(r)
      /\ \A r \in Requests : Once(toEdge', {"ack"}, r)
  BY EdgeReads DEF Fewer, HasAck, EventInv
<1>2. /\ \A w \in Conns, r \in Requests : BusyWith(w, r)' <=> BusyWith(w, r)
      /\ \A r \in Requests : IsBusy(r)' <=> IsBusy(r)
  BY EdgeKeepsCenter DEF BusyWith, IsBusy
<1>3. \A r \in Requests : /\ HasEvent(r)' => HasEvent(r) \/ (EdgeEmit(r) /\ est[r] = "running")
                          /\ Once(toCenter', {"event"}, r)
  <2>1. CASE toCenter' = toCenter
    BY <2>1 DEF HasEvent, EventInv
  <2>2. ASSUME NEW n \in Frames, OneMore(toCenter', toCenter, n), EdgeFrame(n),
               NEW r \in Requests
        PROVE  /\ HasEvent(r)' => HasEvent(r) \/ (EdgeEmit(r) /\ est[r] = "running")
               /\ Once(toCenter', {"event"}, r)
    <3>1. Matches(n, {"event"}, r) => EdgeEmit(r) /\ est[r] = "running"
      BY <2>2 DEF Matches, EdgeFrame, Answers
    <3>2. est[r] = "running" => ~Holds(toCenter, {"event"}, r)
      BY DEF EventInv, HasEvent
    <3>3. Holds(toCenter', {"event"}, r) => Holds(toCenter, {"event"}, r) \/ Matches(n, {"event"}, r)
      BY <2>2 DEF OneMore
    <3>4. Once(toCenter', {"event"}, r)
      BY <2>2, <3>1, <3>2 DEF OneMore, EventInv
    <3> QED
      BY <3>1, <3>3, <3>4 DEF HasEvent
  <2> QED
    BY <2>1, <2>2, EdgeWrites
<1>4. ASSUME NEW r \in Requests, EdgeEmit(r)
      PROVE  /\ est'[r] \notin Before /\ ~past'[r]
             /\ ~IsBusy(r) /\ ~HasAck(r)
  BY <1>4 DEF EdgeEmit, Before, EventInv, TypeOK, EdgeType
<1>5. ASSUME NEW r \in Requests, EdgeReceiveAck, Head(toEdge[econn]).req = r
      PROVE  /\ HasAck(r) /\ ~HasAck(r)' /\ UNCHANGED persisted
             /\ est[r] = "ackwait" => est'[r] = "running"
  <2> DEFINE m == Head(toEdge[econn])
  <2>1. /\ econn \in Conns /\ m \in Frames /\ Carries(toEdge, m) /\ m.type = "ack"
    BY <1>5, EdgeFrameRead DEF EdgeReceiveAck
  <2>2. /\ toEdge \in Channels /\ toEdge[econn] # <<>> /\ toEdge' = [toEdge EXCEPT ![econn] = Tail(@)]
    BY <1>5 DEF EdgeReceiveAck, EdgeReceiving, TypeOK, WireType, Channels
  <2>3. Matches(m, {"ack"}, r)
    BY <1>5, <2>1 DEF Matches
  <2>4. HasAck(r)
    BY <2>1, <2>3 DEF HasAck, Holds
  <2>5. Once(toEdge, {"ack"}, r)
    BY DEF EventInv
  <2>6. ~Holds(toEdge', {"ack"}, r)
    BY <2>1, <2>2, <2>3, <2>5, ReadFrame
  <2> QED
    BY <1>5, <2>4, <2>6 DEF HasAck, EdgeReceiveAck, TypeOK, EdgeType
<1>6. ASSUME NEW r \in Requests
      PROVE  /\ est'[r] \in Before => ~HasEvent(r)' /\ ~IsBusy(r)' /\ ~HasAck(r)'
             /\ ~(HasEvent(r)' /\ IsBusy(r)') /\ ~(HasEvent(r)' /\ HasAck(r)')
             /\ ~(IsBusy(r)' /\ HasAck(r)')
             /\ est'[r] = "ackwait" /\ HasAck(r)' => persisted'[r]
             /\ past'[r] => persisted'[r]
  <2> USE <1>1, <1>2, <1>3 DEF EventInv, EvidenceBeforeCleanup
  <2>1. CASE EdgeEmit(r)
    BY <1>4, <2>1
  <2>2. CASE EdgeReceiveAck /\ Head(toEdge[econn]).req = r /\ est[r] = "ackwait"
    <3>1. /\ HasAck(r) /\ ~HasAck(r)' /\ est'[r] = "running" /\ persisted'[r] = persisted[r]
      BY <1>5, <2>2
    <3>2. ~EdgeEmit(r)
      BY <2>2 DEF EdgeEmit
    <3> QED
      BY <2>2, <3>1, <3>2
  <2>3. CASE ~EdgeEmit(r) /\ (EdgeReceiveAck => Head(toEdge[econn]).req # r \/ est[r] # "ackwait")
    <3>1. /\ est'[r] \in Before => est[r] \in Before
          /\ est'[r] = "ackwait" => est[r] = "ackwait"
          /\ past'[r] = past[r] /\ persisted'[r] = persisted[r]
      BY <2>3, EdgeQuiet
    <3> QED
      BY <2>3, <3>1 DEF Before
  <2> QED
    BY <2>1, <2>2, <2>3
<1> QED
  BY <1>1, <1>2, <1>3, <1>6 DEF EventInv, EvidenceBeforeCleanup, Before

-----------------------------------------------------------------------------
(* The invariant *)

LEMMA GatewayInit == Init => GatewayInv
<1> SUFFICES ASSUME Init
             PROVE  GatewayInv
  OBVIOUS
<1>1. \A w \in Conns : toEdge[w] = <<>> /\ toCenter[w] = <<>> /\ busy[w] = <<>>
  BY DEF Init
<1>2. /\ \A m : ~Carries(toEdge, m) /\ ~Carries(toCenter, m)
      /\ \A T, r : Once(toEdge, T, r) /\ Once(toCenter, T, r)
      /\ \A T, r : ~Holds(toEdge, T, r) /\ ~Holds(toCenter, T, r)
  <2>1. \A w \in Conns : 1..Len(toEdge[w]) = {} /\ 1..Len(toCenter[w]) = {}
    BY <1>1
  <2>2. \A m : ~Carries(toEdge, m) /\ ~Carries(toCenter, m)
    BY <2>1 DEF Carries
  <2>3. \A T, r : Once(toEdge, T, r) /\ Once(toCenter, T, r)
    BY <2>1 DEF Once
  <2> QED
    BY <2>2, <2>3 DEF Holds
<1>3. WireType
  BY EmptySeq DEF Init, WireType, Conns
<1>4. LinkType
  BY EmptySeq DEF Init, LinkType
<1>5. CallType /\ KeepType
  BY DEF Init, CallType, KeepType, Kinds, CallPoints, Reasons, FutureValues, TerminalValues, Outcomes
<1>6. ProbeType /\ EdgeType
  BY DEF Init, ProbeType, EdgeType, Statuses, TaskPoints, Results
<1>7. CallInv /\ ProbeInv /\ EdgeInv /\ EvidenceInv /\ EvidenceBeforeCleanup
  BY DEF Init, CallInv, ProbeInv, EdgeInv, EvidenceInv, EvidenceBeforeCleanup, Confirmed, Answering
<1>8. StartInv /\ FrameInv
  BY <1>2 DEF Init, StartInv, FrameInv
<1>9. EventInv
  BY <1>1, <1>2 DEF Init, EventInv, HasEvent, HasAck, IsBusy, BusyWith
<1> QED
  BY <1>3, <1>4, <1>5, <1>6, <1>7, <1>8, <1>9 DEF GatewayInv, TypeOK

LEMMA GatewayStep == GatewayInv /\ [Next]_vars => GatewayInv'
<1> SUFFICES ASSUME GatewayInv, [Next]_vars
             PROVE  GatewayInv'
  OBVIOUS
<1> USE DEF GatewayInv
<1>1. TypeOK'
  BY TypeStep
<1>2. CASE Next
  <2>1. StartInv' /\ FrameInv' /\ EvidenceInv'
    BY <1>2, StartStep, FrameStep, EvidenceStep
  <2>2. CASE CenterNext
    <3>1. EdgeInv'
      BY <2>2, CenterKeepsEdge, Parts DEF EdgeInv, Over
    <3> QED
      BY <1>1, <2>1, <2>2, <3>1, DispatchStep, ProbeStep, CenterEventStep
  <2>3. CASE EdgeNext
    <3>1. CallInv' /\ ProbeInv'
      BY <2>3, EdgeKeepsCenter, Parts DEF CallInv, ProbeInv
    <3> QED
      BY <1>1, <2>1, <2>3, <3>1, EdgeTaskStep, EdgeEventStep
  <2> QED
    BY <1>2, <2>2, <2>3 DEF Next
<1>3. CASE UNCHANGED vars
  <2>1. /\ UNCHANGED <<wireVars, callVars, linkVars, keepVars, probeVars, edgeVars>>
        /\ UNCHANGED <<persisted, restarts>>
    BY <1>3 DEF vars
  <2>2. CallInv' /\ ProbeInv' /\ EdgeInv' /\ EvidenceBeforeCleanup'
    BY <2>1, Parts DEF CallInv, ProbeInv, EdgeInv, EvidenceBeforeCleanup, Over
  <2>3. StartInv' /\ FrameInv' /\ EvidenceInv'
    BY <2>1, Parts DEF StartInv, FrameInv, EvidenceInv, WasSent, Over
  <2>4. EventInv'
    BY <2>1, Parts DEF EventInv, HasEvent, HasAck, IsBusy, BusyWith
  <2> QED
    BY <1>1, <2>2, <2>3, <2>4
<1> QED
  BY <1>2, <1>3

\* The inductive invariant holds for every number of requests, probes,
\* connections, breaks and restarts.
THEOREM GatewayInvariant == Spec => []GatewayInv
<1> QED
  BY GatewayInit, GatewayStep, PTL DEF Spec

\* Every variable of the gateway, and every frame on the wire, keeps its type.
THEOREM GatewayTypes == Spec => []TypeOK
<1>1. GatewayInv => TypeOK
  BY DEF GatewayInv
<1> QED
  BY <1>1, GatewayInvariant, PTL

\* The edge passes a durable event (the doubao capture before its cleanup) only
\* when the centre's callback has consumed it: over broken connections, late
\* acknowledgements and restarts of either side.
THEOREM EventsConsumedFirst == Spec => []EvidenceBeforeCleanup
<1>1. GatewayInv => EvidenceBeforeCleanup
  BY DEF GatewayInv
<1> QED
  BY <1>1, GatewayInvariant, PTL

-----------------------------------------------------------------------------
(* The gateway implements RemoteTask *)

SameSent == \A r \in Requests : WasSent(r)' = WasSent(r)
SameExec == \A r \in Requests : Execution(r)' = Execution(r)
SameVerdict == \A r \in Requests : Verdict(r)' = Verdict(r)
SameProof == \A r \in Requests : HasProof(r)' = HasProof(r)

RemoteStep == Remote!RemoteNext \/ UNCHANGED Remote!remoteVars

LEMMA RemoteStutter ==
    ASSUME SameSent, SameExec, SameVerdict, SameProof
    PROVE  RemoteStep
<1>1. /\ [r \in Requests |-> WasSent(r)]' = [r \in Requests |-> WasSent(r)]
      /\ [r \in Requests |-> Execution(r)]' = [r \in Requests |-> Execution(r)]
      /\ [r \in Requests |-> Verdict(r)]' = [r \in Requests |-> Verdict(r)]
      /\ [r \in Requests |-> HasProof(r)]' = [r \in Requests |-> HasProof(r)]
  BY DEF SameSent, SameExec, SameVerdict, SameProof
<1> QED
  BY <1>1 DEF Remote!remoteVars, RemoteStep

\* The request leaves.
LEMMA RemoteSends ==
    ASSUME NEW r \in Requests, ~WasSent(r), Verdict(r) = "none", WasSent(r)',
           \A q \in Requests \ {r} : WasSent(q)' = WasSent(q),
           SameExec, SameVerdict, SameProof
    PROVE  RemoteStep
<1>1. /\ [q \in Requests |-> Execution(q)]' = [q \in Requests |-> Execution(q)]
      /\ [q \in Requests |-> Verdict(q)]' = [q \in Requests |-> Verdict(q)]
      /\ [q \in Requests |-> HasProof(q)]' = [q \in Requests |-> HasProof(q)]
  BY DEF SameExec, SameVerdict, SameProof
<1>2. [q \in Requests |-> WasSent(q)]' = [[q \in Requests |-> WasSent(q)] EXCEPT ![r] = TRUE]
  <2>1. WasSent(r)' = TRUE
    BY DEF WasSent
  <2> QED
    BY <2>1
<1>3. Remote!Send(r)
  BY <1>1, <1>2 DEF Remote!Send
<1> QED
  BY <1>3 DEF Remote!RemoteNext, RemoteStep

\* The execution of one request starts or stops.
LEMMA RemoteRuns ==
    ASSUME NEW r \in Requests, SameSent, SameVerdict, SameProof,
           \A q \in Requests \ {r} : Execution(q)' = Execution(q),
           \/ WasSent(r) /\ Execution(r) = "idle" /\ Execution(r)' = "live"
           \/ Execution(r) = "live" /\ Execution(r)' = "over"
    PROVE  RemoteStep
<1>1. /\ [q \in Requests |-> WasSent(q)]' = [q \in Requests |-> WasSent(q)]
      /\ [q \in Requests |-> Verdict(q)]' = [q \in Requests |-> Verdict(q)]
      /\ [q \in Requests |-> HasProof(q)]' = [q \in Requests |-> HasProof(q)]
  BY DEF SameSent, SameVerdict, SameProof
<1>2. CASE WasSent(r) /\ Execution(r) = "idle" /\ Execution(r)' = "live"
  <2>1. [q \in Requests |-> Execution(q)]' = [[q \in Requests |-> Execution(q)] EXCEPT ![r] = "live"]
    BY <1>2
  <2>2. Remote!Start(r)
    BY <1>1, <1>2, <2>1 DEF Remote!Start
  <2> QED
    BY <2>2 DEF Remote!RemoteNext, RemoteStep
<1>3. CASE Execution(r) = "live" /\ Execution(r)' = "over"
  <2>1. [q \in Requests |-> Execution(q)]' = [[q \in Requests |-> Execution(q)] EXCEPT ![r] = "over"]
    BY <1>3
  <2>2. Remote!Stop(r)
    BY <1>1, <1>3, <2>1 DEF Remote!Stop
  <2> QED
    BY <2>2 DEF Remote!RemoteNext, RemoteStep
<1> QED
  BY <1>2, <1>3

\* Requests that had not started are dropped.
LEMMA RemoteDrops ==
    ASSUME SameSent, SameVerdict, SameProof,
           \A r \in Requests : \/ Execution(r)' = Execution(r)
                               \/ WasSent(r) /\ Execution(r) = "idle" /\ Execution(r)' = "over"
    PROVE  RemoteStep
<1>1. /\ [q \in Requests |-> WasSent(q)]' = [q \in Requests |-> WasSent(q)]
      /\ [q \in Requests |-> Verdict(q)]' = [q \in Requests |-> Verdict(q)]
      /\ [q \in Requests |-> HasProof(q)]' = [q \in Requests |-> HasProof(q)]
  BY DEF SameSent, SameVerdict, SameProof
<1>2. PICK S \in SUBSET Requests : \A r \in Requests : r \in S <=> Execution(r)' # Execution(r)
  <2>1. {r \in Requests : Execution(r)' # Execution(r)} \in SUBSET Requests
    OBVIOUS
  <2> QED
    BY <2>1
<1>3. [r \in Requests |-> Execution(r)]'
        = [r \in Requests |-> IF r \in S THEN "over" ELSE [q \in Requests |-> Execution(q)][r]]
  BY <1>2
<1>4. Remote!Drop(S)
  BY <1>1, <1>2, <1>3 DEF Remote!Drop
<1> QED
  BY <1>4 DEF Remote!RemoteNext, RemoteStep

\* The caller gets its verdict.
LEMMA RemoteReturns ==
    ASSUME NEW r \in Requests, SameSent, SameExec, SameProof, Verdict(r) = "none",
           \A q \in Requests \ {r} : Verdict(q)' = Verdict(q),
           \/ Verdict(r)' = "unresolved"
           \/ Verdict(r)' = "settled" /\ (~WasSent(r) \/ Execution(r) = "over")
    PROVE  RemoteStep
<1>1. /\ [q \in Requests |-> WasSent(q)]' = [q \in Requests |-> WasSent(q)]
      /\ [q \in Requests |-> Execution(q)]' = [q \in Requests |-> Execution(q)]
      /\ [q \in Requests |-> HasProof(q)]' = [q \in Requests |-> HasProof(q)]
  BY DEF SameSent, SameExec, SameProof
<1>2. CASE Verdict(r)' = "unresolved"
  <2>1. [q \in Requests |-> Verdict(q)]'
          = [[q \in Requests |-> Verdict(q)] EXCEPT ![r] = "unresolved"]
    BY <1>2
  <2>2. Remote!GiveUp(r)
    BY <1>1, <2>1 DEF Remote!GiveUp
  <2> QED
    BY <2>2 DEF Remote!RemoteNext, RemoteStep
<1>3. CASE Verdict(r)' = "settled" /\ (~WasSent(r) \/ Execution(r) = "over")
  <2>1. [q \in Requests |-> Verdict(q)]' = [[q \in Requests |-> Verdict(q)] EXCEPT ![r] = "settled"]
    BY <1>3
  <2>2. Remote!Settle(r)
    BY <1>1, <1>3, <2>1 DEF Remote!Settle
  <2> QED
    BY <2>2 DEF Remote!RemoteNext, RemoteStep
<1> QED
  BY <1>2, <1>3

\* Proof of a request that is over is gained, or proofs are forgotten.
LEMMA RemoteLearns ==
    ASSUME NEW r \in Requests, SameSent, SameExec, SameVerdict, Execution(r) = "over",
           \A q \in Requests \ {r} : HasProof(q)' = HasProof(q), HasProof(r)'
    PROVE  RemoteStep
<1>1. /\ [q \in Requests |-> WasSent(q)]' = [q \in Requests |-> WasSent(q)]
      /\ [q \in Requests |-> Execution(q)]' = [q \in Requests |-> Execution(q)]
      /\ [q \in Requests |-> Verdict(q)]' = [q \in Requests |-> Verdict(q)]
  BY DEF SameSent, SameExec, SameVerdict
<1>2. [q \in Requests |-> HasProof(q)]' = [[q \in Requests |-> HasProof(q)] EXCEPT ![r] = TRUE]
  <2>1. HasProof(r)' = TRUE
    BY DEF HasProof
  <2> QED
    BY <2>1
<1>3. Remote!Learn(r)
  BY <1>1, <1>2 DEF Remote!Learn
<1> QED
  BY <1>3 DEF Remote!RemoteNext, RemoteStep

LEMMA RemoteForgets ==
    ASSUME SameSent, SameExec, SameVerdict, \A r \in Requests : HasProof(r)' => HasProof(r)
    PROVE  RemoteStep
<1>1. /\ [q \in Requests |-> WasSent(q)]' = [q \in Requests |-> WasSent(q)]
      /\ [q \in Requests |-> Execution(q)]' = [q \in Requests |-> Execution(q)]
      /\ [q \in Requests |-> Verdict(q)]' = [q \in Requests |-> Verdict(q)]
  BY DEF SameSent, SameExec, SameVerdict
<1>2. PICK S \in SUBSET Requests : \A r \in Requests : r \in S <=> ~HasProof(r)'
  <2>1. {r \in Requests : ~HasProof(r)'} \in SUBSET Requests
    OBVIOUS
  <2> QED
    BY <2>1
<1>3. \A r \in Requests : HasProof(r)' = (HasProof(r) /\ r \notin S)
  BY <1>2 DEF HasProof
<1>4. [r \in Requests |-> HasProof(r)]'
        = [r \in Requests |-> [q \in Requests |-> HasProof(q)][r] /\ r \notin S]
  BY <1>3
<1>5. Remote!Forget(S)
  BY <1>1, <1>4 DEF Remote!Forget
<1> QED
  BY <1>5 DEF Remote!RemoteNext, RemoteStep

LEMMA RemoteEdgeStep ==
    ASSUME GatewayInv, EdgeNext
    PROVE  RemoteStep
<1> USE DEF GatewayInv, TypeOK, EdgeType
<1>1. SameSent /\ SameVerdict /\ SameProof
  <2>1. UNCHANGED <<kind, pc, outcome, retVal, ptask, pres>>
    BY EdgeKeepsCenter, Parts
  <2> QED
    BY <2>1 DEF SameSent, SameVerdict, SameProof, WasSent, Verdict, HasProof
<1>2. SameExec => RemoteStep
  BY <1>1, RemoteStutter
<1>3. \A r \in Requests : est[r] \in {"none", "created"} => ~native[r] /\ Execution(r) = "idle"
  BY DEF EdgeInv, Execution
<1>4. \A r \in Requests : est[r] # "none" => WasSent(r)
  BY DEF StartInv
<1>5. CASE EdgeConnect \/ EdgeLose \/ EdgeReceiveStatus
  <2>1. UNCHANGED <<est, native>>
    BY <1>5, Parts DEF EdgeConnect, EdgeLose, EdgeReceiveStatus
  <2> QED
    BY <1>2, <2>1 DEF SameExec, Execution
\* The edge sweeps its tasks, or restarts: those that had not begun never will.
<1>6. ASSUME UNCHANGED native,
             \A r \in Requests : /\ est'[r] = "none" <=> est[r] = "none"
                                 /\ est'[r] = "created" => est[r] = "created"
      PROVE  RemoteStep
  <2>1. ASSUME NEW r \in Requests
        PROVE  \/ Execution(r)' = Execution(r)
               \/ WasSent(r) /\ Execution(r) = "idle" /\ Execution(r)' = "over"
    <3>1. CASE est[r] # "created" \/ est'[r] = "created"
      BY <1>6, <3>1 DEF Execution
    <3>2. CASE est[r] = "created" /\ est'[r] # "created"
      <4>1. ~native'[r] /\ est'[r] \notin {"none", "created"}
        BY <1>3, <1>6, <3>2
      <4> QED
        BY <1>3, <1>4, <3>2, <4>1 DEF Execution
    <3> QED
      BY <3>1, <3>2
  <2> QED
    BY <1>1, <2>1, RemoteDrops
<1>7. CASE EdgeSweep
  <2>1. /\ UNCHANGED native
        /\ \A r \in Requests : est'[r] = IF kind[r] = "collect" THEN est[r] ELSE AfterCancel(r)
    BY <1>7 DEF EdgeSweep
  <2> QED
    BY <1>6, <2>1, Cancelled
<1>8. CASE EdgeRestart
  <2>1. /\ UNCHANGED native
        /\ \A r \in Requests : est'[r] = IF est[r] = "none" THEN "none" ELSE "ended"
    BY <1>8 DEF EdgeRestart
  <2> QED
    BY <1>6, <2>1
<1>9. CASE EdgeReceiveCancel
  <2> DEFINE q == Head(toEdge[econn]).req
  <2>1. q \in Requests /\ UNCHANGED native
    BY <1>9, EdgeFrameRead DEF EdgeReceiveCancel
  <2>2. \/ est' = est \/ (est[q] = "running" /\ est' = [est EXCEPT ![q] = "closing"])
        \/ est' = [est EXCEPT ![q] = AfterCancel(q)]
    BY <1>9 DEF EdgeReceiveCancel
  <2> HIDE DEF q
  <2>3. \A r \in Requests : /\ est'[r] = "none" <=> est[r] = "none"
                            /\ est'[r] = "created" => est[r] = "created"
    BY <2>1, <2>2, Cancelled
  <2> QED
    BY <1>6, <2>1, <2>3
<1>10. CASE EdgeReceiveTask
  <2>1. PICK q \in Requests : q = Head(toEdge[econn]).req /\ est[q] = "none"
    BY <1>10, StartsOnce DEF EdgeReceiveTask, Starting
  <2>2. est' = [est EXCEPT ![q] = "created"] /\ UNCHANGED native
    BY <1>10, <2>1 DEF EdgeReceiveTask
  <2> QED
    BY <1>2, <2>1, <2>2 DEF SameExec, Execution
<1>11. CASE EdgeReceiveCollect
  <2>1. PICK q \in Requests : q = Head(toEdge[econn]).req /\ est[q] = "none" /\ WasSent(q)
    BY <1>11, StartsOnce DEF EdgeReceiveCollect, Starting
  <2>2. est' = [est EXCEPT ![q] = "running"] /\ native' = [native EXCEPT ![q] = TRUE]
    BY <1>11, <2>1 DEF EdgeReceiveCollect
  <2>3. \A r \in Requests \ {q} : Execution(r)' = Execution(r)
    BY <2>2 DEF Execution
  <2>4. Execution(q) = "idle" /\ Execution(q)' = "live"
    BY <2>1, <2>2 DEF Execution
  <2> QED
    BY <1>1, <2>1, <2>3, <2>4, RemoteRuns
<1>12. CASE EdgeReceiveAck
  <2>1. PICK q \in Requests : q = Head(toEdge[econn]).req
    BY <1>12, EdgeFrameRead DEF EdgeReceiveAck
  <2>2. /\ est' = est \/ (est[q] = "ackwait" /\ est' = [est EXCEPT ![q] = "running"])
        /\ UNCHANGED native
    BY <1>12, <2>1 DEF EdgeReceiveAck
  <2> QED
    BY <1>2, <2>2 DEF SameExec, Execution
<1>13. ASSUME NEW r \in Requests, EdgeBegin(r)
       PROVE  RemoteStep
  <2>1. CASE est' = [est EXCEPT ![r] = "running"] /\ native' = [native EXCEPT ![r] = TRUE]
    <3>1. \A q \in Requests \ {r} : Execution(q)' = Execution(q)
      BY <2>1 DEF Execution
    <3>2. WasSent(r) /\ Execution(r) = "idle" /\ Execution(r)' = "live"
      BY <1>3, <1>4, <1>13, <2>1 DEF Execution, EdgeBegin
    <3> QED
      BY <1>1, <3>1, <3>2, RemoteRuns
  <2>2. CASE est' = [est EXCEPT ![r] = "sending"] /\ UNCHANGED native
    BY <1>6, <1>13, <2>2 DEF EdgeBegin
  <2> QED
    BY <1>13, <2>1, <2>2 DEF EdgeBegin
<1>14. ASSUME NEW r \in Requests,
              \/ EdgeEmit(r) \/ EdgeIterationEnds(r) \/ EdgeSend(r) \/ EdgeFlushed(r)
              \/ EdgeExpire(r)
       PROVE  RemoteStep
  <2>1. UNCHANGED native /\ \/ UNCHANGED est
                            \/ /\ est[r] \notin {"none", "created"}
                               /\ \/ est' = [est EXCEPT ![r] = "ackwait"]
                                  \/ est' = [est EXCEPT ![r] = "closing"]
                                  \/ est' = [est EXCEPT ![r] = "flushing"]
                                  \/ est' = [est EXCEPT ![r] = "ended"]
    BY <1>14 DEF EdgeEmit, EdgeIterationEnds, EdgeSend, EdgeFlushed, EdgeExpire
  <2> QED
    BY <1>2, <2>1 DEF SameExec, Execution
<1>15. ASSUME NEW r \in Requests, EdgeClose(r) \/ NativeExit(r)
       PROVE  RemoteStep
  <2>1. /\ est[r] \notin {"none", "created"} /\ est'[r] \notin {"none", "created"}
        /\ \A q \in Requests \ {r} : est'[q] = est[q] /\ native'[q] = native[q]
        /\ native'[r] = native[r] \/ native'[r] = FALSE
    BY <1>15 DEF EdgeClose, NativeExit
  <2>2. \A q \in Requests \ {r} : Execution(q)' = Execution(q)
    BY <2>1 DEF Execution
  <2>3. CASE Execution(r)' = Execution(r)
    BY <1>2, <2>2, <2>3 DEF SameExec
  <2>4. CASE Execution(r)' # Execution(r)
    <3>1. Execution(r) = "live" /\ Execution(r)' = "over"
      BY <2>1, <2>4 DEF Execution
    <3> QED
      BY <1>1, <2>2, <3>1, RemoteRuns
  <2> QED
    BY <2>3, <2>4
<1> QED
  BY <1>5, <1>7, <1>8, <1>9, <1>10, <1>11, <1>12, <1>13, <1>14, <1>15 DEF EdgeNext

LEMMA RemoteCenterStep ==
    ASSUME GatewayInv, CenterNext
    PROVE  RemoteStep
<1> USE DEF GatewayInv, TypeOK, CallType, KeepType, ProbeType
<1>1. SameExec
  BY CenterKeepsEdge, Parts DEF SameExec, Execution
<1>2. \A r : Over(r) => Execution(r) = "over"
  BY DEF Over, Execution
<1>3. /\ UNCHANGED <<pc, outcome>> => SameSent
      /\ UNCHANGED <<kind, outcome>> => SameVerdict
      /\ UNCHANGED <<retVal, ptask, pres>> => SameProof
  BY DEF SameSent, SameVerdict, SameProof, WasSent, Verdict, HasProof
<1>4. ASSUME NEW w \in Conns,
             \/ Register(w) \/ Disconnect(w) \/ WireBreak(w) \/ ReceiveCollectResult(w)
             \/ ReceiveEvent(w) \/ EventPersisted(w) \/ EventFails(w) \/ ReceiveStatus(w)
      PROVE  RemoteStep
  <2>1. UNCHANGED <<pc, outcome, kind, retVal, ptask, pres>>
    BY <1>4, Parts DEF Register, Disconnect, WireBreak, ReceiveCollectResult, ReceiveEvent,
       EventPersisted, EventFails, ReceiveStatus
  <2> QED
    BY <1>1, <1>3, <2>1, RemoteStutter
<1>5. ASSUME NEW w \in Conns, ReceiveAgentResult(w)
      PROVE  RemoteStep
  <2>1. PICK q \in Requests : q = Head(toCenter[w]).req
    BY <1>5, FrameRead DEF ReceiveAgentResult
  <2>2. Head(toCenter[w]).val \in Confirmed => Over(q)
    BY <1>5, <2>1, FrameRead DEF ReceiveAgentResult, FrameInv
  <2>3. \/ retVal' = retVal
        \/ /\ retVal' = [retVal EXCEPT ![q] = Head(toCenter[w]).val]
           /\ Head(toCenter[w]).val \in Confirmed
    BY <1>5, <2>1 DEF ReceiveAgentResult
  <2>4. UNCHANGED <<pc, outcome, kind, ptask, pres>>
    BY <1>5, Parts DEF ReceiveAgentResult
  <2>5. CASE retVal' = retVal
    BY <1>1, <1>3, <2>4, <2>5, RemoteStutter
  <2>6. CASE retVal' # retVal
    <3>1. /\ \A r \in Requests \ {q} : retVal'[r] = retVal[r]
          /\ retVal'[q] \in Confirmed
      BY <2>3, <2>6
    <3>2. HasProof(q)' /\ \A r \in Requests \ {q} : HasProof(r)' = HasProof(r)
      BY <2>4, <3>1 DEF HasProof
    <3> QED
      BY <1>1, <1>2, <1>3, <2>2, <2>3, <2>4, <2>6, <3>2, RemoteLearns
  <2> QED
    BY <2>5, <2>6
\* The request is put on the wire.
<1>6. ASSUME NEW r \in Requests, pc[r] \in {"idle", "observing"},
             pc' = [pc EXCEPT ![r] = "waiting"], UNCHANGED <<outcome, ptask, pres>>,
             \A q \in Requests \ {r} : kind'[q] = kind[q] /\ retVal'[q] = retVal[q],
             retVal'[r] \in {retVal[r], "pending"}
      PROVE  RemoteStep
  <2>1. ~WasSent(r) /\ WasSent(r)' /\ \A q \in Requests \ {r} : WasSent(q)' = WasSent(q)
    BY <1>6 DEF WasSent
  <2>2. outcome[r] = "none"
    BY <1>6 DEF CallInv
  <2>3. Verdict(r) = "none" /\ SameVerdict
    BY <1>6, <2>2 DEF Verdict, SameVerdict
  <2>4. retVal[r] \notin Confirmed
    BY <2>1 DEF EvidenceInv, StartInv, Over
  <2>5. SameProof
    BY <1>6, <2>4 DEF SameProof, HasProof, Confirmed
  <2> QED
    BY <1>1, <2>1, <2>3, <2>5, RemoteSends
<1>7. ASSUME NEW r \in Requests, Observed(r) \/ \E k \in {"collect", "loose"} : Dispatch(r, k)
      PROVE  RemoteStep
  <2>1. /\ pc[r] \in {"idle", "observing"} /\ pc' = [pc EXCEPT ![r] = "waiting"]
        /\ UNCHANGED <<outcome, ptask, pres>>
    BY <1>7, Parts DEF Observed, Dispatch
  <2>2. /\ \A q \in Requests \ {r} : kind'[q] = kind[q] /\ retVal'[q] = retVal[q]
        /\ retVal'[r] \in {retVal[r], "pending"}
    BY <1>7, Parts DEF Observed, Dispatch
  <2> QED
    BY <1>6, <2>1, <2>2
<1>8. ASSUME NEW r \in Requests, DispatchStrict(r)
      PROVE  RemoteStep
  <2>1. /\ pc[r] = "idle" /\ pc' = [pc EXCEPT ![r] = "observing"]
        /\ kind' = [kind EXCEPT ![r] = "strict"]
        /\ UNCHANGED <<outcome, retVal, ptask, pres>>
    BY <1>8, Parts DEF DispatchStrict
  <2>2. outcome[r] = "none"
    BY <2>1 DEF CallInv
  <2>3. SameSent /\ SameVerdict
    BY <2>1, <2>2 DEF SameSent, SameVerdict, WasSent, Verdict
  <2> QED
    BY <1>1, <1>3, <2>1, <2>3, RemoteStutter
\* The dispatch returns.
<1>9. ASSUME NEW r \in Requests, NEW how, Return(r, how), how # "none",
             pc[r] \in {"observing", "waiting", "cancel", "cancelwait"},
             how = "notsent" <=> pc[r] = "observing",
             UNCHANGED <<retVal, ptask, pres>>,
             kind[r] = "strict" /\ how \in Confirmed \cup {"timeout", "aborted", "failed"} => Over(r)
      PROVE  RemoteStep
  <2>1. /\ pc' = [pc EXCEPT ![r] = "returned"] /\ outcome' = [outcome EXCEPT ![r] = how]
        /\ UNCHANGED kind
    BY <1>9 DEF Return
  <2>2. outcome[r] = "none"
    BY <1>9 DEF CallInv
  <2>3. Verdict(r) = "none" /\ \A q \in Requests \ {r} : Verdict(q)' = Verdict(q)
    BY <2>1, <2>2 DEF Verdict
  <2>4. SameSent
    BY <1>9, <2>1 DEF SameSent, WasSent
  <2>5. Verdict(r)' = IF kind[r] = "strict" /\ how \in SettledOutcomes THEN "settled" ELSE "unresolved"
    BY <1>9, <2>1 DEF Verdict
  <2>6. Verdict(r)' = "settled" => ~WasSent(r) \/ Execution(r) = "over"
    BY <1>2, <1>9, <2>5 DEF SettledOutcomes, WasSent
  <2> QED
    BY <1>1, <1>3, <1>9, <2>3, <2>4, <2>5, <2>6, RemoteReturns
\* It moves on without returning.
<1>10. ASSUME NEW r \in Requests, pc[r] \in {"waiting", "cancel"},
              pc' = [pc EXCEPT ![r] = "cancel"] \/ pc' = [pc EXCEPT ![r] = "cancelwait"],
              UNCHANGED <<kind, outcome, retVal, ptask, pres>>
       PROVE  RemoteStep
  <2>1. SameSent
    BY <1>10 DEF SameSent, WasSent
  <2> QED
    BY <1>1, <1>3, <1>10, <2>1, RemoteStutter
<1>11. ASSUME NEW r \in Requests, ObserverFails(r)
       PROVE  RemoteStep
  <2>1. pc[r] = "observing" /\ Return(r, "notsent") /\ UNCHANGED <<retVal, ptask, pres>>
    BY <1>11, Parts DEF ObserverFails
  <2> QED
    BY <1>9, <2>1 DEF Confirmed
<1>12. ASSUME NEW r \in Requests, Awaited(r)
       PROVE  RemoteStep
  <2>1. pc[r] = "waiting" /\ UNCHANGED <<retVal, ptask, pres>>
    BY <1>12, Parts DEF Awaited
  <2>2. fut[r] \notin {"none", "notsent"}
    BY <2>1 DEF CallInv, FutureValues, Confirmed
  <2>3. CASE kind[r] = "strict" /\ Return(r, fut[r]) /\ fut[r] \in Confirmed
    BY <1>9, <2>1, <2>2, <2>3 DEF EvidenceInv
  <2>4. CASE \E reason : Cancelling(r, reason)
    BY <1>10, <2>1, <2>4 DEF Cancelling
  <2>5. CASE kind[r] # "strict" /\ Return(r, IF fut[r] = "raised" THEN "failed" ELSE fut[r])
    BY <1>9, <2>1, <2>2, <2>5
  <2> QED
    BY <1>12, <2>3, <2>4, <2>5 DEF Awaited
<1>13. ASSUME NEW r \in Requests, NEW reason \in {"timeout", "aborted", "failed"},
              Interrupted(r, reason)
       PROVE  RemoteStep
  <2>1. pc[r] = "waiting" /\ UNCHANGED <<retVal, ptask, pres>>
    BY <1>13, Parts DEF Interrupted
  <2>2. CASE kind[r] = "strict" /\ Cancelling(r, reason)
    BY <1>10, <2>1, <2>2 DEF Cancelling
  <2>3. CASE kind[r] # "strict" /\ Return(r, reason)
    BY <1>9, <2>1, <2>3
  <2> QED
    BY <1>13, <2>2, <2>3 DEF Interrupted
<1>14. ASSUME NEW r \in Requests, CancelConfirmed(r) \/ CancelAwaited(r)
       PROVE  RemoteStep
  <2>1. pc[r] \in {"cancel", "cancelwait"} /\ UNCHANGED <<retVal, ptask, pres>>
    BY <1>14, Parts DEF CancelConfirmed, CancelAwaited
  <2>2. /\ terminal[r] \in Confirmed \cup {"pending", "unresolved"}
        /\ why[r] \in {"timeout", "aborted", "failed", "unconfirmed"}
    BY <2>1 DEF CallInv, TerminalValues, Reasons
  <2>3. CASE terminal[r] # "pending" /\ Return(r, Resolved(r))
    <3>1. Resolved(r) \notin {"none", "notsent"}
      BY <2>2, <2>3 DEF Resolved, Confirmed
    <3>2. Resolved(r) # "unresolved" => terminal[r] \in Confirmed
      BY <2>2, <2>3 DEF Resolved
    <3>3. "unresolved" \notin Confirmed \cup {"timeout", "aborted", "failed"}
      BY DEF Confirmed
    <3>4. Resolved(r) \in Confirmed \cup {"timeout", "aborted", "failed"} => Over(r)
      BY <3>2, <3>3 DEF EvidenceInv
    <3> QED
      BY <1>9, <2>1, <2>3, <3>1, <3>4
  <2>4. CASE Return(r, "unresolved")
    BY <1>9, <2>1, <2>4 DEF Confirmed
  <2>5. CASE /\ pc[r] = "cancel" /\ pc' = [pc EXCEPT ![r] = "cancelwait"]
             /\ UNCHANGED <<kind, outcome>>
    BY <1>10, <2>1, <2>5
  <2> QED
    BY <1>14, <2>3, <2>4, <2>5 DEF CancelConfirmed, CancelAwaited
<1>15. ASSUME NEW r \in Requests, PruneRetained(r)
       PROVE  RemoteStep
  <2>1. retVal' = [retVal EXCEPT ![r] = "none"] /\ UNCHANGED <<pc, outcome, kind, ptask, pres>>
    BY <1>15, Parts DEF PruneRetained
  <2>2. \A q \in Requests : HasProof(q)' => HasProof(q)
    BY <2>1 DEF HasProof, Confirmed
  <2> QED
    BY <1>1, <1>3, <2>1, <2>2, RemoteForgets
<1>16. ASSUME NEW p \in Probes, NEW r \in Requests, ProbeTask(p, r)
       PROVE  RemoteStep
  <2>1. /\ UNCHANGED <<pc, outcome, kind, retVal>>
        /\ \A q \in Probes \ {p} : ptask'[q] = ptask[q] /\ pres'[q] = pres[q]
        /\ pres[p] = "none" /\ pres'[p] \in {"none", "unresolved"}
    BY <1>16, Parts DEF ProbeTask, ProbeInv
  <2>2. SameProof
    BY <2>1 DEF SameProof, HasProof, Confirmed
  <2> QED
    BY <1>1, <1>3, <2>1, <2>2, RemoteStutter
<1>17. ASSUME NEW p \in Probes, ProbeReturns(p)
       PROVE  RemoteStep
  <2>1. UNCHANGED <<pc, outcome, kind, retVal, ptask>>
    BY <1>17, Parts DEF ProbeReturns
  <2>2. /\ \A q \in Probes \ {p} : pres'[q] = pres[q]
        /\ pres[p] = "none" /\ pres'[p] \in {pfut[p], "unresolved"}
    BY <1>17 DEF ProbeReturns, ProbeInv
  <2>3. CASE pres'[p] \notin Confirmed
    <3>1. SameProof
      BY <2>1, <2>2, <2>3 DEF SameProof, HasProof, Confirmed
    <3> QED
      BY <1>1, <1>3, <2>1, <3>1, RemoteStutter
  <2>4. CASE pres'[p] \in Confirmed
    <3>1. PICK r \in Requests : r = ptask[p] /\ Over(r)
      BY <2>2, <2>4 DEF EvidenceInv, Confirmed
    <3>2. HasProof(r)' /\ \A q \in Requests \ {r} : HasProof(q)' = HasProof(q)
      BY <2>1, <2>2, <2>4, <3>1 DEF HasProof
    <3> QED
      BY <1>1, <1>2, <1>3, <2>1, <3>1, <3>2, RemoteLearns
  <2> QED
    BY <2>3, <2>4
<1>18. CASE CenterRestart
  <2>1. SameSent
    BY <1>18 DEF CenterRestart, SameSent, WasSent
  <2>2. SameVerdict
    BY <1>3, <1>18 DEF CenterRestart
  <2>3. \A q \in Requests : HasProof(q)' => HasProof(q)
    BY <1>18 DEF CenterRestart, HasProof, Confirmed
  <2> QED
    BY <1>1, <2>1, <2>2, <2>3, RemoteForgets
<1>19. ASSUME NEW w \in Conns,
              \/ Register(w) \/ Disconnect(w) \/ WireBreak(w)
              \/ ReceiveCollectResult(w) \/ ReceiveAgentResult(w) \/ ReceiveEvent(w)
              \/ EventPersisted(w) \/ EventFails(w) \/ ReceiveStatus(w)
       PROVE  RemoteStep
  BY <1>4, <1>5, <1>19
<1>20. ASSUME NEW r \in Requests,
              \/ Dispatch(r, "collect") \/ Dispatch(r, "loose") \/ DispatchStrict(r)
              \/ Observed(r) \/ ObserverFails(r) \/ Awaited(r) \/ Interrupted(r, "timeout")
              \/ Interrupted(r, "aborted") \/ Interrupted(r, "failed")
              \/ CancelConfirmed(r) \/ CancelAwaited(r) \/ PruneRetained(r)
       PROVE  RemoteStep
  BY <1>7, <1>8, <1>11, <1>12, <1>13, <1>14, <1>15, <1>20
<1> QED
  BY <1>16, <1>17, <1>18, <1>19, <1>20 DEF CenterNext

\* The gateway implements RemoteTask: whatever is lost, broken or restarted, a
\* strict dispatch that returns a result, a timeout, the cancellation or an
\* exception, and a proof that is retained or answered to a probe, are about an
\* execution that has ended and cannot start again, or that was never sent.
THEOREM GatewayImplementsRemote == Spec => ImplementsRemoteTask
<1>1. Init => Remote!RemoteInit
  <2> SUFFICES ASSUME Init
               PROVE  Remote!RemoteInit
    OBVIOUS
  <2>1. \A r \in Requests : /\ WasSent(r) = FALSE /\ Execution(r) = "idle"
                            /\ Verdict(r) = "none" /\ HasProof(r) = FALSE
    BY DEF Init, WasSent, Execution, Verdict, HasProof, Confirmed
  <2> QED
    BY <2>1 DEF Remote!RemoteInit
<1>2. GatewayInv /\ [Next]_vars => [Remote!RemoteNext]_(Remote!remoteVars)
  <2> SUFFICES ASSUME GatewayInv, [Next]_vars
               PROVE  RemoteStep
    BY DEF RemoteStep
  <2>1. CASE Next
    BY <2>1, RemoteCenterStep, RemoteEdgeStep DEF Next
  <2>2. CASE UNCHANGED vars
    <3>1. UNCHANGED <<est, native, kind, pc, outcome, retVal, ptask, pres>>
      BY <2>2, Parts DEF vars
    <3>2. SameSent /\ SameExec /\ SameVerdict /\ SameProof
      BY <3>1 DEF SameSent, SameExec, SameVerdict, SameProof, WasSent, Execution, Verdict, HasProof
    <3> QED
      BY <3>2, RemoteStutter
  <2> QED
    BY <2>1, <2>2
<1> QED
  BY <1>1, <1>2, GatewayInvariant, PTL DEF Spec, ImplementsRemoteTask, Remote!RemoteSpec

=============================================================================
