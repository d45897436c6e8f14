------------------------- MODULE EvidenceBatchProofs -------------------------
(***************************************************************************)
(* Proofs about EvidenceBatch for any number of calls, keys, reports and   *)
(* receipts: retained facts and revisions stand, a final status is backed  *)
(* by the facts it was made from, an answer is as new as its call, and     *)
(* plain calls do not give a second opinion on the same facts.             *)
(***************************************************************************)
EXTENDS EvidenceBatch, SequenceTheorems, FiniteSetTheorems, TLAPS

USE EvidenceAssumption

-----------------------------------------------------------------------------
(* The inductive invariant *)

LockedPCs == {"report_read", "receipts_read", "latest", "reconcile", "exact", "dlq", "page"}
QueryPCs == {"exact", "dlq", "page"}

Revisions == [status : Terminal \cup {"indeterminate"}, report : Reports \cup {NoFact},
              receipts : ReceiptMaps, present : SUBSET Keys, dlq : SUBSET Keys]

Locals == [fact : Reports \cup Outcomes \cup {NoFact}, id : ReceiptIds \cup {NoFact},
           force : BOOLEAN, began : (Reports \cup {NoFact}) \X ReceiptMaps,
           report : Reports \cup {NoFact}, receipts : ReceiptMaps,
           present : SUBSET Keys, dlq : SUBSET Keys, answer : Nat]

DataTypes ==
    /\ report \in Reports \cup {NoFact}
    /\ receipts \in ReceiptMaps
    /\ manifests \in Seq(Revisions) /\ Len(manifests) <= MaxRevisions
    /\ odp \in [Keys -> {"absent", "present", "dlq"}]

CallTypes ==
    /\ lock \in {{}} \cup {{h} : h \in Calls}
    /\ pc \in [Calls -> PCs]
    /\ local \in [Calls -> Locals]
    /\ \A h \in Calls :
          /\ local[h].answer \in 0..Len(manifests)
          /\ pc[h] \in LockedPCs <=> h \in lock
          /\ pc[h] = "report" => local[h].fact \in Reports
          /\ pc[h] = "receipt" => local[h].fact \in Outcomes /\ local[h].id \in ReceiptIds

\* The retained facts r and rs include those that were retained when a call began.
Sees(began, r, rs) ==
    /\ began[1] \in {NoFact, r}
    /\ \A i \in ReceiptIds : began[2][i] \in {NoFact, rs[i]}

\* What a call at p with locals l knows is retained, and includes what was
\* retained when it began.
Sight(p, l) ==
    /\ Sees(l.began, report, receipts)
    /\ p \in {"receipts_read", "latest", "reconcile"} \cup QueryPCs =>
          l.began[1] \in {NoFact, l.report}
    /\ p \in {"latest", "reconcile"} \cup QueryPCs => Sees(l.began, l.report, l.receipts)

\* ODP is asked about a report whose keys are of its source and whose receipts
\* can be joined, and what it has answered is still so.
Query(p, l) ==
    /\ p \in QueryPCs => /\ l.report # NoFact /\ l.report.keys \subseteq Keys
                         /\ Joinable(l.receipts, l.report.keys)
    /\ \A k \in l.present : odp[k] = "present"
    /\ \A k \in l.dlq : odp[k] # "absent"

Fresh(p, l) ==
    p = "answered" =>
        /\ l.answer \in DOMAIN manifests
        /\ Sees(l.began, manifests[l.answer].report, manifests[l.answer].receipts)

CallInv(p, l) == Sight(p, l) /\ Query(p, l) /\ Fresh(p, l)

BatchInv ==
    /\ DataTypes /\ CallTypes
    /\ FinalityIsBacked
    /\ \A h \in Calls : CallInv(pc[h], local[h])

\* Nothing that was retained, published or committed is taken back.
Grows ==
    /\ report # NoFact => report' = report
    /\ \A i \in ReceiptIds : receipts[i] # NoFact => receipts'[i] = receipts[i]
    /\ Len(manifests) <= Len(manifests')
    /\ \A n \in DOMAIN manifests : n \in DOMAIN manifests' /\ manifests'[n] = manifests[n]
    /\ \A k \in Keys : /\ odp[k] = "present" => odp'[k] = "present"
                       /\ odp[k] # "absent" => odp'[k] # "absent"

\* FinalityIsBacked, of one revision.
Rejecting(m, k) ==
    {i \in Retained(m.receipts) : k \in DOMAIN m.receipts[i] /\ m.receipts[i][k] = "rejected"}

Backed(m) ==
    /\ m.status \in Terminal => m.report # NoFact
    /\ m.status = "completed_empty" => m.report.keys = {}
    /\ m.status = "completed" =>
          \A k \in m.report.keys : k \in Keys /\ odp[k] = "present" /\ Rejecting(m, k) = {}
    /\ m.status = "partial" =>
          \A k \in m.report.keys :
              /\ k \in Keys
              /\ IF Rejecting(m, k) = {} THEN odp[k] # "absent"
                 ELSE Rejecting(m, k) = Retained(m.receipts)

-----------------------------------------------------------------------------
(* Sequences of revisions *)

\* Appending keeps the revisions there are.
LEMMA AppendGrows ==
    ASSUME NEW S, NEW s \in Seq(S), NEW e \in S
    PROVE  /\ Append(s, e) \in Seq(S) /\ Len(Append(s, e)) = Len(s) + 1
           /\ DOMAIN s = 1..Len(s) /\ DOMAIN Append(s, e) = 1..(Len(s) + 1)
           /\ \A n \in DOMAIN s : Append(s, e)[n] = s[n]
           /\ Append(s, e)[Len(s) + 1] = e
           /\ Last(Append(s, e)) = e
  BY LenProperties DEF Last

\* The sequence before an Append is a prefix of the one after it.
LEMMA AppendPrefix ==
    ASSUME NEW S, NEW s \in Seq(S), NEW e \in S
    PROVE  IsPrefix(s, Append(s, e))
<1>1. Len(s) \in Nat /\ Append(s, e) \in Seq(S) /\ Len(Append(s, e)) = Len(s) + 1
  BY LenProperties, AppendGrows
<1>2. SubSeq(s, 1, Len(s)) = s
  BY SubSeqFull
<1>3. SubSeq(Append(s, e), 1, Len(s)) = s
  <2> DEFINE t == SubSeq(Append(s, e), 1, Len(s))
  <2>1. \A i \in 1..Len(s) : Append(s, e)[i] \in S /\ Append(s, e)[i] = s[i]
    BY AppendGrows, ElementOfSeq
  <2>2. t \in Seq(S) /\ Len(t) = Len(s) /\ \A i \in 1..Len(s) : t[i] = s[i]
    BY <1>1, <2>1, SubSeqProperties
  <2> QED
    BY <2>2, SeqEqual
<1> QED
  BY <1>1, <1>2, <1>3 DEF IsPrefix

\* The last revision of a sequence that has one.
LEMMA LastRevision ==
    ASSUME NEW S, NEW s \in Seq(S), s # <<>>
    PROVE  Len(s) \in DOMAIN s /\ Last(s) = s[Len(s)] /\ Last(s) \in S
  BY LenProperties, EmptySeq, ElementOfSeq DEF Last

LEMMA BackedRevisions ==
    FinalityIsBacked <=> \A n \in DOMAIN manifests : Backed(manifests[n])
  BY DEF FinalityIsBacked, Backed, Rejecting

\* What backs a revision is not taken back.
LEMMA BackedStands ==
    ASSUME Grows, NEW m, Backed(m)
    PROVE  Backed(m)'
  BY DEF Grows, Backed, Rejecting

\* A new set of revisions is backed when the new ones are.
LEMMA RevisionsStep ==
    ASSUME Grows, FinalityIsBacked, \A n \in DOMAIN manifests' :
              n \in DOMAIN manifests \/ Backed(manifests'[n])
    PROVE  FinalityIsBacked'
<1>1. ASSUME NEW n \in DOMAIN manifests'
      PROVE  Backed(manifests[n])'
  <2>1. PICK m : m = manifests'[n] /\ Backed(m)
    BY BackedRevisions DEF Grows
  <2>2. Backed(m)'
    BY <2>1, BackedStands
  <2> QED
    BY <2>1, <2>2 DEF Backed, Rejecting
<1> QED
  BY <1>1 DEF FinalityIsBacked, Backed, Rejecting

-----------------------------------------------------------------------------
(* Steps of a call *)

\* What the receipt identities have at first.
LEMMA NoLocalsType ==
    /\ NoLocals \in Locals
    /\ [r \in ReceiptIds |-> NoFact] \in ReceiptMaps
    /\ NoLocals.began = <<NoFact, [r \in ReceiptIds |-> NoFact]>>
    /\ NoLocals.present = {} /\ NoLocals.dlq = {} /\ NoLocals.answer = 0
<1>1. [r \in ReceiptIds |-> NoFact] \in ReceiptMaps
  BY DEF ReceiptMaps
<1> QED
  BY <1>1 DEF NoLocals, Locals

\* A call that has read nothing.
LEMMA NoLocalsInv ==
    ASSUME NEW p \in {"idle", "report", "receipt"}, NEW l \in Locals,
           l.began = NoLocals.began, l.present = {}, l.dlq = {}
    PROVE  CallInv(p, l)
  BY NoLocalsType DEF CallInv, Sight, Query, Fresh, Sees, QueryPCs

\* What the other calls know stays so.
LEMMA CallStands ==
    ASSUME BatchInv, Grows, NEW p, NEW l \in Locals, CallInv(p, l)
    PROVE  CallInv(p, l)'
<1>1. Sees(l.began, report, receipts)'
  BY DEF CallInv, Sight, Sees, Grows
<1>2. Sight(p, l)'
  BY <1>1 DEF CallInv, Sight, Sees
<1>3. Query(p, l)'
  BY DEF CallInv, Query, Grows, Locals
<1>4. Fresh(p, l)'
  BY DEF CallInv, Fresh, Grows, Sees
<1> QED
  BY <1>2, <1>3, <1>4 DEF CallInv

\* One call moves on; it may take or give back the lock.
LEMMA MoveStep ==
    ASSUME BatchInv, Grows, NEW h \in Calls, NEW p \in PCs, NEW l \in Locals,
           pc' = [pc EXCEPT ![h] = p], local' = [local EXCEPT ![h] = l],
           \/ lock' = lock /\ (p \in LockedPCs <=> pc[h] \in LockedPCs)
           \/ lock' = lock \ {h} /\ p \notin LockedPCs
           \/ lock = {} /\ lock' = {h} /\ p \in LockedPCs,
           p = "report" => l.fact \in Reports,
           p = "receipt" => l.fact \in Outcomes /\ l.id \in ReceiptIds,
           l.answer \in 0..Len(manifests'),
           DataTypes', FinalityIsBacked', CallInv(p, l)'
    PROVE  BatchInv'
<1>0. CallTypes /\ Len(manifests) \in Nat /\ Len(manifests') \in Nat /\ Len(manifests) <= Len(manifests')
  BY LenProperties DEF BatchInv, DataTypes, Grows
<1>1. /\ pc'[h] = p /\ local'[h] = l
      /\ \A d \in Calls \ {h} : pc'[d] = pc[d] /\ local'[d] = local[d]
  BY <1>0 DEF CallTypes
<1>2. lock' \in {{}} \cup {{d} : d \in Calls}
  BY <1>0 DEF CallTypes
<1>3. \A d \in Calls : pc'[d] \in LockedPCs <=> d \in lock'
  BY <1>0, <1>1 DEF CallTypes
<1>4. pc' \in [Calls -> PCs] /\ local' \in [Calls -> Locals]
  BY <1>0 DEF CallTypes
<1>5. CallTypes'
  BY <1>0, <1>1, <1>2, <1>3, <1>4 DEF CallTypes
<1>6. ASSUME NEW d \in Calls
      PROVE  CallInv(pc[d], local[d])'
  <2>1. CASE d = h
    BY <1>1, <2>1 DEF CallInv, Sight, Query, Fresh
  <2>2. CASE d # h
    <3>1. PICK q \in PCs, m \in Locals : q = pc[d] /\ m = local[d] /\ CallInv(q, m)
      BY <1>0 DEF BatchInv, CallTypes
    <3>2. CallInv(q, m)'
      BY <3>1, CallStands
    <3>3. pc'[d] = q /\ local'[d] = m
      BY <1>1, <2>2, <3>1
    <3> QED
      BY <3>2, <3>3 DEF CallInv, Sight, Query, Fresh
  <2> QED
    BY <2>1, <2>2
<1> QED
  BY <1>5, <1>6 DEF BatchInv

\* The response is sent, or the process is gone.
LEMMA CloseStep ==
    ASSUME BatchInv, Grows, NEW h \in Calls, Close(h), DataTypes', FinalityIsBacked'
    PROVE  BatchInv'
<1>1. PICK l \in Locals : l = NoLocals
  BY NoLocalsType
<1>2. /\ l.began = NoLocals.began /\ l.present = {} /\ l.dlq = {} /\ l.answer = 0
      /\ pc' = [pc EXCEPT ![h] = "idle"] /\ local' = [local EXCEPT ![h] = l]
      /\ lock' = lock \ {h}
  BY <1>1, NoLocalsType DEF Close
<1>3. CallInv("idle", l)'
  <2>1. CallInv("idle", l)
    BY <1>2, NoLocalsInv
  <2> QED
    BY <2>1, CallStands
<1>4. "idle" \in PCs /\ "idle" \notin LockedPCs /\ l.answer \in 0..Len(manifests')
  <2>1. Len(manifests') \in Nat
    BY LenProperties DEF DataTypes
  <2> QED
    BY <1>2, <2>1 DEF PCs, LockedPCs
<1> QED
  BY <1>2, <1>3, <1>4, MoveStep

\* A call answers with a revision that is as new as it is.
LEMMA AnswerStep ==
    ASSUME BatchInv, Grows, NEW h \in Calls, NEW n \in DOMAIN manifests', Answer(h, n),
           DataTypes', FinalityIsBacked',
           Sees(local[h].began, manifests'[n].report, manifests'[n].receipts)
    PROVE  BatchInv'
<1> DEFINE new == [NoLocals EXCEPT !.began = local[h].began, !.answer = n]
<1>0. /\ local[h] \in Locals /\ local[h].began \in (Reports \cup {NoFact}) \X ReceiptMaps
  BY DEF BatchInv, CallTypes, Locals
<1>n. Len(manifests') \in Nat /\ n \in 1..Len(manifests') /\ n \in Nat
  BY LenProperties DEF DataTypes
<1>1. /\ new \in Locals /\ new.began = local[h].began /\ new.answer = n
      /\ new.present = {} /\ new.dlq = {}
  BY <1>0, <1>n, NoLocalsType DEF Locals
<1>2. PICK l \in Locals : l = new
  BY <1>1
<1>3. /\ l.began = local[h].began /\ l.answer = n /\ l.present = {} /\ l.dlq = {}
      /\ local' = [local EXCEPT ![h] = l]
      /\ pc' = [pc EXCEPT ![h] = "answered"] /\ lock' = lock \ {h}
  BY <1>1, <1>2 DEF Answer, Goto
<1> HIDE DEF new
<1>4. Sees(l.began, report, receipts)
  BY <1>3 DEF BatchInv, CallInv, Sight
<1>5. Sight("answered", l)'
  <2>1. Sees(l.began, report, receipts)'
    BY <1>4 DEF Sees, Grows
  <2> QED
    BY <2>1 DEF Sight, QueryPCs
<1>6. Query("answered", l)'
  BY <1>3 DEF Query, QueryPCs
<1>7. Fresh("answered", l)'
  BY <1>3 DEF Fresh
<1>8. "answered" \in PCs /\ "answered" \notin LockedPCs /\ l.answer \in 0..Len(manifests')
  BY <1>n, <1>3 DEF PCs, LockedPCs
<1> QED
  BY <1>3, <1>5, <1>6, <1>7, <1>8, MoveStep DEF CallInv

-----------------------------------------------------------------------------
(* What backs a final status *)

\* What _reconcile decides without ODP.
LEMMA OfflineResult ==
    ASSUME NEW l \in Locals
    PROVE  /\ Offline(l) \in {"indeterminate", "completed_empty", "query"}
           /\ Offline(l) = "completed_empty" => l.report # NoFact /\ l.report.keys = {}
           /\ Offline(l) = "query" => /\ l.report # NoFact /\ l.report.keys \subseteq Keys
                                      /\ Joinable(l.receipts, l.report.keys)
<1>1. CASE l.report = NoFact
  <2>1. Offline(l) = "indeterminate"
    BY <1>1 DEF Offline
  <2> QED
    BY <2>1
<1>2. CASE l.report # NoFact /\ l.report.keys \cap ForeignKeys # {}
  <2>1. Offline(l) = "indeterminate"
    BY <1>2 DEF Offline
  <2> QED
    BY <2>1
<1>3. CASE l.report # NoFact /\ l.report.keys = {}
  <2>1. Offline(l) \in {"indeterminate", "completed_empty"}
    BY <1>3 DEF Offline
  <2> QED
    BY <1>3, <2>1
<1>4. CASE l.report # NoFact /\ l.report.keys \cap ForeignKeys = {} /\ l.report.keys # {}
  <2>1. Offline(l) = IF Joinable(l.receipts, l.report.keys) THEN "query" ELSE "indeterminate"
    BY <1>4 DEF Offline
  <2>2. l.report \in Reports
    BY <1>4 DEF Locals
  <2>3. l.report.keys \subseteq Keys
    BY <1>4, <2>2
  <2> QED
    BY <1>4, <2>1, <2>3
<1> QED
  BY <1>1, <1>2, <1>3, <1>4

\* The end of _reconcile: every expected key is accounted for.
LEMMA ConclusionBacked ==
    ASSUME NEW l \in Locals, Query("page", l)
    PROVE  /\ Conclusion(l) \in Terminal \cup {"indeterminate"}
           /\ Backed(Revision(l, Conclusion(l)))
<1> DEFINE status == Conclusion(l)
           m == Revision(l, status)
           keys == l.report.keys
<1>1. /\ m.status = status /\ m.report = l.report /\ m.receipts = l.receipts
  BY DEF Revision
<1>2. /\ l.report # NoFact /\ keys \subseteq Keys /\ Joinable(l.receipts, keys)
      /\ \A k \in l.present : odp[k] = "present"
      /\ \A k \in l.dlq : odp[k] # "absent"
  BY DEF Query, QueryPCs
<1>3. status \in {"indeterminate", "partial", "completed"}
  BY DEF Conclusion
<1>4. ASSUME NEW k \in keys
      PROVE  /\ k \notin RejectedKeys(l.receipts, keys) => Rejecting(m, k) = {}
             /\ k \in RejectedKeys(l.receipts, keys) => Rejecting(m, k) = Retained(l.receipts)
  <2>1. \A i \in Retained(l.receipts) : k \in DOMAIN l.receipts[i]
    BY <1>2 DEF Joinable
  <2>2. CASE k \notin RejectedKeys(l.receipts, keys)
    BY <1>1, <2>1, <2>2 DEF RejectedKeys, OutcomesOf, Rejecting
  <2>3. CASE k \in RejectedKeys(l.receipts, keys)
    <3>1. OutcomesOf(l.receipts, k) = {"rejected"}
      BY <1>2, <2>3 DEF Joinable, RejectedKeys
    <3>2. \A i \in Retained(l.receipts) : l.receipts[i][k] = "rejected"
      BY <3>1 DEF OutcomesOf
    <3> QED
      BY <1>1, <2>1, <2>3, <3>2 DEF Rejecting
  <2> QED
    BY <2>2, <2>3
<1>5. ASSUME status \in {"partial", "completed"}, NEW k \in keys
      PROVE  k \in RejectedKeys(l.receipts, keys) \cup l.present \cup l.dlq
  BY <1>5 DEF Conclusion, Unresolved, ExactKeys
<1>6. status = "completed" => RejectedKeys(l.receipts, keys) = {} /\ l.dlq = {}
  BY DEF Conclusion
<1>7. status = "completed" =>
        \A k \in keys : k \in Keys /\ odp[k] = "present" /\ Rejecting(m, k) = {}
  BY <1>2, <1>4, <1>5, <1>6
<1>8. status = "partial" =>
        \A k \in keys : /\ k \in Keys
                        /\ IF Rejecting(m, k) = {} THEN odp[k] # "absent"
                           ELSE Rejecting(m, k) = Retained(m.receipts)
  <2> SUFFICES ASSUME status = "partial", NEW k \in keys
               PROVE  /\ k \in Keys
                      /\ IF Rejecting(m, k) = {} THEN odp[k] # "absent"
                         ELSE Rejecting(m, k) = Retained(m.receipts)
    OBVIOUS
  <2>1. Retained(l.receipts) # {}
    BY <1>2 DEF Joinable
  <2>2. CASE k \in RejectedKeys(l.receipts, keys)
    BY <1>1, <1>2, <1>4, <2>1, <2>2
  <2>3. CASE k \notin RejectedKeys(l.receipts, keys)
    <3>1. k \in l.present \cup l.dlq
      BY <1>5, <2>3
    <3>2. odp[k] # "absent"
      BY <1>2, <3>1
    <3> QED
      BY <1>2, <1>4, <2>3, <3>2
  <2> QED
    BY <2>2, <2>3
<1> HIDE DEF m, status
<1>9. Backed(m)
  BY <1>1, <1>2, <1>3, <1>7, <1>8 DEF Backed
<1> QED
  BY <1>3, <1>9 DEF m, status, Terminal

\* The statuses that need no ODP.
LEMMA OfflineBacked ==
    ASSUME NEW l \in Locals, NEW status \in {"indeterminate", "completed_empty"},
           status = "completed_empty" => l.report # NoFact /\ l.report.keys = {}
    PROVE  Backed(Revision(l, status))
  BY DEF Backed, Revision, Terminal

-----------------------------------------------------------------------------
(* Steps *)

\* A step that leaves the tables and ODP alone.
LEMMA QuietData ==
    ASSUME BatchInv, UNCHANGED <<facts, manifests, odp>>
    PROVE  Grows /\ DataTypes' /\ FinalityIsBacked'
<1>1. Grows
  BY LenProperties DEF BatchInv, DataTypes, Grows, facts
<1>2. DataTypes'
  BY DEF BatchInv, DataTypes, facts
<1>3. FinalityIsBacked'
  BY <1>1, RevisionsStep DEF BatchInv
<1> QED
  BY <1>1, <1>2, <1>3

\* A call goes on without having written anything.
LEMMA QuietMove ==
    ASSUME BatchInv, UNCHANGED <<facts, manifests, odp>>,
           NEW h \in Calls, NEW p \in PCs, NEW l \in Locals,
           pc' = [pc EXCEPT ![h] = p], local' = [local EXCEPT ![h] = l],
           \/ lock' = lock /\ (p \in LockedPCs <=> pc[h] \in LockedPCs)
           \/ lock = {} /\ lock' = {h} /\ p \in LockedPCs,
           p = "report" => l.fact \in Reports,
           p = "receipt" => l.fact \in Outcomes /\ l.id \in ReceiptIds,
           l.answer = local[h].answer, CallInv(p, l)
    PROVE  BatchInv'
<1>1. Grows /\ DataTypes' /\ FinalityIsBacked'
  BY QuietData
<1>2. CallInv(p, l)'
  BY <1>1, CallStands
<1>3. l.answer \in 0..Len(manifests')
  BY DEF BatchInv, CallTypes
<1> QED
  BY <1>1, <1>2, <1>3, MoveStep

\* A call appends a revision that is backed, or finds it has been made.
LEMMA AppendStep ==
    ASSUME BatchInv, NEW h \in Calls, pc[h] \in {"reconcile"} \cup QueryPCs,
           NEW status \in Terminal \cup {"indeterminate"}, Append1(h, status),
           Backed(Revision(local[h], status))
    PROVE  Grows /\ BatchInv'
<1>0. /\ local[h] \in Locals /\ manifests \in Seq(Revisions) /\ Len(manifests) \in Nat
      /\ DataTypes /\ FinalityIsBacked
      /\ Sees(local[h].began, local[h].report, local[h].receipts)
  BY LenProperties DEF BatchInv, CallTypes, DataTypes, CallInv, Sight
<1>1. PICK m \in Revisions : m = Revision(local[h], status)
  BY <1>0 DEF Revision, Revisions, Locals
<1>2. /\ m.status = status /\ m.report = local[h].report /\ m.receipts = local[h].receipts
      /\ UNCHANGED <<facts, odp>> /\ Answer(h, Len(manifests')) /\ Backed(m)
  BY <1>1 DEF Append1, Revision
<1>3. CASE manifests' = manifests /\ manifests # <<>> /\ (Last(manifests) = m \/ Replays(h))
  <2>1. Grows /\ DataTypes' /\ FinalityIsBacked'
    BY <1>2, <1>3, QuietData
  <2>2. /\ Len(manifests') \in DOMAIN manifests'
        /\ manifests'[Len(manifests')].report = local[h].report
        /\ manifests'[Len(manifests')].receipts = local[h].receipts
    BY <1>0, <1>2, <1>3, LastRevision DEF Replays, SameTerminalInputs
  <2> QED
    BY <1>0, <1>2, <2>1, <2>2, AnswerStep
<1>4. CASE manifests' = Append(manifests, m) /\ Len(manifests) < MaxRevisions
  <2>1. /\ manifests' \in Seq(Revisions) /\ Len(manifests') = Len(manifests) + 1
        /\ DOMAIN manifests = 1..Len(manifests) /\ DOMAIN manifests' = 1..(Len(manifests) + 1)
        /\ \A n \in DOMAIN manifests : manifests'[n] = manifests[n]
        /\ manifests'[Len(manifests) + 1] = m
    BY <1>0, <1>1, <1>4, AppendGrows
  <2>2. Grows
    BY <1>0, <1>2, <2>1 DEF Grows, facts
  <2>3. DataTypes'
    BY <1>0, <1>2, <1>4, <2>1 DEF DataTypes, facts
  <2>4. FinalityIsBacked'
    <3>1. \A n \in DOMAIN manifests' : n \in DOMAIN manifests \/ Backed(manifests'[n])
      <4>1. \A n \in DOMAIN manifests' : n \in DOMAIN manifests \/ n = Len(manifests) + 1
        BY <1>0, <2>1
      <4> QED
        BY <1>2, <2>1, <4>1
    <3> QED
      BY <1>0, <2>2, <3>1, RevisionsStep
  <2>5. Len(manifests') \in DOMAIN manifests' /\ manifests'[Len(manifests')] = m
    BY <1>0, <2>1
  <2> QED
    BY <1>0, <1>2, <2>2, <2>3, <2>4, <2>5, AnswerStep
<1> QED
  BY <1>1, <1>3, <1>4 DEF Append1

\* ingest_expected_key_report and ingest_ingress_receipt.
LEMMA FactSteps ==
    ASSUME BatchInv, NEW h \in Calls,
           \/ \E r \in Reports : ReportRead(h, r)
           \/ \E i \in ReceiptIds, o \in Outcomes : ReceiptRead(h, i, o)
           \/ ReportCommit(h) \/ ReceiptCommit(h)
    PROVE  Grows /\ BatchInv'
<1>0. local[h] \in Locals /\ CallInv(pc[h], local[h]) /\ DataTypes /\ FinalityIsBacked
  BY DEF BatchInv, CallTypes
<1>p. /\ {"report", "receipt"} \subseteq PCs \ LockedPCs /\ "idle" \notin LockedPCs
  BY DEF PCs, LockedPCs
\* The fact that was brought is a local of the call until it is committed.
<1>1. ASSUME NEW p \in {"report", "receipt"}, NEW l \in Locals, pc[h] = "idle",
             Goto(h, p), local' = [local EXCEPT ![h] = l], UNCHANGED <<facts, manifests, odp, lock>>,
             l.began = local[h].began, l.present = local[h].present, l.dlq = local[h].dlq,
             l.answer = local[h].answer,
             p = "report" => l.fact \in Reports,
             p = "receipt" => l.fact \in Outcomes /\ l.id \in ReceiptIds
      PROVE  Grows /\ BatchInv'
  <2>1. CallInv(p, l)
    BY <1>0, <1>1 DEF CallInv, Sight, Query, Fresh, QueryPCs
  <2>2. Grows
    BY <1>1, QuietData
  <2> QED
    BY <1>p, <1>1, <2>1, <2>2, QuietMove DEF Goto
<1>2. ASSUME NEW r \in Reports, ReportRead(h, r)
      PROVE  Grows /\ BatchInv'
  <2> DEFINE m == [local[h] EXCEPT !.fact = r]
  <2>m. /\ m \in Locals /\ m.fact = r /\ m.began = local[h].began
        /\ m.present = local[h].present /\ m.dlq = local[h].dlq /\ m.answer = local[h].answer
    BY <1>0 DEF Locals
  <2>1. PICK l \in Locals : /\ l = m /\ l.fact = r /\ l.began = local[h].began
                           /\ l.present = local[h].present /\ l.dlq = local[h].dlq
                           /\ l.answer = local[h].answer
    BY <2>m
  <2> QED
    BY <1>1, <1>2, <2>1 DEF ReportRead
<1>3. ASSUME NEW i \in ReceiptIds, NEW o \in Outcomes, ReceiptRead(h, i, o)
      PROVE  Grows /\ BatchInv'
  <2> DEFINE m == [local[h] EXCEPT !.fact = o, !.id = i]
  <2>m. /\ m \in Locals /\ m.fact = o /\ m.id = i /\ m.began = local[h].began
        /\ m.present = local[h].present /\ m.dlq = local[h].dlq /\ m.answer = local[h].answer
    BY <1>0 DEF Locals
  <2>1. PICK l \in Locals : /\ l = m /\ l.fact = o /\ l.id = i /\ l.began = local[h].began
                           /\ l.present = local[h].present /\ l.dlq = local[h].dlq
                           /\ l.answer = local[h].answer
    BY <2>m
  <2>2. local' = [local EXCEPT ![h] = l]
    BY <1>3, <2>1 DEF ReceiptRead
  <2> QED
    BY <1>1, <1>3, <2>1, <2>2 DEF ReceiptRead
<1>4. ASSUME DataTypes', Close(h), UNCHANGED <<manifests, odp>>,
             report # NoFact => report' = report,
             \A i \in ReceiptIds : receipts[i] # NoFact => receipts'[i] = receipts[i]
      PROVE  Grows /\ BatchInv'
  <2>1. Grows
    BY <1>0, <1>4, LenProperties DEF Grows, DataTypes
  <2>2. FinalityIsBacked'
    BY <1>0, <1>4, <2>1, RevisionsStep
  <2> QED
    BY <1>4, <2>1, <2>2, CloseStep
<1>5. CASE ReportCommit(h)
  <2>1. local[h].fact \in Reports
    BY <1>5 DEF ReportCommit, BatchInv, CallTypes
  <2> QED
    BY <1>0, <1>4, <1>5, <2>1 DEF ReportCommit, DataTypes
<1>6. CASE ReceiptCommit(h)
  <2>1. local[h].fact \in Outcomes /\ local[h].id \in ReceiptIds
    BY <1>6 DEF ReceiptCommit, BatchInv, CallTypes
  <2>2. PICK i \in ReceiptIds, o \in Outcomes :
           receipts' = [receipts EXCEPT ![i] = IF @ = NoFact THEN o ELSE @]
    BY <1>6, <2>1 DEF ReceiptCommit
  <2>3. receipts \in ReceiptMaps
    BY <1>0 DEF DataTypes
  <2>4. receipts' \in ReceiptMaps /\ \A j \in ReceiptIds : receipts[j] # NoFact => receipts'[j] = receipts[j]
    BY <2>2, <2>3 DEF ReceiptMaps
  <2> QED
    BY <1>0, <1>4, <1>6, <2>4 DEF ReceiptCommit, DataTypes
<1> QED
  BY <1>2, <1>3, <1>5, <1>6

\* materialize_evidence_batch up to the decision on the latest manifest.
LEMMA ReadSteps ==
    ASSUME BatchInv, NEW h \in Calls,
           \/ \E force \in BOOLEAN : Materialize(h, force)
           \/ Lock(h) \/ ReadReport(h) \/ ReadReceipts(h) \/ ReadLatest(h)
    PROVE  Grows /\ BatchInv'
<1>0. local[h] \in Locals /\ CallInv(pc[h], local[h]) /\ DataTypes /\ FinalityIsBacked
  BY DEF BatchInv, CallTypes
<1>p. /\ LockedPCs \subseteq PCs /\ "lock" \in PCs
      /\ {"report_read", "receipts_read", "latest", "reconcile"} \subseteq LockedPCs
      /\ "idle" \notin LockedPCs /\ "lock" \notin LockedPCs
  BY DEF PCs, LockedPCs
<1>1. ASSUME NEW force \in BOOLEAN, Materialize(h, force)
      PROVE  Grows /\ BatchInv'
  <2> DEFINE m == [local[h] EXCEPT !.force = force, !.began = facts]
  <2>m. /\ m \in Locals /\ m.began = facts /\ m.present = local[h].present
        /\ m.dlq = local[h].dlq /\ m.answer = local[h].answer
    BY <1>0 DEF Locals, DataTypes, facts
  <2>1. PICK l \in Locals : /\ l = m /\ l.began = facts /\ l.present = local[h].present
                           /\ l.dlq = local[h].dlq /\ l.answer = local[h].answer
    BY <2>m
  <2>2. CallInv("lock", l)
    BY <1>0, <2>1 DEF CallInv, Sight, Query, Fresh, Sees, QueryPCs, facts
  <2>3. local' = [local EXCEPT ![h] = l]
    BY <1>1, <2>1 DEF Materialize
  <2>4. Grows
    BY <1>1, QuietData DEF Materialize
  <2>5. /\ pc' = [pc EXCEPT ![h] = "lock"] /\ UNCHANGED <<facts, manifests, odp, lock>>
        /\ "lock" \in LockedPCs <=> pc[h] \in LockedPCs
    BY <1>p, <1>1 DEF Materialize, Goto
  <2> HIDE DEF m
  <2> QED
    BY <1>p, <2>1, <2>2, <2>3, <2>4, <2>5, QuietMove
<1>2. CASE Lock(h)
  <2>1. PICK l \in Locals : l = local[h]
    BY <1>0
  <2>2. CallInv("report_read", l)
    BY <1>0, <1>2, <2>1 DEF Lock, CallInv, Sight, Query, Fresh, QueryPCs
  <2>3. local' = [local EXCEPT ![h] = l]
    BY <1>2, <2>1 DEF Lock, BatchInv, CallTypes
  <2>4. Grows
    BY <1>2, QuietData DEF Lock
  <2> QED
    BY <1>p, <1>2, <2>1, <2>2, <2>3, <2>4, QuietMove DEF Lock, Goto
<1>3. CASE ReadReport(h)
  <2> DEFINE m == [local[h] EXCEPT !.report = report]
  <2>m. /\ m \in Locals /\ m.began = local[h].began /\ m.report = report
        /\ m.present = local[h].present /\ m.dlq = local[h].dlq /\ m.answer = local[h].answer
    BY <1>0 DEF Locals, DataTypes
  <2>1. PICK l \in Locals : /\ l = m /\ l.began = local[h].began /\ l.report = report
                           /\ l.present = local[h].present /\ l.dlq = local[h].dlq
                           /\ l.answer = local[h].answer
    BY <2>m
  <2>2. CallInv("receipts_read", l)
    BY <1>0, <2>1 DEF CallInv, Sight, Query, Fresh, Sees, QueryPCs
  <2>3. local' = [local EXCEPT ![h] = l]
    BY <1>3, <2>1 DEF ReadReport
  <2>4. Grows
    BY <1>3, QuietData DEF ReadReport
  <2> QED
    BY <1>p, <1>3, <2>1, <2>2, <2>3, <2>4, QuietMove DEF ReadReport, Goto
<1>4. CASE ReadReceipts(h)
  <2> DEFINE m == [local[h] EXCEPT !.receipts = receipts]
  <2>m. /\ m \in Locals /\ m.began = local[h].began /\ m.report = local[h].report
        /\ m.receipts = receipts /\ m.present = local[h].present /\ m.dlq = local[h].dlq
        /\ m.answer = local[h].answer
    BY <1>0 DEF Locals, DataTypes
  <2>1. PICK l \in Locals : /\ l = m /\ l.began = local[h].began /\ l.report = local[h].report
                           /\ l.receipts = receipts /\ l.present = local[h].present
                           /\ l.dlq = local[h].dlq /\ l.answer = local[h].answer
    BY <2>m
  <2>2. CallInv("latest", l)
    BY <1>0, <1>4, <2>1 DEF ReadReceipts, CallInv, Sight, Query, Fresh, Sees, QueryPCs
  <2>3. local' = [local EXCEPT ![h] = l]
    BY <1>4, <2>1 DEF ReadReceipts
  <2>4. Grows
    BY <1>4, QuietData DEF ReadReceipts
  <2> QED
    BY <1>p, <1>4, <2>1, <2>2, <2>3, <2>4, QuietMove DEF ReadReceipts, Goto
<1>5. CASE ReadLatest(h)
  <2>1. Grows /\ DataTypes' /\ FinalityIsBacked' /\ pc[h] = "latest" /\ manifests' = manifests
    BY <1>5, QuietData DEF ReadLatest
  <2>2. Sees(local[h].began, local[h].report, local[h].receipts)
    BY <1>0, <2>1 DEF CallInv, Sight
  <2>3. CASE Replays(h) /\ Answer(h, Len(manifests))
    <3>1. /\ Len(manifests) \in DOMAIN manifests
          /\ manifests[Len(manifests)].report = local[h].report
          /\ manifests[Len(manifests)].receipts = local[h].receipts
      BY <1>0, <2>3, LastRevision DEF DataTypes, Replays, SameTerminalInputs
    <3> QED
      BY <2>1, <2>2, <2>3, <3>1, AnswerStep
  <2>4. CASE Goto(h, "reconcile") /\ UNCHANGED <<lock, local>>
    <3>1. PICK l \in Locals : l = local[h]
      BY <1>0
    <3>2. CallInv("reconcile", l)
      BY <1>0, <2>1, <3>1 DEF CallInv, Sight, Query, Fresh, QueryPCs
    <3>3. local' = [local EXCEPT ![h] = l]
      BY <2>4, <3>1 DEF BatchInv, CallTypes
    <3>4. /\ UNCHANGED <<facts, manifests, odp>> /\ pc' = [pc EXCEPT ![h] = "reconcile"]
          /\ "reconcile" \in PCs /\ lock' = lock
          /\ "reconcile" \in LockedPCs <=> pc[h] \in LockedPCs
      BY <1>5, <1>p, <2>1, <2>4 DEF ReadLatest, Goto
    <3> QED
      BY <2>1, <3>1, <3>2, <3>3, <3>4, QuietMove
  <2> QED
    BY <1>5, <2>3, <2>4 DEF ReadLatest
<1> QED
  BY <1>1, <1>2, <1>3, <1>4, <1>5

\* _reconcile and its queries.
LEMMA ReconcileSteps ==
    ASSUME BatchInv, NEW h \in Calls,
           \/ Reconcile(h) \/ QueryExact(h) \/ QueryDlq(h) \/ QueryPage(h) \/ QueryFails(h)
    PROVE  Grows /\ BatchInv'
<1>0. local[h] \in Locals /\ CallInv(pc[h], local[h]) /\ DataTypes /\ FinalityIsBacked
  BY DEF BatchInv, CallTypes
<1>p. /\ QueryPCs \subseteq LockedPCs /\ LockedPCs \subseteq PCs /\ "reconcile" \in LockedPCs
      /\ QueryPCs = {"exact", "dlq", "page"}
  BY DEF PCs, LockedPCs, QueryPCs
<1>s. {"indeterminate", "completed_empty"} \subseteq Terminal \cup {"indeterminate"}
  BY DEF Terminal
<1>1. CASE Reconcile(h)
  <2>0. PICK l \in Locals : l = local[h]
    BY <1>0
  <2>1. PICK status : l = local[h] /\ status = Offline(l)
    BY <2>0
  <2>2. /\ status \in {"indeterminate", "completed_empty", "query"}
        /\ status = "completed_empty" => l.report # NoFact /\ l.report.keys = {}
        /\ status = "query" => /\ l.report # NoFact /\ l.report.keys \subseteq Keys
                               /\ Joinable(l.receipts, l.report.keys)
    BY <2>1, OfflineResult
  <2>3. CASE status # "query"
    <3>1. Append1(h, status) /\ pc[h] = "reconcile"
      BY <1>1, <2>1, <2>3 DEF Reconcile
    <3>2. Backed(Revision(local[h], status))
      BY <2>1, <2>2, <2>3, OfflineBacked
    <3> QED
      BY <1>s, <2>2, <2>3, <3>1, <3>2, AppendStep
  <2>4. CASE status = "query"
    <3>1. /\ Goto(h, "exact") /\ UNCHANGED <<facts, manifests, odp, lock, local>>
          /\ pc[h] = "reconcile"
      BY <1>1, <2>1, <2>4, <1>0, AppendStep DEF Reconcile
    <3>2. CallInv("exact", l)
      BY <1>0, <2>1, <2>2, <2>4, <3>1 DEF CallInv, Sight, Query, Fresh, QueryPCs
    <3>3. local' = [local EXCEPT ![h] = l]
      BY <2>1, <3>1 DEF BatchInv, CallTypes
    <3>4. Grows
      BY <3>1, QuietData
    <3>5. /\ pc' = [pc EXCEPT ![h] = "exact"] /\ "exact" \in PCs
          /\ "exact" \in LockedPCs <=> pc[h] \in LockedPCs
      BY <1>p, <3>1 DEF Goto
    <3> QED
      BY <2>1, <3>1, <3>2, <3>3, <3>4, <3>5, QuietMove
  <2> QED
    BY <2>3, <2>4
\* A query adds what ODP knows now.
<1>2. ASSUME NEW p \in QueryPCs, NEW present \in SUBSET Keys, NEW dlq \in SUBSET Keys,
             pc[h] \in QueryPCs, Goto(h, p), UNCHANGED <<facts, manifests, odp, lock>>,
             \A k \in present : odp[k] = "present", \A k \in dlq : odp[k] # "absent",
             local' = [local EXCEPT ![h] = [local[h] EXCEPT !.present = present, !.dlq = dlq]]
      PROVE  Grows /\ BatchInv'
  <2> DEFINE m == [local[h] EXCEPT !.present = present, !.dlq = dlq]
  <2>m. /\ m \in Locals /\ m.present = present /\ m.dlq = dlq /\ m.began = local[h].began
        /\ m.report = local[h].report /\ m.receipts = local[h].receipts
        /\ m.answer = local[h].answer
    BY <1>0 DEF Locals
  <2>1. PICK l \in Locals : /\ l = m /\ l.present = present /\ l.dlq = dlq
                           /\ l.began = local[h].began /\ l.report = local[h].report
                           /\ l.receipts = local[h].receipts /\ l.answer = local[h].answer
    BY <2>m
  <2>2. CallInv(p, l)
    BY <1>0, <1>2, <2>1 DEF CallInv, Sight, Query, Fresh, QueryPCs
  <2>3. local' = [local EXCEPT ![h] = l]
    BY <1>2, <2>1
  <2>4. Grows
    BY <1>2, QuietData
  <2> QED
    BY <1>p, <1>2, <2>1, <2>2, <2>3, <2>4, QuietMove DEF Goto
<1>k. pc[h] \in QueryPCs => /\ ExactKeys(local[h]) \subseteq Keys /\ Unresolved(local[h]) \subseteq Keys
                            /\ local[h].present \subseteq Keys /\ local[h].dlq \subseteq Keys
                            /\ \A k \in local[h].present : odp[k] = "present"
                            /\ \A k \in local[h].dlq : odp[k] # "absent"
  BY <1>0 DEF CallInv, Query, ExactKeys, Unresolved, Locals
<1>3. CASE QueryExact(h)
  <2> DEFINE present == {k \in ExactKeys(local[h]) : odp[k] = "present"}
  <2>1. local' = [local EXCEPT ![h] = [local[h] EXCEPT !.present = present, !.dlq = local[h].dlq]]
    <3>1. [local[h] EXCEPT !.present = present, !.dlq = local[h].dlq]
             = [local[h] EXCEPT !.present = present]
      BY <1>0 DEF Locals
    <3> QED
      BY <1>3, <3>1 DEF QueryExact
  <2>2. present \subseteq Keys /\ \A k \in present : odp[k] = "present"
    BY <1>3, <1>k, <1>p DEF QueryExact
  <2> HIDE DEF present
  <2> QED
    BY <1>2, <1>3, <1>k, <1>p, <2>1, <2>2 DEF QueryExact
<1>4. CASE QueryDlq(h)
  <2>1. PICK lost \in SUBSET {k \in Unresolved(local[h]) : odp[k] = "dlq"} :
          local' = [local EXCEPT
                      ![h].present = @ \cup {k \in Unresolved(local[h]) : odp[k] = "present"},
                      ![h].dlq = {k \in Unresolved(local[h]) : odp[k] = "dlq"} \ lost]
    BY <1>4 DEF QueryDlq
  <2> DEFINE present == local[h].present \cup {k \in Unresolved(local[h]) : odp[k] = "present"}
             dlq == {k \in Unresolved(local[h]) : odp[k] = "dlq"} \ lost
  <2>2. local' = [local EXCEPT ![h] = [local[h] EXCEPT !.present = present, !.dlq = dlq]]
    BY <2>1
  <2>3. /\ present \subseteq Keys /\ \A k \in present : odp[k] = "present"
        /\ dlq \subseteq Keys /\ \A k \in dlq : odp[k] # "absent"
    BY <1>4, <1>k, <1>p DEF QueryDlq
  <2> HIDE DEF present, dlq
  <2> QED
    BY <1>2, <1>4, <1>p, <2>2, <2>3 DEF QueryDlq
<1>5. CASE QueryPage(h)
  <2>0. PICK l \in Locals : l = local[h]
    BY <1>0
  <2>1. PICK status : l = local[h] /\ status = Conclusion(l)
    BY <2>0
  <2>2. /\ pc[h] = "page" /\ Append1(h, status) /\ Query("page", l)
    BY <1>0, <1>5, <2>1 DEF QueryPage, CallInv
  <2>3. status \in Terminal \cup {"indeterminate"} /\ Backed(Revision(local[h], status))
    BY <2>1, <2>2, ConclusionBacked
  <2> QED
    BY <1>p, <2>2, <2>3, AppendStep
<1>6. CASE QueryFails(h)
  <2>1. pc[h] \in QueryPCs /\ Append1(h, "indeterminate")
    BY <1>6, <1>p DEF QueryFails
  <2>2. Backed(Revision(local[h], "indeterminate"))
    BY <1>0, OfflineBacked
  <2> QED
    BY <1>s, <2>1, <2>2, AppendStep
<1> QED
  BY <1>1, <1>3, <1>4, <1>5, <1>6

\* A record moves in the store behind ODP.
LEMMA OdpSteps ==
    ASSUME BatchInv, NEW k \in Keys, OdpCommits(k) \/ OdpDeadLetters(k)
    PROVE  Grows /\ BatchInv'
<1>0. DataTypes /\ CallTypes /\ FinalityIsBacked
  BY DEF BatchInv
<1>1. /\ UNCHANGED <<report, receipts, manifests, lock, pc, local>>
      /\ odp' \in [Keys -> {"absent", "present", "dlq"}]
      /\ \A j \in Keys : /\ odp[j] = "present" => odp'[j] = "present"
                         /\ odp[j] # "absent" => odp'[j] # "absent"
  BY <1>0 DEF OdpCommits, OdpDeadLetters, facts, DataTypes
<1>2. Grows
  BY <1>0, <1>1, LenProperties DEF Grows, DataTypes
<1>3. DataTypes' /\ CallTypes'
  BY <1>0, <1>1 DEF DataTypes, CallTypes
<1>4. FinalityIsBacked'
  BY <1>0, <1>1, <1>2, RevisionsStep
<1>5. ASSUME NEW d \in Calls
      PROVE  CallInv(pc[d], local[d])'
  <2>1. PICK q \in PCs, m \in Locals : q = pc[d] /\ m = local[d] /\ CallInv(q, m)
    BY <1>0 DEF BatchInv, CallTypes
  <2>2. CallInv(q, m)' /\ pc'[d] = q /\ local'[d] = m
    BY <1>1, <1>2, <2>1, CallStands
  <2> QED
    BY <2>2 DEF CallInv, Sight, Query, Fresh
<1> QED
  BY <1>2, <1>3, <1>4, <1>5 DEF BatchInv

LEMMA BatchStep ==
    ASSUME BatchInv, [Next]_vars
    PROVE  Grows /\ BatchInv'
<1>1. ASSUME NEW h \in Calls, Deliver(h) \/ Crash(h)
      PROVE  Grows /\ BatchInv'
  <2>1. Close(h) /\ UNCHANGED <<facts, manifests, odp>>
    BY <1>1 DEF Deliver, Crash
  <2> QED
    BY <2>1, QuietData, CloseStep
<1>2. CASE UNCHANGED vars
  <2>1. Grows /\ DataTypes' /\ FinalityIsBacked'
    BY <1>2, QuietData DEF vars, facts
  <2>2. CallTypes' /\ \A d \in Calls : CallInv(pc[d], local[d])'
    BY <1>2 DEF vars, BatchInv, CallTypes, CallInv, Sight, Query, Fresh
  <2> QED
    BY <2>1, <2>2 DEF BatchInv
<1>3. DeadLetters \subseteq Keys
  OBVIOUS
<1> QED
  BY <1>1, <1>2, <1>3, FactSteps, ReadSteps, ReconcileSteps, OdpSteps DEF Next

LEMMA BatchInit ==
    ASSUME Init
    PROVE  BatchInv
<1>1. DataTypes
  BY NoLocalsType, EmptySeq DEF Init, DataTypes
<1>2. Len(manifests) = 0 /\ \A h \in Calls : pc[h] = "idle" /\ local[h] = NoLocals
  BY EmptySeq DEF Init
<1>3. CallTypes
  BY <1>2, NoLocalsType DEF Init, CallTypes, PCs, LockedPCs
<1>4. FinalityIsBacked
  BY EmptySeq, LenProperties DEF Init, FinalityIsBacked
<1>5. \A h \in Calls : CallInv(pc[h], local[h])
  BY <1>2, NoLocalsType, NoLocalsInv
<1> QED
  BY <1>1, <1>3, <1>4, <1>5 DEF BatchInv

\* A step leaves the revisions alone, or a call that holds the lock appends what it
\* has read, having found no final revision to answer with.
LEMMA RevisionAppended ==
    ASSUME BatchInv, [Next]_vars
    PROVE  \/ manifests' = manifests
           \/ \E h \in Calls, m \in Revisions :
                 /\ pc[h] \in LockedPCs /\ ~Replays(h)
                 /\ m.report = local[h].report /\ m.receipts = local[h].receipts
                 /\ manifests' = Append(manifests, m)
<1>1. ASSUME NEW h \in Calls, NEW status \in Terminal \cup {"indeterminate"},
             pc[h] \in LockedPCs, Append1(h, status), manifests' # manifests
      PROVE  \E m \in Revisions : /\ ~Replays(h)
                                  /\ m.report = local[h].report /\ m.receipts = local[h].receipts
                                  /\ manifests' = Append(manifests, m)
  <2> DEFINE m == Revision(local[h], status)
  <2>1. m \in Revisions /\ m.report = local[h].report /\ m.receipts = local[h].receipts
    BY DEF BatchInv, CallTypes, Locals, Revision, Revisions
  <2>2. ~Replays(h) /\ manifests' = Append(manifests, m)
    BY <1>1 DEF Append1, Replays
  <2> HIDE DEF m
  <2> QED
    BY <2>1, <2>2
<1>2. ASSUME NEW h \in Calls, Reconcile(h) \/ QueryPage(h) \/ QueryFails(h), manifests' # manifests
      PROVE  /\ pc[h] \in LockedPCs
             /\ \E status \in Terminal \cup {"indeterminate"} : Append1(h, status)
  <2>1. local[h] \in Locals /\ CallInv(pc[h], local[h])
    BY DEF BatchInv, CallTypes
  <2>2. CASE Reconcile(h)
    <3>1. PICK status : status = Offline(local[h]) /\ status # "query" /\ Append1(h, status)
      BY <1>2, <2>2 DEF Reconcile
    <3>2. status \in Terminal \cup {"indeterminate"}
      BY <2>1, <3>1, OfflineResult DEF Terminal
    <3> QED
      BY <2>2, <3>1, <3>2 DEF Reconcile, LockedPCs
  <2>3. CASE QueryPage(h)
    <3>1. pc[h] = "page" /\ Append1(h, Conclusion(local[h])) /\ Query("page", local[h])
      BY <2>1, <2>3 DEF QueryPage, CallInv
    <3>2. Conclusion(local[h]) \in Terminal \cup {"indeterminate"}
      BY <2>1, <3>1, ConclusionBacked
    <3> QED
      BY <3>1, <3>2 DEF LockedPCs
  <2>4. CASE QueryFails(h)
    BY <2>4 DEF QueryFails, LockedPCs
  <2> QED
    BY <1>2, <2>2, <2>3, <2>4
<1>3. ASSUME NEW h \in Calls,
             \/ \E r \in Reports : ReportRead(h, r)
             \/ \E i \in ReceiptIds, o \in Outcomes : ReceiptRead(h, i, o)
             \/ ReportCommit(h) \/ ReceiptCommit(h)
             \/ \E force \in BOOLEAN : Materialize(h, force)
             \/ Lock(h) \/ ReadReport(h) \/ ReadReceipts(h) \/ ReadLatest(h)
             \/ QueryExact(h) \/ QueryDlq(h) \/ Deliver(h) \/ Crash(h)
      PROVE  manifests' = manifests
  BY <1>3 DEF ReportRead, ReceiptRead, ReportCommit, ReceiptCommit, Materialize, Lock, ReadReport,
              ReadReceipts, ReadLatest, QueryExact, QueryDlq, Deliver, Crash
<1>4. ASSUME NEW k \in Keys, OdpCommits(k) \/ OdpDeadLetters(k)
      PROVE  manifests' = manifests
  BY <1>4 DEF OdpCommits, OdpDeadLetters
<1>5. CASE \E h \in Calls : Reconcile(h) \/ QueryPage(h) \/ QueryFails(h)
  BY <1>1, <1>2, <1>5
<1>6. CASE UNCHANGED vars
  BY <1>6 DEF vars
<1> QED
  BY <1>3, <1>4, <1>5, <1>6 DEF Next

-----------------------------------------------------------------------------
(* Theorems *)

(* Every reachable state is typed, and what a handler knows between its    *)
(* reads and its answer stays true whatever the others do: the facts it    *)
(* has read are retained, its report and receipts can be joined once it    *)
(* asks ODP, what ODP has told it is still so, and the revision it answers *)
(* with includes what was retained when it began                           *)
(* (materialize_evidence_batch under lock_scoped_workflow_run).            *)
THEOREM BatchInvariant == Spec => []BatchInv
<1>1. BatchInv /\ [Next]_vars => BatchInv'
  BY BatchStep
<1> QED
  BY <1>1, BatchInit, PTL DEF Spec

(* A final status published by _reconcile is backed by every fact it was   *)
(* made from, for any reports, receipts and moves of the records in ODP:   *)
(* "completed" by the commitment of every reported key, "partial" by an    *)
(* outcome of each of them, "completed_empty" by a report without keys.    *)
THEOREM FinalStatusIsBacked == Spec => []FinalityIsBacked
<1>1. BatchInv => FinalityIsBacked
  BY DEF BatchInv
<1> QED
  BY <1>1, BatchInvariant, PTL

(* materialize_iii_collection never answers with a revision older than the *)
(* call: every report and receipt retained when it began is an input of    *)
(* the revision it returns.                                                *)
THEOREM AnswersAreFresh == Spec => []AnswerIsFresh
<1>1. BatchInv => AnswerIsFresh
  BY DEF BatchInv, CallInv, Fresh, Sees, AnswerIsFresh
<1> QED
  BY <1>1, BatchInvariant, PTL

(* No step rewrites the report, a receipt or a revision: the ingest        *)
(* handlers insert what is not there yet, and a reconciliation appends.    *)
THEOREM RetainedFactsStand == Spec => FactsStand
<1>1. ASSUME BatchInv, [Next]_vars
      PROVE  /\ report # NoFact => report' = report
             /\ \A i \in ReceiptIds : receipts[i] # NoFact => receipts'[i] = receipts[i]
             /\ IsPrefix(manifests, manifests')
  <2>1. Grows
    BY <1>1, BatchStep
  <2>2. manifests \in Seq(Revisions)
    BY <1>1 DEF BatchInv, DataTypes
  <2>3. IsPrefix(manifests, manifests')
    <3>1. CASE manifests' = manifests
      <4>1. Len(manifests) \in Nat /\ SubSeq(manifests, 1, Len(manifests)) = manifests
        BY <2>2, LenProperties, SubSeqFull
      <4> QED
        BY <3>1, <4>1 DEF IsPrefix
    <3>2. CASE manifests' # manifests
      BY <1>1, <2>2, <3>2, RevisionAppended, AppendPrefix
    <3> QED
      BY <3>1, <3>2
  <2> QED
    BY <2>1, <2>3 DEF Grows
<1> QED
  BY <1>1, BatchInvariant, PTL DEF Spec, FactsStand

(* Plain calls that race do not query ODP into a second opinion: a final   *)
(* revision is only followed by another one for the same facts when the    *)
(* call that holds the lock is a recovery, because Append1 looks at the    *)
(* latest revision again before it appends.                                *)
THEOREM FinalAnswersReplay == Spec => FinalityReplays
<1>1. ASSUME BatchInv, [Next]_vars, Len(manifests') > Len(manifests), manifests # <<>>,
             Last(manifests).status \in Terminal,
             Last(manifests').report = Last(manifests).report,
             Last(manifests').receipts = Last(manifests).receipts
      PROVE  \E h \in lock : local[h].force
  <2>1. manifests \in Seq(Revisions) /\ Len(manifests) \in Nat
    BY <1>1, LenProperties DEF BatchInv, DataTypes
  <2>2. manifests' # manifests
    BY <1>1, <2>1
  <2>3. PICK h \in Calls, m \in Revisions :
           /\ pc[h] \in LockedPCs /\ ~Replays(h)
           /\ m.report = local[h].report /\ m.receipts = local[h].receipts
           /\ manifests' = Append(manifests, m)
    BY <1>1, <2>2, RevisionAppended
  <2>4. Last(manifests') = m
    BY <2>1, <2>3, AppendGrows
  <2>5. Last(manifests).report # NoFact
    <3>1. Backed(Last(manifests))
      BY <1>1, <2>1, LastRevision, BackedRevisions DEF BatchInv
    <3> QED
      BY <1>1, <3>1 DEF Backed
  <2>6. SameTerminalInputs(Last(manifests), local[h])
    BY <1>1, <2>3, <2>4, <2>5 DEF SameTerminalInputs
  <2>7. local[h].force
    BY <1>1, <2>3, <2>6 DEF Replays
  <2>8. h \in lock
    BY <1>1, <2>3 DEF BatchInv, CallTypes
  <2> QED
    BY <2>7, <2>8
<1>2. BatchInv /\ [Next]_vars =>
        (Len(manifests') > Len(manifests) /\ manifests # <<>> =>
            \/ Last(manifests).status \notin Terminal
            \/ <<Last(manifests').report, Last(manifests').receipts>>
                  # <<Last(manifests).report, Last(manifests).receipts>>
            \/ \E h \in lock : local[h].force)
  BY <1>1
<1> QED
  BY <1>2, BatchInvariant, PTL DEF Spec, FinalityReplays
=============================================================================
