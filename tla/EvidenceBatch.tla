---------------------------- MODULE EvidenceBatch ----------------------------
(***************************************************************************)
(* The facts about one III collection attempt and their materialization    *)
(* (workflow/iii_collection_store.py, evidence_batch_materializer.py,      *)
(* evidence_batch_materialization_facts.py).                               *)
(*                                                                         *)
(* The collector's final report and the signed receipts of odp-ingest are  *)
(* checked against each other and inserted without a lock.  Materialize    *)
(* and recover lock the workflow run, read report, receipts and the latest *)
(* manifest, ask ODP three times, and append a manifest revision; report   *)
(* and receipts may change under them, and so may ODP between two queries. *)
(*                                                                         *)
(* External: ODP.  Its answers are true when they are given; it may also   *)
(* fail, or not know.  A record that is committed stays; a key in the dead *)
(* letter queue may be committed later.                                    *)
(***************************************************************************)
EXTENDS Integers, Sequences, FiniteSets, FiniteSetsExt, SequencesExt

CONSTANTS
    Calls,          \* request handlers
    Keys,           \* record keys of the command's source
    ForeignKeys,    \* record keys of another source
    Reports,        \* contents of a final report: [keys, rejected]
    ReceiptIds,     \* receipt identities
    Outcomes,       \* contents of a receipt: functions from keys to an outcome
    NoFact,         \* nothing retained
    DeadLetters,    \* bound: the keys that may go to the dead letter queue
    MaxRevisions    \* bound on the number of manifest revisions

ASSUME EvidenceAssumption ==
    /\ \A r \in Reports : r.keys \subseteq Keys \cup ForeignKeys /\ r.rejected \in Nat
    /\ \A o \in Outcomes :
          /\ DOMAIN o \subseteq Keys \cup ForeignKeys
          /\ \A k \in DOMAIN o : o[k] \in {"accepted", "duplicate", "rejected"}
    /\ NoFact \notin Reports /\ NoFact \notin Outcomes
    /\ DeadLetters \subseteq Keys
    /\ MaxRevisions \in Nat

Terminal == {"completed", "completed_empty", "partial"}

VARIABLES
    report,         \* IIICollectionExpectedKeyReportV1 of the attempt, or NoFact
    receipts,       \* [ReceiptIds -> Outcomes or NoFact]: IIICollectionIngressReceiptV1
    manifests,      \* sequence of EvidenceBatchMaterializationManifestV1, by revision
    odp,            \* [Keys -> {"absent", "present", "dlq"}]
    lock,           \* the handlers holding the row lock of the run: none or one
    pc, local       \* of every handler: control point and local variables

facts == <<report, receipts>>
vars == <<report, receipts, manifests, odp, lock, pc, local>>

\* Locals of a call: the fact it brings; whether it forces a reconciliation; the facts that
\* were retained when it began; what it has read; what ODP has told it; its answer.
NoLocals == [fact |-> NoFact, id |-> NoFact, force |-> FALSE,
             began |-> <<NoFact, [r \in ReceiptIds |-> NoFact]>>,
             report |-> NoFact, receipts |-> [r \in ReceiptIds |-> NoFact],
             present |-> {}, dlq |-> {}, answer |-> 0]

Init ==
    /\ report = NoFact
    /\ receipts = [r \in ReceiptIds |-> NoFact]
    /\ manifests = <<>>
    /\ odp = [k \in Keys |-> "absent"]
    /\ lock = {}
    /\ pc = [h \in Calls |-> "idle"]
    /\ local = [h \in Calls |-> NoLocals]

Goto(h, label) == pc' = [pc EXCEPT ![h] = label]

\* The response is sent and the session closed: a lock it held is free.
Close(h) ==
    /\ pc' = [pc EXCEPT ![h] = "idle"]
    /\ local' = [local EXCEPT ![h] = NoLocals]
    /\ lock' = lock \ {h}

Rejected(o) == {k \in DOMAIN o : o[k] = "rejected"}

\* _outcomes_match_report, and the same test in ingest_expected_key_report.
Matches(o, r) == DOMAIN o = r.keys /\ Cardinality(Rejected(o)) = r.rejected

Retained(rs) == {r \in ReceiptIds : rs[r] # NoFact}

-----------------------------------------------------------------------------
(* ingest_expected_key_report and ingest_ingress_receipt                    *)

\* A report after the first is a replay or a conflict and changes nothing.
ReportRead(h, r) ==
    /\ pc[h] = "idle" /\ report = NoFact
    /\ \A i \in Retained(receipts) : Matches(receipts[i], r)
    /\ local' = [local EXCEPT ![h].fact = r]
    /\ Goto(h, "report")
    /\ UNCHANGED <<facts, manifests, odp, lock>>

\* One report per attempt: the unique key turns a second insert into a replay or a conflict.
ReportCommit(h) ==
    /\ pc[h] = "report"
    /\ report' = IF report = NoFact THEN local[h].fact ELSE report
    /\ Close(h)
    /\ UNCHANGED <<receipts, manifests, odp>>

ReceiptRead(h, i, o) ==
    /\ pc[h] = "idle" /\ receipts[i] = NoFact
    /\ report # NoFact => Matches(o, report)
    /\ local' = [local EXCEPT ![h].fact = o, ![h].id = i]
    /\ Goto(h, "receipt")
    /\ UNCHANGED <<facts, manifests, odp, lock>>

ReceiptCommit(h) ==
    /\ pc[h] = "receipt"
    /\ receipts' = [receipts EXCEPT ![local[h].id] = IF @ = NoFact THEN local[h].fact ELSE @]
    /\ Close(h)
    /\ UNCHANGED <<report, manifests, odp>>

-----------------------------------------------------------------------------
(* materialize_evidence_batch                                               *)

\* materialize_iii_collection, or with force recover_iii_collection_materialization
Materialize(h, force) ==
    /\ pc[h] = "idle"
    /\ local' = [local EXCEPT ![h].force = force, ![h].began = facts]
    /\ Goto(h, "lock")
    /\ UNCHANGED <<facts, manifests, odp, lock>>

\* lock_scoped_workflow_run, held to the end of the transaction: a row lock in
\* PostgreSQL, in SQLite the write barrier of a no-op UPDATE.
Lock(h) ==
    /\ pc[h] = "lock" /\ lock = {}
    /\ lock' = {h}
    /\ Goto(h, "report_read")
    /\ UNCHANGED <<facts, manifests, odp, local>>

ReadReport(h) ==
    /\ pc[h] = "report_read"
    /\ local' = [local EXCEPT ![h].report = report]
    /\ Goto(h, "receipts_read")
    /\ UNCHANGED <<facts, manifests, odp, lock>>

ReadReceipts(h) ==
    /\ pc[h] = "receipts_read"
    /\ local' = [local EXCEPT ![h].receipts = receipts]
    /\ Goto(h, "latest")
    /\ UNCHANGED <<facts, manifests, odp, lock>>

\* The inputs are the same when the report is, whatever receipts were added since.
SameTerminalInputsByReport(m, l) ==
    l.report # NoFact /\ m.status \in Terminal /\ m.report = l.report

\* _same_terminal_inputs
SameTerminalInputs(m, l) ==
    /\ l.report # NoFact
    /\ m.status \in Terminal
    /\ m.report = l.report /\ m.receipts = l.receipts

\* Every call reconciles.
ReplaysNever(h) == FALSE

\* A plain call finds a final manifest for what it has read.
Replays(h) ==
    /\ ~local[h].force
    /\ manifests # <<>>
    /\ SameTerminalInputs(Last(manifests), local[h])

Answer(h, revision) ==
    /\ local' = [local EXCEPT ![h] = [NoLocals EXCEPT !.began = local[h].began,
                                                      !.answer = revision]]
    /\ lock' = lock \ {h}
    /\ Goto(h, "answered")

\* The latest manifest is answered again, or the facts are reconciled.
ReadLatest(h) ==
    /\ pc[h] = "latest"
    /\ \/ Replays(h) /\ Answer(h, Len(manifests))
       \/ ~Replays(h) /\ Goto(h, "reconcile") /\ UNCHANGED <<lock, local>>
    /\ UNCHANGED <<facts, manifests, odp>>

\* The outcomes of the receipts about key k.
OutcomesOf(rs, k) == {rs[i][k] : i \in Retained(rs)}

\* The first receipt with an outcome decides.
JoinableFirst(rs, keys) ==
    /\ Retained(rs) # {}
    /\ \A i \in Retained(rs) : DOMAIN rs[i] = keys

\* receipt_outcomes is not None: every receipt covers exactly the expected keys, and no key is
\* rejected by one receipt and not by another.
Joinable(rs, keys) ==
    /\ Retained(rs) # {}
    /\ \A i \in Retained(rs) : DOMAIN rs[i] = keys
    /\ \A k \in keys : "rejected" \in OutcomesOf(rs, k) => OutcomesOf(rs, k) = {"rejected"}

RejectedKeys(rs, keys) == {k \in keys : "rejected" \in OutcomesOf(rs, k)}

\* What _reconcile decides without ODP: a status, or "query".
Offline(l) ==
    CASE l.report = NoFact -> "indeterminate"
      [] l.report # NoFact /\ l.report.keys \cap ForeignKeys # {} -> "indeterminate"
      [] l.report # NoFact /\ l.report.keys = {} ->
            IF l.report.rejected = 0 THEN "completed_empty" ELSE "indeterminate"
      [] OTHER -> IF Joinable(l.receipts, l.report.keys) THEN "query" ELSE "indeterminate"

\* The facts of a revision: the compared columns of the manifest.
Revision(l, status) ==
    [status |-> status, report |-> l.report, receipts |-> l.receipts,
     present |-> l.present, dlq |-> l.dlq]

\* Appends a revision, unless the latest one already says the same: _same_revision, or for a
\* plain call a terminal one for the same inputs.
Append1(h, status) ==
    LET revision == Revision(local[h], status)
        known == manifests # <<>> /\ (Last(manifests) = revision \/ Replays(h))
    IN  /\ known \/ Len(manifests) < MaxRevisions
        /\ manifests' = IF known THEN manifests ELSE Append(manifests, revision)
        /\ Answer(h, Len(manifests'))
        /\ UNCHANGED <<facts, odp>>

Reconcile(h) ==
    /\ pc[h] = "reconcile"
    /\ LET status == Offline(local[h]) IN
       \/ status # "query" /\ Append1(h, status)
       \/ /\ status = "query"
          /\ Goto(h, "exact")
          /\ UNCHANGED <<facts, manifests, odp, lock, local>>

\* The keys ODP is asked about, and those it has not accounted for.
ExactKeys(l) == l.report.keys \ RejectedKeys(l.receipts, l.report.keys)

Unresolved(l) == ExactKeys(l) \ (l.present \cup l.dlq)

\* The exact query, in chunks of 100 keys.
QueryExact(h) ==
    /\ pc[h] = "exact"
    /\ local' = [local EXCEPT ![h].present = {k \in ExactKeys(local[h]) : odp[k] = "present"}]
    /\ Goto(h, "dlq")
    /\ UNCHANGED <<facts, manifests, odp, lock>>

\* The dead-letter query for what is left; a letter that is not retained stays unknown.
QueryDlq(h) ==
    /\ pc[h] = "dlq"
    /\ \E lost \in SUBSET {k \in Unresolved(local[h]) : odp[k] = "dlq"} :
          local' = [local EXCEPT
                      ![h].present = @ \cup {k \in Unresolved(local[h]) : odp[k] = "present"},
                      ![h].dlq = {k \in Unresolved(local[h]) : odp[k] = "dlq"} \ lost]
    /\ Goto(h, "page")
    /\ UNCHANGED <<facts, manifests, odp, lock>>

\* The end of _reconcile.
Conclusion(l) ==
    IF Unresolved(l) # {} THEN "indeterminate"
    ELSE IF RejectedKeys(l.receipts, l.report.keys) # {} \/ l.dlq # {} THEN "partial"
    ELSE "completed"

\* The page query only confirms the scope of the queries before it.
QueryPage(h) ==
    /\ pc[h] = "page"
    /\ Append1(h, Conclusion(local[h]))

\* ODP is unavailable, rejects a query or answers for another scope: what is known so far is
\* retained as indeterminate.
QueryFails(h) ==
    /\ pc[h] \in {"exact", "dlq", "page"}
    /\ Append1(h, "indeterminate")

\* The caller has read its answer.
Deliver(h) ==
    /\ pc[h] = "answered"
    /\ Close(h)
    /\ UNCHANGED <<facts, manifests, odp>>

\* The process or the session of the call ends: its transaction is rolled back.
Crash(h) ==
    /\ pc[h] \notin {"idle", "answered"}
    /\ Close(h)
    /\ UNCHANGED <<facts, manifests, odp>>

-----------------------------------------------------------------------------
(* External: the store behind ODP                                           *)

OdpCommits(k) ==
    /\ odp[k] # "present"
    /\ odp' = [odp EXCEPT ![k] = "present"]
    /\ UNCHANGED <<facts, manifests, lock, pc, local>>

OdpDeadLetters(k) ==
    /\ odp[k] = "absent"
    /\ odp' = [odp EXCEPT ![k] = "dlq"]
    /\ UNCHANGED <<facts, manifests, lock, pc, local>>

-----------------------------------------------------------------------------
Next ==
    \/ \E h \in Calls :
          \/ \E r \in Reports : ReportRead(h, r)
          \/ \E i \in ReceiptIds, o \in Outcomes : ReceiptRead(h, i, o)
          \/ ReportCommit(h) \/ ReceiptCommit(h)
          \/ \E force \in BOOLEAN : Materialize(h, force)
          \/ Lock(h) \/ ReadReport(h) \/ ReadReceipts(h) \/ ReadLatest(h) \/ Reconcile(h)
          \/ QueryExact(h) \/ QueryDlq(h) \/ QueryPage(h) \/ QueryFails(h)
          \/ Deliver(h) \/ Crash(h)
    \/ \E k \in Keys : OdpCommits(k)
    \/ \E k \in DeadLetters : OdpDeadLetters(k)

Spec == Init /\ [][Next]_vars

-----------------------------------------------------------------------------
(* Properties                                                               *)

PCs == {"idle", "report", "receipt", "lock", "report_read", "receipts_read", "latest",
        "reconcile", "exact", "dlq", "page", "answered"}

ReceiptMaps == [ReceiptIds -> Outcomes \cup {NoFact}]

TypeOK ==
    /\ report \in Reports \cup {NoFact}
    /\ receipts \in ReceiptMaps
    /\ \A n \in DOMAIN manifests :
          /\ manifests[n].status \in Terminal \cup {"indeterminate"}
          /\ manifests[n].report \in Reports \cup {NoFact}
          /\ manifests[n].receipts \in ReceiptMaps
          /\ manifests[n].present \cup manifests[n].dlq \subseteq Keys
    /\ Len(manifests) <= MaxRevisions
    /\ odp \in [Keys -> {"absent", "present", "dlq"}]
    /\ lock \in {{}} \cup {{h} : h \in Calls}
    /\ pc \in [Calls -> PCs]
    /\ \A h \in Calls : local[h].answer \in 0 .. Len(manifests)
    /\ \A h \in Calls : pc[h] \in {"report_read", "receipts_read", "latest", "reconcile",
                                   "exact", "dlq", "page"} <=> h \in lock

(* A final status is backed by every fact it was made from: "completed"    *)
(* means that all reported keys are committed in ODP and no receipt it     *)
(* used rejects one, "partial" that each reported key is committed, dead-  *)
(* lettered or rejected by every receipt, "completed_empty" that the       *)
(* report declares no key.  Reports and receipts that were accepted        *)
(* without seeing each other, and records that move between two ODP        *)
(* queries of the same call, must not leave a gap.                         *)
FinalityIsBacked ==
    \A n \in DOMAIN manifests :
        LET m == manifests[n]
            Rejecting(k) == {i \in Retained(m.receipts) :
                                k \in DOMAIN m.receipts[i] /\ m.receipts[i][k] = "rejected"}
        IN  /\ m.status \in Terminal => m.report # NoFact
            /\ m.status = "completed_empty" => m.report.keys = {}
            /\ m.status = "completed" =>
                  \A k \in m.report.keys : k \in Keys /\ odp[k] = "present" /\ Rejecting(k) = {}
            /\ m.status = "partial" =>
                  \A k \in m.report.keys :
                      /\ k \in Keys
                      /\ IF Rejecting(k) = {} THEN odp[k] # "absent"
                         ELSE Rejecting(k) = Retained(m.receipts)

(* A call never answers with a manifest that is older than the call: every *)
(* report and receipt that was retained when it began is an input of the   *)
(* revision it returns, so a replayed final status cannot hide a receipt   *)
(* that came after it.                                                     *)
AnswerIsFresh ==
    \A h \in Calls :
        pc[h] = "answered" =>
            LET m == manifests[local[h].answer] IN
            /\ local[h].began[1] \in {NoFact, m.report}
            /\ \A i \in ReceiptIds : local[h].began[2][i] \in {NoFact, m.receipts[i]}

(* Retained facts and revisions are immutable: no replay of a receipt, no  *)
(* second report and no reconciliation rewrites what a reader may already  *)
(* have used.                                                              *)
FactsStand ==
    [][/\ report # NoFact => report' = report
       /\ \A i \in ReceiptIds : receipts[i] # NoFact => receipts'[i] = receipts[i]
       /\ IsPrefix(manifests, manifests')]_vars

(* A final revision is only followed by another one for the same facts     *)
(* when a caller asked for a recovery: two plain calls that race do not    *)
(* query ODP into a second opinion.                                        *)
FinalityReplays ==
    [][Len(manifests') > Len(manifests) /\ manifests # <<>> =>
          \/ Last(manifests).status \notin Terminal
          \/ <<Last(manifests').report, Last(manifests').receipts>>
                # <<Last(manifests).report, Last(manifests).receipts>>
          \/ \E h \in lock : local[h].force]_vars
=============================================================================
