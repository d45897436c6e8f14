----------------------------- MODULE RemoteTask -----------------------------
(***************************************************************************)
(* What the agent gateway promises its callers about a remote execution.   *)
(* A request may be put on the wire, may start at the edge, and is over    *)
(* once nothing of it can run any more.  The caller gets at most one       *)
(* verdict: "settled" claims that the execution is over (or was never      *)
(* sent), "unresolved" claims nothing.  A proof, kept for a caller that    *)
(* was left unresolved, is gained only when the execution is over, and may *)
(* be forgotten.                                                           *)
(***************************************************************************)
CONSTANT Requests

VARIABLES sent,     \* the request was put on the wire
          exec,     \* "idle" | "live" | "over": the execution at the edge
          verdict,  \* "none" | "settled" | "unresolved": what the caller got
          proof     \* evidence of completed cleanup is held for the request

remoteVars == <<sent, exec, verdict, proof>>

RemoteTypeOK ==
    /\ sent \in [Requests -> BOOLEAN]
    /\ exec \in [Requests -> {"idle", "live", "over"}]
    /\ verdict \in [Requests -> {"none", "settled", "unresolved"}]
    /\ proof \in [Requests -> BOOLEAN]

RemoteInit ==
    /\ sent = [r \in Requests |-> FALSE]
    /\ exec = [r \in Requests |-> "idle"]
    /\ verdict = [r \in Requests |-> "none"]
    /\ proof = [r \in Requests |-> FALSE]

\* The request leaves for the edge; never after the caller has its verdict.
Send(r) ==
    /\ ~sent[r] /\ verdict[r] = "none"
    /\ sent' = [sent EXCEPT ![r] = TRUE]
    /\ UNCHANGED <<exec, verdict, proof>>

Start(r) ==
    /\ sent[r] /\ exec[r] = "idle"
    /\ exec' = [exec EXCEPT ![r] = "live"]
    /\ UNCHANGED <<sent, verdict, proof>>

Stop(r) ==
    /\ exec[r] = "live"
    /\ exec' = [exec EXCEPT ![r] = "over"]
    /\ UNCHANGED <<sent, verdict, proof>>

\* Requests of S that had not started never will.
Drop(S) ==
    /\ \A r \in S : sent[r] /\ exec[r] = "idle"
    /\ exec' = [r \in Requests |-> IF r \in S THEN "over" ELSE exec[r]]
    /\ UNCHANGED <<sent, verdict, proof>>

Settle(r) ==
    /\ verdict[r] = "none"
    /\ ~sent[r] \/ exec[r] = "over"
    /\ verdict' = [verdict EXCEPT ![r] = "settled"]
    /\ UNCHANGED <<sent, exec, proof>>

GiveUp(r) ==
    /\ verdict[r] = "none"
    /\ verdict' = [verdict EXCEPT ![r] = "unresolved"]
    /\ UNCHANGED <<sent, exec, proof>>

Learn(r) ==
    /\ exec[r] = "over"
    /\ proof' = [proof EXCEPT ![r] = TRUE]
    /\ UNCHANGED <<sent, exec, verdict>>

Forget(S) ==
    /\ proof' = [r \in Requests |-> proof[r] /\ r \notin S]
    /\ UNCHANGED <<sent, exec, verdict>>

RemoteNext ==
    \/ \E r \in Requests :
          Send(r) \/ Start(r) \/ Stop(r) \/ Settle(r) \/ GiveUp(r) \/ Learn(r)
    \/ \E S \in SUBSET Requests : Drop(S) \/ Forget(S)

RemoteSpec == RemoteInit /\ [][RemoteNext]_remoteVars

-----------------------------------------------------------------------------
\* A settled verdict and a proof are never about an execution that can run.
VerdictIsSound ==
    \A r \in Requests :
        /\ verdict[r] = "settled" => exec[r] # "live" /\ (exec[r] = "idle" => ~sent[r])
        /\ proof[r] => exec[r] = "over"
=============================================================================
