--------------------------- MODULE RedisBrowserPool ---------------------------
(***************************************************************************)
(* RedisBrowserPool.acquire (backend/browser_pool.py): the lease of a      *)
(* Chrome endpoint that tasks of several worker processes take in Redis    *)
(* (SET NX PX), renew from a task of their own, and give back with a       *)
(* compare-and-delete.                                                     *)
(*                                                                         *)
(* Time advances in renewal periods (_LEASE_RENEW_SECONDS); a lease lives  *)
(* LeasePeriods of them (_LEASE_TTL_MS).  A renewal is made within a       *)
(* period of its time, except by the tasks in Slow, whose event loop or    *)
(* connection may be late by any time.                                     *)
(*                                                                         *)
(* An owner string is only compared with the one its own task carries, so  *)
(* a lease is the task that carries its string, or Ghost when none does.   *)
(***************************************************************************)
EXTENDS BrowserPool, Naturals

CONSTANTS
    Tasks,          \* concurrent calls of acquire(), in any worker process
    Free, Ghost,    \* no lease; a lease whose owner string nobody carries
    NoEndpoint,
    LeasePeriods,   \* _LEASE_TTL_MS / _LEASE_RENEW_SECONDS
    Slow,           \* tasks whose renewals may be late
    RenewalErrors   \* whether Redis may raise in renew()

ASSUME RedisAssumption ==
    /\ Free \notin Tasks /\ Ghost \notin Tasks /\ Free # Ghost
    /\ NoEndpoint \notin Endpoints
    /\ LeasePeriods \in Nat /\ LeasePeriods > 1
    /\ Slow \subseteq Tasks
    /\ RenewalErrors \in BOOLEAN

VARIABLES
    lease,      \* the lease keys in Redis
    age,        \* periods since a lease was set or renewed
    at,         \* where a task is in acquire()
    candidates, \* the endpoints it tries
    ep,         \* the endpoint it has leased
    renewal,    \* its renew() task
    due         \* a renewal is due

leaseVars == <<lease, age, at, candidates, ep, renewal, due>>

Owning == {"recheck", "using"}
Points == {"idle", "trying", "answered", "releasing"} \cup Owning
Renewals == {"off", "on", "lost", "failed"}

LeaseTypeOK ==
    /\ lease \in [Endpoints -> Tasks \cup {Free, Ghost}]
    /\ age \in [Endpoints -> 0..(LeasePeriods - 1)]
    /\ at \in [Tasks -> Points]
    /\ candidates \in [Tasks -> SUBSET Endpoints]
    /\ ep \in [Tasks -> Endpoints \cup {NoEndpoint}]
    /\ renewal \in [Tasks -> Renewals]
    /\ due \in [Tasks -> BOOLEAN]

LeaseInit ==
    /\ lease = [e \in Endpoints |-> Free]
    /\ age = [e \in Endpoints |-> 0]
    /\ at = [t \in Tasks |-> "idle"]
    /\ candidates = [t \in Tasks |-> {}]
    /\ ep = [t \in Tasks |-> NoEndpoint]
    /\ renewal = [t \in Tasks |-> "off"]
    /\ due = [t \in Tasks |-> FALSE]

\* The call is over; what it still has in Redis is nobody's.
EndsTask(t) ==
    /\ at' = [at EXCEPT ![t] = "idle"]
    /\ candidates' = [candidates EXCEPT ![t] = {}]
    /\ ep' = [ep EXCEPT ![t] = NoEndpoint]
    /\ renewal' = [renewal EXCEPT ![t] = "off"]
    /\ due' = [due EXCEPT ![t] = FALSE]

Abandoned(t) == [e \in Endpoints |-> IF lease[e] = t THEN Ghost ELSE lease[e]]

-----------------------------------------------------------------------------
(* acquire *)

\* Candidates are ready endpoints that are not reserved: the requested one, or
\* any.  Which are ready, and which an account or a Browser Space reserves, is
\* left open: create_account refuses this pool, others write the rows.
AcquireLease(t) ==
    /\ at[t] = "idle"
    /\ \E S \in SUBSET Endpoints \ {{}} : candidates' = [candidates EXCEPT ![t] = S]
    /\ at' = [at EXCEPT ![t] = "trying"]
    /\ UNCHANGED <<lease, age, ep, renewal, due>>

\* Redis executes SET NX PX for one candidate; a failed one is tried again.
SetLease(t) ==
    /\ at[t] = "trying"
    /\ \E e \in candidates[t] :
          /\ lease[e] = Free
          /\ lease' = [lease EXCEPT ![e] = t]
          /\ age' = [age EXCEPT ![e] = 0]
          /\ ep' = [ep EXCEPT ![t] = e]
    /\ at' = [at EXCEPT ![t] = "answered"]
    /\ UNCHANGED <<candidates, renewal, due>>

\* The answer arrives and the renew() task is created.
Begin(t) ==
    /\ at[t] = "answered"
    /\ at' = [at EXCEPT ![t] = "recheck"]
    /\ renewal' = [renewal EXCEPT ![t] = "on"]
    /\ UNCHANGED <<lease, age, candidates, ep, due>>

\* The deadline of the wait, a cancellation or an error of Redis, before the try.
GiveUpLease(t) ==
    /\ at[t] \in {"trying", "answered"}
    /\ lease' = Abandoned(t)
    /\ EndsTask(t)
    /\ UNCHANGED age

\* The reservations are read again; a reserved endpoint is left by Leave.
RecheckLease(t) ==
    /\ at[t] = "recheck"
    /\ at' = [at EXCEPT ![t] = "using"]
    /\ UNCHANGED <<lease, age, candidates, ep, renewal, due>>

-----------------------------------------------------------------------------
(* renew *)

\* Mutant: a lease that is no longer its own does not cancel the owner.
RenewRegardless(t) ==
    /\ renewal[t] = "on" /\ due[t]
    /\ age' = IF lease[ep[t]] = t THEN [age EXCEPT ![ep[t]] = 0] ELSE age
    /\ due' = [due EXCEPT ![t] = FALSE]
    /\ UNCHANGED <<lease, at, candidates, ep, renewal>>

\* Mutant: PEXPIRE without comparing the owner.
RenewAnyOwner(t) ==
    /\ renewal[t] = "on" /\ due[t]
    /\ age' = [age EXCEPT ![ep[t]] = 0]
    /\ due' = [due EXCEPT ![t] = FALSE]
    /\ UNCHANGED <<lease, at, candidates, ep, renewal>>

\* Compare and PEXPIRE; the owning task of a lost lease is cancelled.
Renew(t) ==
    /\ renewal[t] = "on" /\ due[t]
    /\ \/ /\ lease[ep[t]] = t
          /\ age' = [age EXCEPT ![ep[t]] = 0]
          /\ UNCHANGED renewal
       \/ /\ lease[ep[t]] # t
          /\ renewal' = [renewal EXCEPT ![t] = "lost"]
          /\ UNCHANGED age
    /\ due' = [due EXCEPT ![t] = FALSE]
    /\ UNCHANGED <<lease, at, candidates, ep>>

\* Redis raises: the renew() task ends and nobody looks at it before release.
RenewError(t) ==
    /\ RenewalErrors
    /\ renewal[t] = "on" /\ due[t]
    /\ renewal' = [renewal EXCEPT ![t] = "failed"]
    /\ due' = [due EXCEPT ![t] = FALSE]
    /\ UNCHANGED <<lease, age, at, candidates, ep>>

-----------------------------------------------------------------------------
(* Release *)

\* The body ends or raises, the endpoint is reserved, or the task is cancelled.
\* Awaiting a renew() task that has failed raises, and nothing is released.
Leave(t) ==
    /\ at[t] \in Owning
    /\ \/ /\ renewal[t] = "failed"
          /\ lease' = Abandoned(t)
          /\ EndsTask(t)
       \/ /\ renewal[t] # "failed"
          /\ at' = [at EXCEPT ![t] = "releasing"]
          /\ renewal' = [renewal EXCEPT ![t] = "off"]
          /\ due' = [due EXCEPT ![t] = FALSE]
          /\ UNCHANGED <<lease, candidates, ep>>
    /\ UNCHANGED age

\* The cancellation that a lost lease sends reaches the owning task.
Stop(t) == renewal[t] = "lost" /\ Leave(t)

\* Mutant: DEL without comparing the owner.
ReleaseAnyOwner(t) ==
    /\ at[t] = "releasing"
    /\ lease' = [lease EXCEPT ![ep[t]] = Free]
    /\ EndsTask(t)
    /\ UNCHANGED age

\* Compare and DEL.
ReleaseLease(t) ==
    /\ at[t] = "releasing"
    /\ lease' = [lease EXCEPT ![ep[t]] = IF @ = t THEN Free ELSE @]
    /\ EndsTask(t)
    /\ UNCHANGED age

\* The worker is killed, or the release fails.
Crash(t) ==
    /\ at[t] # "idle"
    /\ lease' = Abandoned(t)
    /\ EndsTask(t)
    /\ UNCHANGED age

-----------------------------------------------------------------------------
(* Time *)

Prompt(t) == t \in Slow \/ ~(due[t] \/ at[t] = "answered")

\* A period passes: renewals fall due and leases expire.
Tick ==
    /\ \A t \in Tasks : Prompt(t)
    /\ lease' = [e \in Endpoints |-> IF age[e] + 1 >= LeasePeriods THEN Free ELSE lease[e]]
    /\ age' = [e \in Endpoints |->
                  IF lease[e] = Free \/ age[e] + 1 >= LeasePeriods THEN 0 ELSE age[e] + 1]
    /\ due' = [t \in Tasks |-> renewal[t] = "on"]
    /\ UNCHANGED <<at, candidates, ep, renewal>>

Step(t) ==
    \/ AcquireLease(t) \/ SetLease(t) \/ Begin(t) \/ GiveUpLease(t) \/ RecheckLease(t)
    \/ Renew(t) \/ RenewError(t)
    \/ Leave(t) \/ ReleaseLease(t) \/ Crash(t)

LeaseNext == Tick \/ \E t \in Tasks : Step(t)

LeaseSpec == LeaseInit /\ [][LeaseNext]_leaseVars

\* Time goes on (the steps between two periods are no way to stop it), Redis
\* answers, and a cancelled task runs.
Fairness ==
    /\ SF_leaseVars(Tick)
    /\ \A t \in Tasks : WF_leaseVars(Begin(t)) /\ WF_leaseVars(Renew(t)) /\ WF_leaseVars(Stop(t))

FairSpec == LeaseSpec /\ Fairness

-----------------------------------------------------------------------------
(* Properties *)

(***************************************************************************)
(* "Safe across multiple Celery worker processes and machines": no two     *)
(* tasks use one Chrome at the same time.                                  *)
(***************************************************************************)
ExclusiveUse ==
    \A t, u \in Tasks :
        (t # u /\ at[t] = "using" /\ at[u] = "using") => ep[t] # ep[u]

(***************************************************************************)
(* Whatever the others do (late renewals, failed renewals, crashes, late   *)
(* releases of leases they have lost), a task that renews in time keeps    *)
(* its lease until it gives it back.                                       *)
(***************************************************************************)
TimelyOwnerHolds ==
    \A t \in Tasks \ Slow :
        (at[t] \in Owning /\ renewal[t] = "on") => lease[ep[t]] = t

(***************************************************************************)
(* Two tasks share a Chrome only by one of two failures: an event loop or  *)
(* a connection that let the lease expire, or a renew() task that ended    *)
(* with an error of Redis.  Neither the renewals, releases, crashes and    *)
(* cancellations of others nor a lease handed to the next task does it.    *)
(***************************************************************************)
SharingNeedsFailure ==
    \A t, u \in Tasks :
        (t # u /\ at[t] = "using" /\ at[u] = "using" /\ ep[t] = ep[u])
            => \E v \in {t, u} : v \in Slow \/ renewal[v] = "failed"

(***************************************************************************)
(* A lease that no task can give back (killed worker, cancelled between    *)
(* SET and its answer) does not keep its endpoint for ever.                *)
(***************************************************************************)
GhostExpires == \A e \in Endpoints : (lease[e] = Ghost) ~> (lease[e] # Ghost)

(***************************************************************************)
(* A task that has lost its lease is stopped: its renewal notices and      *)
(* cancels it ("if not renewed: owning_task.cancel()"), unless Redis has   *)
(* raised there.                                                           *)
(***************************************************************************)
LostLeaseStops ==
    \A t \in Tasks :
        (at[t] = "using" /\ lease[ep[t]] # t) ~> (at[t] # "using" \/ renewal[t] = "failed")
=============================================================================
