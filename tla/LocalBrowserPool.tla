--------------------------- MODULE LocalBrowserPool ---------------------------
(***************************************************************************)
(* LocalBrowserPool (backend/browser_pool.py): one-token queues per Chrome *)
(* endpoint, profile locks, the two reservation checks of acquire(), the   *)
(* race of an unrouted acquire(), the account creation that reserves an    *)
(* endpoint while it holds it (backend/api/v1/browser_accounts.py), and    *)
(* the operator and node routes that change the pool while it is used      *)
(* (backend/api/v1/browsers.py, nodes.py).                                 *)
(*                                                                         *)
(* An action is the code between two awaits; get() and the profile lock    *)
(* are awaits of their own, as they suspend when busy.  A queue is an      *)
(* object: an endpoint that is removed and added again has a new one, and  *)
(* whoever waits on the old one goes on waiting there.                     *)
(***************************************************************************)
EXTENDS BrowserPool, Naturals, FiniteSets

CONSTANTS
    Callers,     \* concurrent tasks that call acquire()
    Profiles,    \* profile names an operator can give; the default is the endpoint
    AnyEndpoint, \* acquire(endpoint=None)
    NoCaller,
    MaxQueues,   \* bound: queues created per endpoint
    Removable,   \* endpoints that nodes or operators remove and add
    Renamable,   \* endpoints whose profile name changes
    Retyped,     \* endpoints whose profile kind changes
    Degradable,  \* endpoints whose runtime status changes
    SpaceHosts   \* endpoints that Browser Spaces reserve

ASSUME PoolAssumption ==
    /\ AnyEndpoint \notin Endpoints
    /\ NoCaller \notin Callers
    /\ Endpoints \cap Profiles = {}
    /\ MaxQueues \in Nat \ {0}
    /\ \A S \in {Removable, Renamable, Retyped, Degradable, SpaceHosts} : S \subseteq Endpoints

VARIABLES
    current,   \* _slots: the number of the endpoint's queue, 0 if not in the pool
    made,      \* queues created so far
    tokens,    \* queues that hold their token
    name,      \* _profile_names
    kind,      \* _profile_kinds
    ready,     \* is_ready: runtime status READY or LEGACY
    lock,      \* _profile_locks
    accounts,  \* endpoints reserved by an account or login_reserved
    spaces,    \* endpoints reserved by an open Browser Space
    caller,    \* the callers of acquire()
    orphans    \* queues with a get() task nobody waits for

vars == <<current, made, tokens, name, kind, ready, lock, accounts, spaces, caller, orphans>>
settings == <<name, kind, ready>>
membership == <<current, made>>
reservations == <<accounts, spaces>>

Queues == Endpoints \X (1..MaxQueues)
Names == Endpoints \cup Profiles
Kinds == {"anonymous", "authenticated"}

Waiting == {"getting", "race", "racing"}
Holding == {"locking", "recheck", "using"}
CallerPCs == {"idle", "admit", "any"} \cup Waiting \cup Holding

\* want: the endpoint argument; anonymous: required_profile_kind; account: the
\* caller is create_account; seen: the reservations it has read; waits: the
\* queues of its get() calls; got: those that have answered; ep, profile: what
\* it has acquired.
CallerType ==
    [at : CallerPCs, want : Endpoints \cup {AnyEndpoint}, anonymous : BOOLEAN,
     account : BOOLEAN, seen : SUBSET Endpoints, waits : SUBSET Queues,
     got : SUBSET Queues, ep : Endpoints \cup {AnyEndpoint},
     profile : Names \cup {AnyEndpoint}]

IdleCaller == [at |-> "idle", want |-> AnyEndpoint, anonymous |-> FALSE, account |-> FALSE,
               seen |-> {}, waits |-> {}, got |-> {}, ep |-> AnyEndpoint,
               profile |-> AnyEndpoint]

TypeOK ==
    /\ current \in [Endpoints -> 0..MaxQueues]
    /\ made \in [Endpoints -> 0..MaxQueues]
    /\ tokens \in SUBSET Queues
    /\ name \in [Endpoints -> Names]
    /\ kind \in [Endpoints -> Kinds]
    /\ ready \in [Endpoints -> BOOLEAN]
    /\ lock \in [Names -> Callers \cup {NoCaller}]
    /\ accounts \in SUBSET Endpoints
    /\ spaces \in SUBSET Endpoints
    /\ caller \in [Callers -> CallerType]
    /\ orphans \in SUBSET Queues

Init ==
    /\ current = [e \in Endpoints |-> 1]
    /\ made = [e \in Endpoints |-> 1]
    /\ tokens = {<<e, 1>> : e \in Endpoints}
    /\ name = [e \in Endpoints |-> e]
    /\ kind = [e \in Endpoints |-> "authenticated"]
    /\ ready = [e \in Endpoints |-> TRUE]
    /\ lock = [p \in Names |-> NoCaller]
    /\ accounts = {}
    /\ spaces = {}
    /\ caller = [c \in Callers |-> IdleCaller]
    /\ orphans = {}

Present(e) == current[e] # 0
Cur(e) == <<e, current[e]>>

\* _reserved_endpoints
Reserved == accounts \cup spaces

Ends(c) == caller' = [caller EXCEPT ![c] = IdleCaller]

-----------------------------------------------------------------------------
(* acquire *)

\* The call, up to the first reading of the reservations.
Acquire(c) ==
    /\ caller[c].at = "idle"
    /\ \E w \in Endpoints \cup {AnyEndpoint}, anonymous, account \in BOOLEAN :
          /\ (anonymous \/ account) => w # AnyEndpoint
          /\ ~(anonymous /\ account)
          /\ caller' = [caller EXCEPT ![c] =
                [IdleCaller EXCEPT !.at = "admit", !.want = w, !.anonymous = anonymous,
                                   !.account = account, !.seen = Reserved]]
    /\ UNCHANGED <<membership, tokens, settings, lock, reservations, orphans>>

\* The endpoint is reserved, not of the required kind, or not ready.
Refused(c) ==
    LET w == caller[c].want IN
    \/ w \in caller[c].seen
    \/ caller[c].anonymous /\ (~Present(w) \/ kind[w] # "anonymous")
    \/ w # AnyEndpoint /\ Present(w) /\ ~ready[w]

\* On to the endpoint's own queue, or to any slot if there is no such endpoint.
Admit(c) ==
    LET w == caller[c].want
        routed == w # AnyEndpoint /\ Present(w)
    IN  /\ caller[c].at = "admit"
        /\ \/ Refused(c) /\ Ends(c)
           \/ /\ ~Refused(c) /\ routed
              /\ caller' = [caller EXCEPT ![c].at = "getting", ![c].waits = {Cur(w)},
                                          ![c].seen = {}]
           \/ /\ ~Refused(c) /\ ~routed
              /\ caller' = [caller EXCEPT ![c].at = "any", ![c].seen = Reserved]
        /\ UNCHANGED <<membership, tokens, settings, lock, reservations, orphans>>

\* self._slots[e].put_nowait(e); KeyError and QueueFull leave the queues alone.
Put(e, toks) == toks \cup (IF Present(e) THEN {Cur(e)} ELSE {})

\* A caller that has got its token reads the profile name.  create_account goes
\* on only if it is the endpoint it has asked for.
Acquired(c, q) ==
    [IdleCaller EXCEPT !.at = "locking", !.ep = q[1], !.profile = name[q[1]],
                       !.account = caller[c].account /\ q[1] = caller[c].want]

\* A routed get() answers; the kind is compared once more before the lock.
TakeSlot(c) ==
    /\ caller[c].at = "getting"
    /\ \E q \in caller[c].waits \cap tokens :
          IF caller[c].anonymous /\ kind[q[1]] # "anonymous"
            THEN /\ tokens' = Put(q[1], tokens \ {q})
                 /\ Ends(c)
            ELSE /\ tokens' = tokens \ {q}
                 /\ caller' = [caller EXCEPT ![c] = Acquired(c, q)]
    /\ UNCHANGED <<membership, settings, lock, reservations, orphans>>

\* _acquire_any: one get() task per ready slot that is not reserved.
AnyStart(c) ==
    LET slots == {Cur(e) : e \in {d \in Endpoints \ caller[c].seen : Present(d) /\ ready[d]}}
    IN  /\ caller[c].at = "any"
        /\ \/ slots = {} /\ Ends(c)
           \/ /\ slots # {}
              /\ caller' = [caller EXCEPT ![c].at = "race", ![c].waits = slots,
                                          ![c].seen = {}]
        /\ UNCHANGED <<membership, tokens, settings, lock, reservations, orphans>>

\* The tasks take their first step one after the other: every free token is taken.
RaceRun(c) ==
    /\ caller[c].at = "race"
    /\ caller' = [caller EXCEPT ![c].at = "racing", ![c].got = caller[c].waits \cap tokens]
    /\ tokens' = tokens \ caller[c].waits
    /\ UNCHANGED <<membership, settings, lock, reservations, orphans>>

\* A task of the race is woken by a token put back.
RaceWake(c) ==
    /\ caller[c].at = "racing"
    /\ \E q \in (caller[c].waits \ caller[c].got) \cap tokens :
          /\ caller' = [caller EXCEPT ![c].got = @ \cup {q}]
          /\ tokens' = tokens \ {q}
    /\ UNCHANGED <<membership, settings, lock, reservations, orphans>>

\* One of the answers is kept, the pending tasks are cancelled.
RaceEnd(c) ==
    /\ caller[c].at = "racing"
    /\ \E q \in caller[c].got :
          caller' = [caller EXCEPT ![c] = Acquired(c, q)]
    /\ UNCHANGED <<membership, tokens, settings, lock, reservations, orphans>>

LockProfile(c) ==
    /\ caller[c].at = "locking"
    /\ lock[caller[c].profile] = NoCaller
    /\ lock' = [lock EXCEPT ![caller[c].profile] = c]
    /\ caller' = [caller EXCEPT ![c].at = "recheck"]
    /\ UNCHANGED <<membership, tokens, settings, reservations, orphans>>

\* The finally clause: the lock first, then the token.
FreeSlot(c) ==
    /\ lock' = [lock EXCEPT ![caller[c].profile] = NoCaller]
    /\ tokens' = Put(caller[c].ep, tokens)
    /\ Ends(c)

\* Mutant: the reservations are not read again under the lock.
RecheckSkipped(c) ==
    /\ caller[c].at = "recheck"
    /\ caller' = [caller EXCEPT ![c].at = "using"]
    /\ UNCHANGED <<lock, tokens, membership, settings, reservations, orphans>>

\* The second reading of the reservations, under the profile lock.
Recheck(c) ==
    /\ caller[c].at = "recheck"
    /\ \/ /\ caller[c].ep \notin Reserved
          /\ caller' = [caller EXCEPT ![c].at = "using"]
          /\ UNCHANGED <<lock, tokens>>
       \/ /\ caller[c].ep \in Reserved
          /\ FreeSlot(c)
    /\ UNCHANGED <<membership, settings, reservations, orphans>>

\* The body ends, or an exception or a cancellation leaves it.
Release(c) ==
    /\ caller[c].at \in {"recheck", "using"}
    /\ FreeSlot(c)
    /\ UNCHANGED <<membership, settings, reservations, orphans>>

\* Mutant: waiting for the lock is inside the try, so that a
\* cancelled waiter releases the lock of another task.
GiveUpInsideTry(c) ==
    /\ caller[c].at = "locking" /\ lock[caller[c].profile] # NoCaller
    /\ FreeSlot(c)
    /\ UNCHANGED <<membership, settings, reservations, orphans>>

\* A caller is cancelled or times out at an await before the try: nothing is
\* put back, and the tasks of a race go on without it.  A free lock does not
\* suspend its caller.
GiveUp(c) ==
    /\ \/ caller[c].at \in {"admit", "any"} \cup Waiting
       \/ caller[c].at = "locking" /\ lock[caller[c].profile] # NoCaller
    /\ orphans' = IF caller[c].at \in {"race", "racing"}
                    THEN orphans \cup (caller[c].waits \ caller[c].got) ELSE orphans
    /\ Ends(c)
    /\ UNCHANGED <<membership, tokens, settings, lock, reservations>>

OrphanTakes(q) ==
    /\ q \in orphans \cap tokens
    /\ tokens' = tokens \ {q}
    /\ orphans' = orphans \ {q}
    /\ UNCHANGED <<membership, settings, lock, reservations, caller>>

-----------------------------------------------------------------------------
(* Reservations *)

\* create_account: inside acquire(), after require_unassigned.  The row may have
\* outlived the slot (an agent container that was removed).
ReserveAccount(c) ==
    /\ caller[c].at = "using" /\ caller[c].account
    /\ caller[c].ep \notin Reserved
    /\ accounts' = accounts \cup {caller[c].ep}
    /\ UNCHANGED <<membership, tokens, settings, lock, spaces, caller, orphans>>

\* create_space looks for another open Space, close_space ends one.
OpenSpace(e) ==
    /\ e \in SpaceHosts \ spaces
    /\ spaces' = spaces \cup {e}
    /\ UNCHANGED <<membership, tokens, settings, lock, accounts, caller, orphans>>

CloseSpace(e) ==
    /\ e \in spaces
    /\ spaces' = spaces \ {e}
    /\ UNCHANGED <<membership, tokens, settings, lock, accounts, caller, orphans>>

-----------------------------------------------------------------------------
(* Operators and nodes *)

\* remove_endpoint pops the slot and every setting of the endpoint.
Forget(e) ==
    /\ current' = [current EXCEPT ![e] = 0]
    /\ name' = [name EXCEPT ![e] = e]
    /\ kind' = [kind EXCEPT ![e] = "authenticated"]
    /\ ready' = [ready EXCEPT ![e] = TRUE]

\* Every route asks require_unassigned first; none looks at the slot.
RemoveEndpoint(e) ==
    /\ e \in Removable \ Reserved /\ Present(e)
    /\ Forget(e)
    /\ UNCHANGED <<made, tokens, lock, reservations, caller, orphans>>

\* remove_account with clear_login_data.
RemoveAccount(e) ==
    /\ e \in Removable \cap accounts
    /\ accounts' = accounts \ {e}
    /\ Forget(e)
    /\ UNCHANGED <<made, tokens, lock, spaces, caller, orphans>>

\* What the BrowserInstance row, a node or a runtime report can configure.
Settings(e) ==
    [n : {e} \cup (IF e \in Renamable THEN Profiles ELSE {}),
     k : {"authenticated"} \cup (IF e \in Retyped THEN {"anonymous"} ELSE {}),
     r : {TRUE} \cup (IF e \in Degradable THEN {FALSE} ELSE {})]

Configured(e, s) ==
    /\ name' = [name EXCEPT ![e] = s.n]
    /\ kind' = [kind EXCEPT ![e] = s.k]
    /\ ready' = [ready EXCEPT ![e] = s.r]

\* add_endpoint with the settings its caller makes before it returns.
AddEndpoint(e) ==
    /\ ~Present(e) /\ made[e] < MaxQueues
    /\ made' = [made EXCEPT ![e] = @ + 1]
    /\ current' = [current EXCEPT ![e] = made[e] + 1]
    /\ tokens' = tokens \cup {<<e, made[e] + 1>>}
    /\ \E s \in Settings(e) : Configured(e, s)
    /\ UNCHANGED <<lock, reservations, caller, orphans>>

\* update_instance_config, _managed_browser_pool, report_runtime_deployment, _pool_add.
Configure(e) ==
    /\ Present(e)
    /\ \E s \in Settings(e) : Configured(e, s)
    /\ UNCHANGED <<membership, tokens, lock, reservations, caller, orphans>>

Using(c) ==
    \/ Acquire(c) \/ Admit(c) \/ TakeSlot(c) \/ AnyStart(c)
    \/ RaceRun(c) \/ RaceWake(c) \/ RaceEnd(c) \/ LockProfile(c)
    \/ Recheck(c) \/ Release(c) \/ GiveUp(c) \/ ReserveAccount(c)

Operating(e) ==
    \/ OpenSpace(e) \/ CloseSpace(e)
    \/ RemoveEndpoint(e) \/ RemoveAccount(e) \/ AddEndpoint(e) \/ Configure(e)

Next ==
    \/ \E c \in Callers : Using(c)
    \/ \E e \in Endpoints : Operating(e)
    \/ \E q \in Queues : OrphanTakes(q)

Spec == Init /\ [][Next]_vars

-----------------------------------------------------------------------------
(* Properties *)

(***************************************************************************)
(* "This ensures at most one concurrent task per Chrome instance."         *)
(***************************************************************************)
OneTaskPerChrome ==
    \A c, d \in Callers :
        (c # d /\ caller[c].at = "using" /\ caller[d].at = "using")
            => caller[c].ep # caller[d].ep

(***************************************************************************)
(* Two tasks use one Chrome only if its slot was removed and added again,  *)
(* so that there is a second token, and they hold the locks of different   *)
(* profile names: neither the doubled token nor a renaming alone lets      *)
(* routed, unrouted or anonymous callers, cancelled or not, meet there.    *)
(***************************************************************************)
SharingNeedsReadding ==
    \A c, d \in Callers :
        (c # d /\ caller[c].at = "using" /\ caller[d].at = "using"
               /\ caller[c].ep = caller[d].ep)
            => made[caller[c].ep] > 1 /\ caller[c].profile # caller[d].profile

(***************************************************************************)
(* An endpoint that holds a login is private: once create_account has      *)
(* reserved it, no other task is using it, although tasks that were let in *)
(* before the reservation may still have been waiting for the slot.  Only  *)
(* an endpoint that was removed and added again and whose profile name     *)
(* changes can have had a second user when it was reserved.                *)
(***************************************************************************)
LoginIsPrivate ==
    \A c \in Callers :
        (caller[c].at = "using" /\ caller[c].ep \in accounts /\ ~caller[c].account)
            => made[caller[c].ep] > 1 /\ caller[c].ep \in Renamable
=============================================================================
