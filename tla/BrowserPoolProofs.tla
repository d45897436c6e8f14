-------------------------- MODULE BrowserPoolProofs --------------------------
(***************************************************************************)
(* Theorems of the two browser pools.                                      *)
(*                                                                         *)
(* LocalBrowserPool: for any callers, endpoints, profiles and queues, and  *)
(* whichever endpoints are removed, renamed or both.  SharingNeedsReadding *)
(* rests on the token as long as an endpoint has had one queue, and on the *)
(* lock of the profile afterwards; PoolInv says where both are.            *)
(*                                                                         *)
(* RedisBrowserPool: for any tasks, endpoints and lease time of more than  *)
(* one renewal period.  TimelyOwnerHolds is not inductive: that a lease    *)
(* does not expire under its owner depends on how old it may be, and that  *)
(* depends on whether a renewal is due.  OwnerInv says both.               *)
(***************************************************************************)
EXTENDS LocalBrowserPool, RedisBrowserPool, TLAPS

-----------------------------------------------------------------------------
(* LocalBrowserPool                                                        *)

\* Endpoints that have had no queue but their first, in the pool or removed.
Lasting == {e \in Endpoints : made[e] = 1}

\* A caller in state x has the token of e, a lasting endpoint.
Owns(x, e) ==
    \/ x.at = "racing" /\ <<e, 1>> \in x.got
    \/ x.at \in Holding /\ x.ep = e

\* What a caller holds: an endpoint and, unless its name can change meanwhile,
\* the profile of the same name.
HoldsProfile(x) ==
    x.at \in Holding =>
        /\ x.ep \in Endpoints /\ x.profile \in Names
        /\ x.ep \notin Renamable => x.profile = x.ep

\* Queues of lasting endpoints are their first.
FirstQueues(qs) == \A q \in qs : q[1] \in Lasting => q[2] = 1

\* The lock of a profile is with the caller that has passed it.
LockHeld ==
    \A c \in Callers : caller[c].at \in {"recheck", "using"} => lock[caller[c].profile] = c

PlacesKept ==
    /\ \A e \in Endpoints : made[e] # 0
    /\ \A e \in Lasting : current[e] \in {0, 1}
    /\ \A e \in Endpoints \ Renamable : name[e] = e

HoldingsKnown ==
    /\ FirstQueues(tokens)
    /\ \A c \in Callers : HoldsProfile(caller[c]) /\ FirstQueues(caller[c].got)

\* The token of a lasting endpoint is in its queue or with one caller, or lost.
TokenIsOne ==
    \A e \in Lasting, c \in Callers : Owns(caller[c], e) =>
        /\ <<e, 1>> \notin tokens
        /\ \A d \in Callers : Owns(caller[d], e) => d = c

PoolInv == TypeOK /\ LockHeld /\ PlacesKept /\ HoldingsKnown /\ TokenIsOne

-----------------------------------------------------------------------------
(* Data *)

LEMMA CallerMoves ==
    ASSUME TypeOK, NEW c \in Callers, NEW x \in CallerType,
           caller' = [caller EXCEPT ![c] = x]
    PROVE  /\ caller' \in [Callers -> CallerType]
           /\ caller'[c] = x
           /\ \A d \in Callers \ {c} : caller'[d] = caller[d]
BY DEF TypeOK, CallerType

LEMMA CallerTyped ==
    ASSUME TypeOK, NEW c \in Callers
    PROVE  /\ caller[c] \in CallerType
           /\ caller[c].at \in CallerPCs
           /\ caller[c].want \in Endpoints \cup {AnyEndpoint}
           /\ caller[c].anonymous \in BOOLEAN /\ caller[c].account \in BOOLEAN
           /\ caller[c].seen \in SUBSET Endpoints
           /\ caller[c].waits \in SUBSET Queues /\ caller[c].got \in SUBSET Queues
           /\ caller[c].ep \in Endpoints \cup {AnyEndpoint}
           /\ caller[c].profile \in Names \cup {AnyEndpoint}
BY DEF TypeOK, CallerType

\* A caller that is not in the pool holds nothing.
LEMMA IdleHoldsNothing ==
    /\ IdleCaller \in CallerType
    /\ IdleCaller.at = "idle" /\ IdleCaller.got = {}
    /\ HoldsProfile(IdleCaller)
    /\ \A e \in Lasting : ~Owns(IdleCaller, e)
BY DEF IdleCaller, CallerType, CallerPCs, HoldsProfile, Owns, Holding, Waiting

\* The slots that stand in the queues are queues of the pool.
LEMMA CurIsQueue ==
    ASSUME TypeOK, NEW e \in Endpoints, Present(e)
    PROVE  Cur(e) \in Queues
<1>1. current[e] \in 0 .. MaxQueues /\ current[e] # 0 /\ MaxQueues \in Nat
  BY PoolAssumption DEF TypeOK, Present
<1>2. current[e] \in 1 .. MaxQueues
  BY <1>1
<1> QED BY <1>2 DEF Cur, Queues

\* put_nowait gives a lasting endpoint its first queue's token.
LEMMA PutTokens ==
    ASSUME TypeOK, PlacesKept, NEW e \in Endpoints, NEW toks \in SUBSET Queues,
           FirstQueues(toks)
    PROVE  /\ Put(e, toks) \in SUBSET Queues
           /\ FirstQueues(Put(e, toks))
           /\ \A d \in Lasting : <<d, 1>> \in Put(e, toks) => <<d, 1>> \in toks \/ d = e
<1>1. CASE Present(e)
  <2>1. Put(e, toks) = toks \cup {Cur(e)} /\ Cur(e) \in Queues
    BY <1>1, CurIsQueue DEF Put
  <2>2. Cur(e)[1] = e /\ Cur(e)[2] = current[e] /\ (e \in Lasting => current[e] = 1)
    BY <1>1 DEF Cur, PlacesKept, Present
  <2>3. \A d \in Lasting : <<d, 1>> = Cur(e) => d = e
    BY DEF Cur
  <2> QED BY <2>1, <2>2, <2>3 DEF FirstQueues
<1>2. CASE ~Present(e)
  <2>1. Put(e, toks) = toks
    BY <1>2 DEF Put
  <2> QED BY <2>1
<1> QED BY <1>1, <1>2

-----------------------------------------------------------------------------
(* A step of one caller: what its new state and the queues have to satisfy. *)

CallerSteps(c, x) ==
    /\ caller' = [caller EXCEPT ![c] = x]
    /\ UNCHANGED <<membership, settings>>
    /\ accounts' \in SUBSET Endpoints /\ spaces' \in SUBSET Endpoints
    /\ orphans' \in SUBSET Queues
    /\ tokens' \in SUBSET Queues

\* Nobody's lock is taken away but the caller's own.
LocksStay(c) ==
    /\ lock' \in [Names -> Callers \cup {NoCaller}]
    /\ \A d \in Callers \ {c}, p \in Names : lock[p] = d => lock'[p] = d

\* A token comes from a queue or from the caller, and goes to one of them.
TokensMove(c, x) ==
    /\ FirstQueues(tokens') /\ FirstQueues(x.got)
    /\ \A e \in Lasting :
          /\ Owns(x, e) => /\ <<e, 1>> \notin tokens'
                           /\ <<e, 1>> \in tokens \/ Owns(caller[c], e)
          /\ <<e, 1>> \in tokens' => <<e, 1>> \in tokens \/ Owns(caller[c], e)

LEMMA CallerStepKeepsPool ==
    ASSUME PoolInv, NEW c \in Callers, NEW x \in CallerType,
           CallerSteps(c, x), LocksStay(c), TokensMove(c, x), HoldsProfile(x),
           x.at \in {"recheck", "using"} => lock'[x.profile] = c
    PROVE  PoolInv'
<1>0. /\ TypeOK /\ LockHeld /\ PlacesKept /\ HoldingsKnown /\ TokenIsOne
      /\ caller' = [caller EXCEPT ![c] = x]
      /\ current' = current /\ made' = made /\ name' = name /\ kind' = kind /\ ready' = ready
      /\ tokens' \in SUBSET Queues
  BY DEF PoolInv, CallerSteps, membership, settings
<1>1. /\ caller' \in [Callers -> CallerType]
      /\ caller'[c] = x
      /\ \A d \in Callers \ {c} : caller'[d] = caller[d]
      /\ Lasting' = Lasting
  BY <1>0, CallerMoves DEF Lasting
<1>2. TypeOK'
  BY <1>0, <1>1 DEF TypeOK, CallerType, CallerSteps, LocksStay
<1>3. LockHeld'
  <2> SUFFICES ASSUME NEW d \in Callers, caller'[d].at \in {"recheck", "using"}
               PROVE  lock'[caller'[d].profile] = d
    BY DEF LockHeld
  <2>1. CASE d = c
    BY <1>1, <2>1
  <2>2. CASE d # c
    <3>1. caller'[d] = caller[d]
      BY <1>1, <2>2
    <3>2. lock[caller[d].profile] = d /\ caller[d].profile \in Names
      BY <1>0, <3>1 DEF LockHeld, HoldingsKnown, HoldsProfile, Holding
    <3> QED BY <2>2, <3>1, <3>2 DEF LocksStay
  <2> QED BY <2>1, <2>2
<1>4. PlacesKept'
  BY <1>0, <1>1 DEF PlacesKept
<1>5. HoldingsKnown'
  <2>1. FirstQueues(tokens')
    BY DEF TokensMove
  <2>2. ASSUME NEW d \in Callers PROVE HoldsProfile(caller'[d]) /\ FirstQueues(caller'[d].got)
    BY <1>0, <1>1 DEF TokensMove, HoldingsKnown
  <2> QED BY <1>1, <2>1, <2>2 DEF HoldingsKnown, FirstQueues, HoldsProfile
<1>6. TokenIsOne'
  <2> SUFFICES ASSUME NEW e \in Lasting, NEW d \in Callers, Owns(caller'[d], e)
               PROVE  /\ <<e, 1>> \notin tokens'
                      /\ \A b \in Callers : Owns(caller'[b], e) => b = d
    BY <1>1 DEF TokenIsOne, Owns
  <2>1. /\ Owns(x, e) => <<e, 1>> \notin tokens'
        /\ Owns(x, e) => <<e, 1>> \in tokens \/ Owns(caller[c], e)
        /\ <<e, 1>> \in tokens' => <<e, 1>> \in tokens \/ Owns(caller[c], e)
    BY DEF TokensMove
  <2>2. \A a, b \in Callers : Owns(caller[a], e) /\ Owns(caller[b], e) => a = b
    BY <1>0 DEF TokenIsOne
  <2>3. \A a \in Callers : Owns(caller[a], e) => <<e, 1>> \notin tokens
    BY <1>0 DEF TokenIsOne
  <2>4. CASE d = c
    BY <1>1, <2>1, <2>2, <2>3, <2>4
  <2>5. CASE d # c
    BY <1>1, <2>1, <2>2, <2>3, <2>5
  <2> QED BY <2>4, <2>5
<1> QED BY <1>2, <1>3, <1>4, <1>5, <1>6 DEF PoolInv

\* A caller that is nowhere near a token.
LEMMA OutsideStep ==
    ASSUME PoolInv, NEW c \in Callers, NEW x \in CallerType,
           x.at \notin Holding \cup {"racing"}, FirstQueues(x.got),
           caller' = [caller EXCEPT ![c] = x],
           UNCHANGED <<membership, tokens, settings, lock, reservations>>,
           orphans' \in SUBSET Queues
    PROVE  PoolInv'
<1>0. /\ TypeOK /\ HoldingsKnown
      /\ tokens' = tokens /\ lock' = lock /\ accounts' = accounts /\ spaces' = spaces
  BY DEF PoolInv, reservations
<1>1. CallerSteps(c, x)
  BY <1>0 DEF CallerSteps, TypeOK
<1>2. LocksStay(c)
  BY <1>0 DEF LocksStay, TypeOK
<1>3. TokensMove(c, x)
  BY <1>0 DEF TokensMove, HoldingsKnown, Owns, Holding
<1>4. HoldsProfile(x) /\ x.at \notin {"recheck", "using"}
  BY DEF HoldsProfile, Holding
<1> QED BY <1>1, <1>2, <1>3, <1>4, CallerStepKeepsPool

LEMMA EndsStep ==
    ASSUME PoolInv, NEW c \in Callers, Ends(c),
           UNCHANGED <<membership, tokens, settings, lock, reservations>>,
           orphans' \in SUBSET Queues
    PROVE  PoolInv'
<1>1. IdleCaller.at \notin Holding \cup {"racing"} /\ FirstQueues(IdleCaller.got)
  BY IdleHoldsNothing DEF Holding, FirstQueues
<1>2. caller' = [caller EXCEPT ![c] = IdleCaller]
  BY DEF Ends
<1> QED BY <1>1, <1>2, IdleHoldsNothing, OutsideStep

\* acquire() up to the queue, or to the race.
LEMMA AcquireStep ==
    ASSUME PoolInv, NEW c \in Callers, Acquire(c)
    PROVE  PoolInv'
<1>1. PICK w \in Endpoints \cup {AnyEndpoint}, a \in BOOLEAN, b \in BOOLEAN :
          caller' = [caller EXCEPT ![c] =
              [IdleCaller EXCEPT !.at = "admit", !.want = w, !.anonymous = a,
                                 !.account = b, !.seen = Reserved]]
  BY DEF Acquire
<1> DEFINE x == [IdleCaller EXCEPT !.at = "admit", !.want = w, !.anonymous = a,
                                   !.account = b, !.seen = Reserved]
<1>2. Reserved \in SUBSET Endpoints
  BY DEF PoolInv, TypeOK, Reserved
<1>3. x \in CallerType /\ x.at = "admit" /\ x.got = {}
  BY <1>2 DEF IdleCaller, CallerType, CallerPCs
<1>4. caller' = [caller EXCEPT ![c] = x]
  BY <1>1
<1> HIDE DEF x
<1>5. x.at \notin Holding \cup {"racing"} /\ FirstQueues(x.got)
  BY <1>3 DEF Holding, FirstQueues
<1>6. /\ UNCHANGED <<membership, tokens, settings, lock, reservations>>
      /\ orphans' \in SUBSET Queues
  BY DEF Acquire, PoolInv, TypeOK
<1> QED BY <1>3, <1>4, <1>5, <1>6, OutsideStep

\* A caller that goes on before it has a token.
LEMMA GoesOnOutside ==
    ASSUME PoolInv, NEW c \in Callers, NEW p \in {"getting", "any", "race"},
           NEW ws \in SUBSET Queues, NEW S \in SUBSET Endpoints,
           caller' = [caller EXCEPT
               ![c] = [caller[c] EXCEPT !.at = p, !.waits = ws, !.seen = S]],
           UNCHANGED <<membership, tokens, settings, lock, reservations, orphans>>
    PROVE  PoolInv'
<1> DEFINE x == [caller[c] EXCEPT !.at = p, !.waits = ws, !.seen = S]
<1>1. TypeOK /\ caller[c] \in CallerType /\ FirstQueues(caller[c].got)
  BY CallerTyped DEF PoolInv, HoldingsKnown
<1>2. x \in CallerType /\ x.at = p /\ x.got = caller[c].got
  BY <1>1 DEF CallerType, CallerPCs, Waiting
<1>3. caller' = [caller EXCEPT ![c] = x]
  OBVIOUS
<1> HIDE DEF x
<1>4. x.at \notin Holding \cup {"racing"} /\ FirstQueues(x.got)
  BY <1>1, <1>2 DEF Holding
<1>5. orphans' \in SUBSET Queues
  BY <1>1 DEF TypeOK
<1> QED BY <1>2, <1>3, <1>4, <1>5, OutsideStep

LEMMA AdmitStep ==
    ASSUME PoolInv, NEW c \in Callers, Admit(c)
    PROVE  PoolInv'
<1> DEFINE w == caller[c].want
<1>0. /\ TypeOK /\ caller[c] \in CallerType
      /\ UNCHANGED <<membership, tokens, settings, lock, reservations, orphans>>
      /\ orphans' \in SUBSET Queues
  BY CallerTyped DEF PoolInv, Admit, TypeOK
<1>1. CASE Ends(c)
  BY <1>0, <1>1, EndsStep
<1>2. CASE /\ w # AnyEndpoint /\ Present(w)
           /\ caller' = [caller EXCEPT ![c].at = "getting", ![c].waits = {Cur(w)}, ![c].seen = {}]
  <2>1. w \in Endpoints
    BY <1>0, <1>2, CallerTyped
  <2>2. {Cur(w)} \in SUBSET Queues
    BY <1>0, <1>2, <2>1, CurIsQueue
  <2>3. caller' = [caller EXCEPT
            ![c] = [caller[c] EXCEPT !.at = "getting", !.waits = {Cur(w)}, !.seen = {}]]
    BY <1>0, <1>2 DEF TypeOK, CallerType
  <2>4. {} \in SUBSET Endpoints
    OBVIOUS
  <2> QED BY <1>0, <2>2, <2>3, <2>4, GoesOnOutside
<1>3. CASE caller' = [caller EXCEPT ![c].at = "any", ![c].seen = Reserved]
  <2>1. Reserved \in SUBSET Endpoints /\ caller[c].waits \in SUBSET Queues
    BY <1>0, CallerTyped DEF TypeOK, Reserved
  <2>2. caller' = [caller EXCEPT
            ![c] = [caller[c] EXCEPT !.at = "any", !.waits = caller[c].waits,
                                     !.seen = Reserved]]
    BY <1>0, <1>3 DEF TypeOK, CallerType
  <2> QED BY <1>0, <2>1, <2>2, GoesOnOutside
<1> QED BY <1>1, <1>2, <1>3 DEF Admit

LEMMA AnyStartStep ==
    ASSUME PoolInv, NEW c \in Callers, AnyStart(c)
    PROVE  PoolInv'
<1> DEFINE slots == {Cur(e) : e \in {d \in Endpoints \ caller[c].seen : Present(d) /\ ready[d]}}
<1>0. /\ TypeOK
      /\ UNCHANGED <<membership, tokens, settings, lock, reservations, orphans>>
      /\ orphans' \in SUBSET Queues
  BY DEF PoolInv, AnyStart, TypeOK
<1>1. slots \in SUBSET Queues
  BY <1>0, CurIsQueue
<1>2. \/ Ends(c)
      \/ caller' = [caller EXCEPT ![c].at = "race", ![c].waits = slots, ![c].seen = {}]
  BY DEF AnyStart
<1> HIDE DEF slots
<1>3. CASE Ends(c)
  BY <1>0, <1>3, EndsStep
<1>4. CASE caller' = [caller EXCEPT ![c].at = "race", ![c].waits = slots, ![c].seen = {}]
  <2>1. caller' = [caller EXCEPT
            ![c] = [caller[c] EXCEPT !.at = "race", !.waits = slots, !.seen = {}]]
    BY <1>0, <1>4 DEF TypeOK, CallerType
  <2>2. {} \in SUBSET Endpoints
    OBVIOUS
  <2> QED BY <1>0, <1>1, <2>1, <2>2, GoesOnOutside
<1> QED BY <1>2, <1>3, <1>4

\* What is cancelled or times out before the try keeps no token and no lock.
LEMMA GiveUpStep ==
    ASSUME PoolInv, NEW c \in Callers, GiveUp(c)
    PROVE  PoolInv'
<1>1. TypeOK /\ caller[c].waits \in SUBSET Queues
  BY CallerTyped DEF PoolInv
<1>2. orphans' \in SUBSET Queues
  BY <1>1 DEF GiveUp, TypeOK
<1> QED BY <1>2, EndsStep DEF GiveUp

-----------------------------------------------------------------------------
(* Steps that move a token. *)

\* What a caller is with the token it has got.
LEMMA AcquiredHolds ==
    ASSUME PoolInv, NEW c \in Callers, NEW q \in Queues
    PROVE  /\ Acquired(c, q) \in CallerType
           /\ Acquired(c, q).at = "locking" /\ Acquired(c, q).got = {}
           /\ Acquired(c, q).ep = q[1]
           /\ HoldsProfile(Acquired(c, q))
           /\ \A e \in Lasting : Owns(Acquired(c, q), e) => e = q[1]
<1>1. q[1] \in Endpoints /\ name[q[1]] \in Names
  BY DEF Queues, PoolInv, TypeOK
<1>2. caller[c].account \in BOOLEAN
  BY CallerTyped DEF PoolInv
<1>3. /\ Acquired(c, q) \in CallerType
      /\ Acquired(c, q).at = "locking" /\ Acquired(c, q).got = {}
      /\ Acquired(c, q).ep = q[1] /\ Acquired(c, q).profile = name[q[1]]
  BY <1>1, <1>2 DEF Acquired, IdleCaller, CallerType, CallerPCs, Holding
<1>4. HoldsProfile(Acquired(c, q))
  BY <1>1, <1>3 DEF HoldsProfile, PoolInv, PlacesKept
<1> QED BY <1>3, <1>4 DEF Owns

\* A caller before the lock takes the token of queue q, or has it already.
LEMMA TakesToken ==
    ASSUME PoolInv, NEW c \in Callers, NEW q \in Queues,
           q[1] \in Lasting => q[2] = 1 /\ (q \in tokens \/ Owns(caller[c], q[1])),
           tokens' = tokens \ {q},
           caller' = [caller EXCEPT ![c] = Acquired(c, q)],
           UNCHANGED <<membership, settings, lock, reservations, orphans>>
    PROVE  PoolInv'
<1> DEFINE x == Acquired(c, q)
<1>0. TypeOK /\ HoldingsKnown /\ TokenIsOne /\ lock' = lock
  BY DEF PoolInv
<1>1. /\ x \in CallerType /\ x.at = "locking" /\ x.got = {}
      /\ HoldsProfile(x)
      /\ \A e \in Lasting : Owns(x, e) => e = q[1]
  BY AcquiredHolds
<1>2. CallerSteps(c, x)
  BY <1>0 DEF CallerSteps, TypeOK, reservations
<1>3. LocksStay(c)
  BY <1>0 DEF LocksStay, TypeOK
<1> HIDE DEF x
<1>4. TokensMove(c, x)
  <2>1. FirstQueues(tokens') /\ FirstQueues(x.got)
    BY <1>0, <1>1 DEF HoldingsKnown, FirstQueues
  <2>2. ASSUME NEW e \in Lasting, Owns(x, e)
        PROVE  <<e, 1>> \notin tokens' /\ (<<e, 1>> \in tokens \/ Owns(caller[c], e))
    <3>1. e = q[1] /\ q = <<e, 1>>
      BY <1>1, <2>2 DEF Queues
    <3> QED BY <2>2, <3>1
  <2> QED BY <2>1, <2>2 DEF TokensMove
<1> QED BY <1>1, <1>2, <1>3, <1>4, CallerStepKeepsPool

LEMMA TakeSlotStep ==
    ASSUME PoolInv, NEW c \in Callers, TakeSlot(c)
    PROVE  PoolInv'
<1>0. /\ TypeOK /\ HoldingsKnown /\ PlacesKept
      /\ UNCHANGED <<membership, settings, lock, reservations, orphans>>
  BY DEF PoolInv, TakeSlot
<1>1. PICK q \in caller[c].waits \cap tokens :
          \/ tokens' = Put(q[1], tokens \ {q}) /\ Ends(c)
          \/ /\ tokens' = tokens \ {q}
             /\ caller' = [caller EXCEPT ![c] = Acquired(c, q)]
  BY DEF TakeSlot
<1>2. q \in Queues /\ q \in tokens /\ q[1] \in Endpoints /\ (q[1] \in Lasting => q[2] = 1)
  BY <1>0 DEF TypeOK, HoldingsKnown, FirstQueues, Queues
<1>3. CASE tokens' = Put(q[1], tokens \ {q}) /\ Ends(c)
  <2>1. tokens \ {q} \in SUBSET Queues /\ FirstQueues(tokens \ {q})
    BY <1>0 DEF TypeOK, HoldingsKnown, FirstQueues
  <2>2. /\ tokens' \in SUBSET Queues /\ FirstQueues(tokens')
        /\ \A d \in Lasting : <<d, 1>> \in tokens' => <<d, 1>> \in tokens \ {q} \/ d = q[1]
    BY <1>0, <1>2, <1>3, <2>1, PutTokens
  <2>3. \A d \in Lasting : <<d, 1>> \in tokens' => <<d, 1>> \in tokens
    <3>1. q[1] \in Lasting => q = <<q[1], 1>>
      BY <1>2 DEF Queues
    <3> QED BY <1>2, <2>2, <3>1
  <2>4. TokensMove(c, IdleCaller)
    BY <2>2, <2>3, IdleHoldsNothing DEF TokensMove, FirstQueues
  <2>5. CallerSteps(c, IdleCaller)
    BY <1>0, <1>3, <2>2 DEF CallerSteps, Ends, TypeOK, reservations
  <2>6. LocksStay(c)
    BY <1>0 DEF LocksStay, TypeOK
  <2>7. IdleCaller.at \notin {"recheck", "using"}
    BY IdleHoldsNothing
  <2> QED BY <2>4, <2>5, <2>6, <2>7, IdleHoldsNothing, CallerStepKeepsPool
<1>4. CASE tokens' = tokens \ {q} /\ caller' = [caller EXCEPT ![c] = Acquired(c, q)]
  BY <1>0, <1>2, <1>4, TakesToken
<1> QED BY <1>1, <1>3, <1>4

\* The tasks of a race take what is there, at once or when it is put back.
LEMMA RaceTakes ==
    ASSUME PoolInv, NEW c \in Callers, NEW ts \in SUBSET tokens,
           tokens' \in SUBSET (tokens \ ts),
           NEW had \in SUBSET Queues,
           had = {} \/ (caller[c].at = "racing" /\ had = caller[c].got),
           caller' = [caller EXCEPT ![c] = [caller[c] EXCEPT !.at = "racing", !.got = had \cup ts]],
           UNCHANGED <<membership, settings, lock, reservations, orphans>>
    PROVE  PoolInv'
<1> DEFINE x == [caller[c] EXCEPT !.at = "racing", !.got = had \cup ts]
<1>0. /\ TypeOK /\ HoldingsKnown /\ TokenIsOne /\ lock' = lock /\ caller[c] \in CallerType
      /\ tokens \in SUBSET Queues
  BY CallerTyped DEF PoolInv, TypeOK
<1>1. /\ x \in CallerType /\ x.at = "racing" /\ x.got = had \cup ts
  BY <1>0 DEF CallerType, CallerPCs, Waiting
<1>2. CallerSteps(c, x)
  BY <1>0 DEF CallerSteps, TypeOK, reservations
<1>3. LocksStay(c)
  BY <1>0 DEF LocksStay, TypeOK
<1> HIDE DEF x
<1>4. HoldsProfile(x) /\ x.at \notin {"recheck", "using"}
  BY <1>1 DEF HoldsProfile, Holding
<1>5. TokensMove(c, x)
  <2>1. FirstQueues(tokens') /\ FirstQueues(x.got)
    <3>1. FirstQueues(had)
      BY <1>0 DEF HoldingsKnown, FirstQueues
    <3> QED BY <1>0, <1>1, <3>1 DEF HoldingsKnown, FirstQueues
  <2>2. ASSUME NEW e \in Lasting, Owns(x, e)
        PROVE  <<e, 1>> \notin tokens' /\ (<<e, 1>> \in tokens \/ Owns(caller[c], e))
    <3>1. <<e, 1>> \in had \cup ts
      BY <1>1, <2>2 DEF Owns, Holding
    <3>2. <<e, 1>> \in had => Owns(caller[c], e) /\ <<e, 1>> \notin tokens
      BY <1>0 DEF Owns, TokenIsOne
    <3> QED BY <3>1, <3>2
  <2> QED BY <2>1, <2>2 DEF TokensMove
<1> QED BY <1>1, <1>2, <1>3, <1>4, <1>5, CallerStepKeepsPool

LEMMA RaceSteps ==
    ASSUME PoolInv, NEW c \in Callers, RaceRun(c) \/ RaceWake(c)
    PROVE  PoolInv'
<1>0. /\ TypeOK /\ caller[c] \in CallerType
      /\ caller[c].waits \in SUBSET Queues /\ caller[c].got \in SUBSET Queues
      /\ UNCHANGED <<membership, settings, lock, reservations, orphans>>
  BY CallerTyped DEF PoolInv, RaceRun, RaceWake
<1>1. CASE RaceRun(c)
  <2> DEFINE ts == caller[c].waits \cap tokens
             had == {}
  <2>1. caller' = [caller EXCEPT
            ![c] = [caller[c] EXCEPT !.at = "racing", !.got = had \cup ts]]
    BY <1>0, <1>1 DEF RaceRun, TypeOK, CallerType
  <2>2. ts \in SUBSET tokens /\ tokens' \in SUBSET (tokens \ ts)
    BY <1>1 DEF RaceRun
  <2>3. had \in SUBSET Queues /\ had = {}
    OBVIOUS
  <2> HIDE DEF ts, had
  <2> QED BY <1>0, <2>1, <2>2, <2>3, RaceTakes
<1>2. CASE RaceWake(c)
  <2>1. PICK q \in (caller[c].waits \ caller[c].got) \cap tokens :
            /\ caller' = [caller EXCEPT ![c].got = @ \cup {q}]
            /\ tokens' = tokens \ {q}
    BY <1>2 DEF RaceWake
  <2> DEFINE ts == {q}
             had == caller[c].got
  <2>2. caller[c].at = "racing"
    BY <1>2 DEF RaceWake
  <2>3. [caller[c] EXCEPT !.got = had \cup ts]
            = [caller[c] EXCEPT !.at = "racing", !.got = had \cup ts]
    BY <1>0, <2>2 DEF CallerType
  <2>4. caller' = [caller EXCEPT ![c] = [caller[c] EXCEPT !.got = had \cup ts]]
    BY <1>0, <2>1 DEF TypeOK
  <2>5. caller' = [caller EXCEPT
            ![c] = [caller[c] EXCEPT !.at = "racing", !.got = had \cup ts]]
    BY <2>3, <2>4
  <2>6. ts \in SUBSET tokens /\ tokens' \in SUBSET (tokens \ ts)
    BY <2>1
  <2>7. had \in SUBSET Queues /\ had = caller[c].got
    BY <1>0
  <2> HIDE DEF ts, had
  <2> QED BY <1>0, <2>2, <2>5, <2>6, <2>7, RaceTakes
<1> QED BY <1>1, <1>2

LEMMA RaceEndStep ==
    ASSUME PoolInv, NEW c \in Callers, RaceEnd(c)
    PROVE  PoolInv'
<1>0. /\ TypeOK /\ HoldingsKnown /\ TokenIsOne
      /\ caller[c].at = "racing" /\ caller[c].got \in SUBSET Queues
      /\ tokens' = tokens
      /\ UNCHANGED <<membership, settings, lock, reservations, orphans>>
  BY CallerTyped DEF PoolInv, RaceEnd
<1>1. PICK q \in caller[c].got : caller' = [caller EXCEPT ![c] = Acquired(c, q)]
  BY DEF RaceEnd
<1> DEFINE x == Acquired(c, q)
<1>2. q \in Queues /\ (q[1] \in Lasting => q[2] = 1 /\ q = <<q[1], 1>>)
  BY <1>0 DEF HoldingsKnown, FirstQueues, Queues
<1>3. /\ x \in CallerType /\ x.at = "locking" /\ x.got = {}
      /\ HoldsProfile(x)
      /\ \A e \in Lasting : Owns(x, e) => e = q[1]
  BY <1>2, AcquiredHolds
<1>4. CallerSteps(c, x)
  BY <1>0, <1>1 DEF CallerSteps, TypeOK, reservations
<1>5. LocksStay(c)
  BY <1>0 DEF LocksStay, TypeOK
<1> HIDE DEF x
<1>6. TokensMove(c, x)
  <2>1. FirstQueues(tokens') /\ FirstQueues(x.got)
    BY <1>0, <1>3 DEF HoldingsKnown, FirstQueues
  <2>2. ASSUME NEW e \in Lasting, Owns(x, e)
        PROVE  <<e, 1>> \notin tokens' /\ (<<e, 1>> \in tokens \/ Owns(caller[c], e))
    <3>1. Owns(caller[c], e)
      BY <1>0, <1>2, <1>3, <2>2 DEF Owns
    <3> QED BY <1>0, <3>1 DEF TokenIsOne
  <2> QED BY <1>0, <2>1, <2>2 DEF TokensMove
<1> QED BY <1>3, <1>4, <1>5, <1>6, CallerStepKeepsPool

-----------------------------------------------------------------------------
(* Steps of a caller that has its endpoint. *)

\* It goes on with it.
LEMMA HolderStep ==
    ASSUME PoolInv, NEW c \in Callers, caller[c].at \in Holding, NEW p \in Holding,
           caller' = [caller EXCEPT ![c].at = p],
           LocksStay(c), p \in {"recheck", "using"} => lock'[caller[c].profile] = c,
           UNCHANGED <<membership, tokens, settings, reservations, orphans>>
    PROVE  PoolInv'
<1> DEFINE x == [caller[c] EXCEPT !.at = p]
<1>0. TypeOK /\ HoldingsKnown /\ TokenIsOne /\ caller[c] \in CallerType /\ tokens' = tokens
  BY CallerTyped DEF PoolInv
<1>1. /\ x \in CallerType /\ x.at = p /\ x.got = caller[c].got
      /\ x.ep = caller[c].ep /\ x.profile = caller[c].profile
  BY <1>0 DEF CallerType, CallerPCs
<1>2. caller' = [caller EXCEPT ![c] = x]
  BY <1>0 DEF TypeOK
<1> HIDE DEF x
<1>3. CallerSteps(c, x)
  BY <1>0, <1>2 DEF CallerSteps, TypeOK, reservations
<1>4. HoldsProfile(x)
  BY <1>0, <1>1 DEF HoldingsKnown, HoldsProfile
<1>5. TokensMove(c, x)
  <2>1. FirstQueues(tokens') /\ FirstQueues(x.got)
    BY <1>0, <1>1 DEF HoldingsKnown
  <2>2. \A e \in Lasting : Owns(x, e) => Owns(caller[c], e)
    BY <1>1 DEF Owns, Holding
  <2> QED BY <1>0, <2>1, <2>2 DEF TokensMove, TokenIsOne
<1> QED BY <1>1, <1>3, <1>4, <1>5, CallerStepKeepsPool

LEMMA LockProfileStep ==
    ASSUME PoolInv, NEW c \in Callers, LockProfile(c)
    PROVE  PoolInv'
<1> DEFINE p == caller[c].profile
<1>1. /\ TypeOK /\ caller[c].at = "locking" /\ p \in Names
  BY DEF PoolInv, LockProfile, HoldingsKnown, HoldsProfile, Holding
<1>2. lock[p] = NoCaller /\ lock' = [lock EXCEPT ![p] = c] /\ NoCaller \notin Callers
  BY PoolAssumption DEF LockProfile
<1> HIDE DEF p
<1>3. lock \in [Names -> Callers \cup {NoCaller}] /\ lock'[p] = c
  BY <1>1, <1>2 DEF TypeOK
<1>4. LocksStay(c)
  BY <1>1, <1>2, <1>3 DEF LocksStay
<1>5. lock'[caller[c].profile] = c
  BY <1>3 DEF p
<1>6. /\ caller' = [caller EXCEPT ![c].at = "recheck"]
      /\ UNCHANGED <<membership, tokens, settings, reservations, orphans>>
  BY DEF LockProfile
<1> QED BY <1>1, <1>4, <1>5, <1>6, HolderStep DEF Holding

\* The finally clause gives back the caller's own lock and token.
LEMMA FreeSlotStep ==
    ASSUME PoolInv, NEW c \in Callers, caller[c].at \in {"recheck", "using"}, FreeSlot(c),
           UNCHANGED <<membership, settings, reservations, orphans>>
    PROVE  PoolInv'
<1> DEFINE p == caller[c].profile
           e0 == caller[c].ep
<1>0. /\ TypeOK /\ HoldingsKnown /\ PlacesKept /\ LockHeld /\ TokenIsOne
      /\ p \in Names /\ e0 \in Endpoints /\ lock[p] = c
      /\ tokens \in SUBSET Queues /\ FirstQueues(tokens)
  BY DEF PoolInv, HoldingsKnown, HoldsProfile, Holding, LockHeld, TypeOK
<1>1. /\ lock' = [lock EXCEPT ![p] = NoCaller]
      /\ tokens' = Put(e0, tokens)
      /\ caller' = [caller EXCEPT ![c] = IdleCaller]
  BY DEF FreeSlot, Ends
<1>2. /\ tokens' \in SUBSET Queues /\ FirstQueues(tokens')
      /\ \A d \in Lasting : <<d, 1>> \in tokens' => <<d, 1>> \in tokens \/ d = e0
  BY <1>0, <1>1, PutTokens
<1>3. \A e \in Lasting : e = e0 => Owns(caller[c], e)
  BY DEF Owns, Holding
<1>4. TokensMove(c, IdleCaller)
  BY <1>2, <1>3, IdleHoldsNothing DEF TokensMove, FirstQueues
<1> HIDE DEF p
<1>5. LocksStay(c)
  <2>1. lock \in [Names -> Callers \cup {NoCaller}]
    BY <1>0 DEF TypeOK
  <2> QED BY <1>0, <1>1, <2>1 DEF LocksStay
<1>6. CallerSteps(c, IdleCaller)
  BY <1>0, <1>1, <1>2 DEF CallerSteps, TypeOK, reservations
<1>7. IdleCaller.at \notin {"recheck", "using"}
  BY IdleHoldsNothing
<1> QED BY <1>4, <1>5, <1>6, <1>7, IdleHoldsNothing, CallerStepKeepsPool

LEMMA RecheckStep ==
    ASSUME PoolInv, NEW c \in Callers, Recheck(c)
    PROVE  PoolInv'
<1>0. /\ TypeOK /\ caller[c].at = "recheck" /\ lock[caller[c].profile] = c
      /\ UNCHANGED <<membership, settings, reservations, orphans>>
  BY DEF PoolInv, Recheck, LockHeld
<1>1. CASE FreeSlot(c)
  BY <1>0, <1>1, FreeSlotStep
<1>2. CASE caller' = [caller EXCEPT ![c].at = "using"] /\ UNCHANGED <<lock, tokens>>
  <2>1. LocksStay(c) /\ lock'[caller[c].profile] = c
    BY <1>0, <1>2 DEF LocksStay, TypeOK
  <2> QED BY <1>0, <1>2, <2>1, HolderStep DEF Holding
<1> QED BY <1>1, <1>2 DEF Recheck

LEMMA ReleaseStep ==
    ASSUME PoolInv, NEW c \in Callers, Release(c)
    PROVE  PoolInv'
BY FreeSlotStep DEF Release

-----------------------------------------------------------------------------
(* Steps of operators, nodes and the reservations: no caller, no lock. *)

\* They may add a token, but an endpoint that still lasts gets none.
LEMMA OperatorStep ==
    ASSUME PoolInv, UNCHANGED <<lock, caller>>,
           accounts' \in SUBSET Endpoints, spaces' \in SUBSET Endpoints,
           orphans' \in SUBSET Queues, tokens' \in SUBSET Queues,
           Lasting' \subseteq Lasting,
           \A q \in tokens' : q \in tokens \/ q[1] \notin Lasting',
           current' \in [Endpoints -> 0 .. MaxQueues], made' \in [Endpoints -> 0 .. MaxQueues],
           name' \in [Endpoints -> Names], kind' \in [Endpoints -> Kinds],
           ready' \in [Endpoints -> BOOLEAN],
           PlacesKept'
    PROVE  PoolInv'
<1>0. TypeOK /\ LockHeld /\ HoldingsKnown /\ TokenIsOne /\ caller' = caller /\ lock' = lock
  BY DEF PoolInv
<1>1. TypeOK'
  BY <1>0 DEF TypeOK
<1>2. LockHeld'
  BY <1>0 DEF LockHeld
<1>3. HoldingsKnown'
  <2>1. FirstQueues(tokens)'
    BY <1>0 DEF HoldingsKnown, FirstQueues
  <2>2. ASSUME NEW c \in Callers PROVE (HoldsProfile(caller[c]) /\ FirstQueues(caller[c].got))'
    BY <1>0 DEF HoldingsKnown, FirstQueues, HoldsProfile
  <2> QED BY <2>1, <2>2 DEF HoldingsKnown
<1>4. TokenIsOne'
  <2>1. \A e \in Lasting' : e \in Lasting /\ (<<e, 1>> \in tokens' => <<e, 1>> \in tokens)
    OBVIOUS
  <2> QED BY <1>0, <2>1 DEF TokenIsOne, Owns
<1> QED BY <1>1, <1>2, <1>3, <1>4 DEF PoolInv

\* The parts of the state an operator does not touch.
LEMMA PoolParts ==
    ASSUME PoolInv
    PROVE  /\ current \in [Endpoints -> 0 .. MaxQueues] /\ made \in [Endpoints -> 0 .. MaxQueues]
           /\ name \in [Endpoints -> Names] /\ kind \in [Endpoints -> Kinds]
           /\ ready \in [Endpoints -> BOOLEAN]
           /\ accounts \in SUBSET Endpoints /\ spaces \in SUBSET Endpoints
           /\ orphans \in SUBSET Queues /\ tokens \in SUBSET Queues
           /\ \A e \in Endpoints : made[e] # 0
           /\ \A e \in Lasting : current[e] \in {0, 1}
           /\ \A e \in Endpoints \ Renamable : name[e] = e
BY DEF PoolInv, TypeOK, PlacesKept

LEMMA ReservationSteps ==
    ASSUME PoolInv,
           \/ \E c \in Callers : ReserveAccount(c)
           \/ \E e \in Endpoints : OpenSpace(e) \/ CloseSpace(e)
    PROVE  PoolInv'
<1>1. /\ UNCHANGED <<membership, tokens, settings, lock, caller, orphans>>
      /\ accounts' \in SUBSET Endpoints /\ spaces' \in SUBSET Endpoints
  <2>1. ASSUME NEW c \in Callers, ReserveAccount(c)
        PROVE  accounts' \in SUBSET Endpoints /\ spaces' = spaces
    <3>1. caller[c].at \in Holding /\ accounts' = accounts \cup {caller[c].ep} /\ spaces' = spaces
      BY <2>1 DEF ReserveAccount, Holding
    <3> QED BY <3>1, PoolParts DEF PoolInv, HoldingsKnown, HoldsProfile
  <2> QED BY <2>1, PoolParts DEF ReserveAccount, OpenSpace, CloseSpace
<1>2. PlacesKept' /\ Lasting' = Lasting
  BY <1>1, PoolParts DEF PlacesKept, Lasting, membership, settings
<1> QED BY <1>1, <1>2, PoolParts, OperatorStep DEF membership, settings

\* What remove_endpoint leaves of an endpoint.
LEMMA ForgetStep ==
    ASSUME PoolInv, NEW e \in Removable, Forget(e),
           accounts' \in SUBSET accounts, UNCHANGED <<made, tokens, lock, spaces, caller, orphans>>
    PROVE  PoolInv'
<1>1. e \in Endpoints /\ e \in Names /\ "authenticated" \in Kinds
  BY PoolAssumption DEF Names, Kinds
<1>2. /\ current' = [current EXCEPT ![e] = 0] /\ name' = [name EXCEPT ![e] = e]
      /\ kind' = [kind EXCEPT ![e] = "authenticated"] /\ ready' = [ready EXCEPT ![e] = TRUE]
  BY DEF Forget
<1>3. 0 \in 0 .. MaxQueues
  BY PoolAssumption
<1>4. /\ current' \in [Endpoints -> 0 .. MaxQueues]
      /\ name' \in [Endpoints -> Names] /\ kind' \in [Endpoints -> Kinds]
      /\ ready' \in [Endpoints -> BOOLEAN]
  BY <1>1, <1>2, <1>3, PoolParts
<1>5. PlacesKept' /\ Lasting' = Lasting
  BY <1>1, <1>2, PoolParts DEF PlacesKept, Lasting
<1>6. accounts' \in SUBSET Endpoints /\ \A q \in tokens' : q \in tokens
  BY PoolParts
<1> QED BY <1>4, <1>5, <1>6, PoolParts, OperatorStep

LEMMA SettingsTyped ==
    ASSUME NEW e \in Endpoints, NEW s \in Settings(e)
    PROVE  /\ s.n \in Names /\ s.k \in Kinds /\ s.r \in BOOLEAN
           /\ e \notin Renamable => s.n = e
<1>1. s.k \in Kinds
  BY DEF Settings, Kinds
<1>2. s.n \in Names /\ (e \notin Renamable => s.n = e)
  BY DEF Settings, Names
<1>3. s.r \in BOOLEAN
  BY DEF Settings
<1> QED BY <1>1, <1>2, <1>3

LEMMA ConfiguredStep ==
    ASSUME PoolInv, NEW e \in Endpoints, NEW s \in Settings(e), Configured(e, s)
    PROVE  /\ name' \in [Endpoints -> Names] /\ kind' \in [Endpoints -> Kinds]
           /\ ready' \in [Endpoints -> BOOLEAN]
           /\ \A d \in Endpoints \ Renamable : name'[d] = d
<1>1. /\ s.n \in Names /\ s.k \in Kinds /\ s.r \in BOOLEAN
      /\ e \notin Renamable => s.n = e
  BY SettingsTyped
<1>2. /\ name' = [name EXCEPT ![e] = s.n]
      /\ kind' = [kind EXCEPT ![e] = s.k] /\ ready' = [ready EXCEPT ![e] = s.r]
  BY DEF Configured
<1>3. \A d \in Endpoints \ Renamable : name'[d] = d
  BY <1>1, <1>2, PoolParts
<1>4. name' \in [Endpoints -> Names] /\ kind' \in [Endpoints -> Kinds]
  BY <1>1, <1>2, PoolParts
<1>5. ready' \in [Endpoints -> BOOLEAN]
  <2>1. \A d \in Endpoints : ready'[d] \in BOOLEAN
    BY <1>1, <1>2, PoolParts
  <2> QED BY <1>2, <2>1, PoolParts
<1> QED BY <1>3, <1>4, <1>5

LEMMA AddEndpointStep ==
    ASSUME PoolInv, NEW e \in Endpoints, AddEndpoint(e)
    PROVE  PoolInv'
<1>1. /\ current[e] = 0 /\ made[e] < MaxQueues /\ made' = [made EXCEPT ![e] = @ + 1]
      /\ current' = [current EXCEPT ![e] = made[e] + 1]
      /\ tokens' = tokens \cup {<<e, made[e] + 1>>}
      /\ UNCHANGED <<lock, accounts, spaces, caller, orphans>>
  BY DEF AddEndpoint, Present, reservations
<1>2. PICK s \in Settings(e) : Configured(e, s)
  BY DEF AddEndpoint
<1>3. /\ name' \in [Endpoints -> Names] /\ kind' \in [Endpoints -> Kinds]
      /\ ready' \in [Endpoints -> BOOLEAN]
      /\ \A d \in Endpoints \ Renamable : name'[d] = d
  BY <1>2, ConfiguredStep
<1>5. made[e] + 1 \in 1 .. MaxQueues /\ made[e] + 1 \in 0 .. MaxQueues
  <2>1. made[e] \in 0 .. MaxQueues /\ MaxQueues \in Nat
    BY PoolParts, PoolAssumption
  <2> QED BY <1>1, <2>1
<1>6. /\ current' \in [Endpoints -> 0 .. MaxQueues] /\ made' \in [Endpoints -> 0 .. MaxQueues]
      /\ tokens' \in SUBSET Queues
  BY <1>1, <1>5, PoolParts DEF Queues
<1>7. e \notin Lasting' /\ Lasting' \subseteq Lasting
  <2>1. made'[e] = made[e] + 1 /\ made[e] \in Nat \ {0}
    BY <1>1, PoolParts, PoolAssumption
  <2> QED BY <1>1, <2>1, PoolParts DEF Lasting
<1>8. PlacesKept'
  <2>1. \A d \in Endpoints : made'[d] # 0
    BY <1>1, <1>5, PoolParts
  <2>2. \A d \in Lasting' : d # e /\ d \in Lasting /\ current'[d] = current[d]
    BY <1>1, <1>7, PoolParts DEF Lasting
  <2> QED BY <1>3, <2>1, <2>2, PoolParts DEF PlacesKept
<1>9. \A q \in tokens' : q \in tokens \/ q[1] \notin Lasting'
  BY <1>1, <1>7
<1> QED BY <1>1, <1>3, <1>6, <1>7, <1>8, <1>9, PoolParts, OperatorStep

LEMMA ConfigureStep ==
    ASSUME PoolInv, NEW e \in Endpoints, Configure(e)
    PROVE  PoolInv'
<1>1. PICK s \in Settings(e) : Configured(e, s)
  BY DEF Configure
<1>2. UNCHANGED <<current, made, tokens, lock, accounts, spaces, caller, orphans>>
  BY DEF Configure, membership, reservations
<1>3. /\ name' \in [Endpoints -> Names] /\ kind' \in [Endpoints -> Kinds]
      /\ ready' \in [Endpoints -> BOOLEAN]
      /\ \A d \in Endpoints \ Renamable : name'[d] = d
  BY <1>1, ConfiguredStep
<1>4. PlacesKept' /\ Lasting' = Lasting
  BY <1>2, <1>3, PoolParts DEF PlacesKept, Lasting
<1> QED BY <1>2, <1>3, <1>4, PoolParts, OperatorStep

LEMMA OrphanStep ==
    ASSUME PoolInv, NEW q \in Queues, OrphanTakes(q)
    PROVE  PoolInv'
<1>1. /\ UNCHANGED <<current, made, name, kind, ready, lock, accounts, spaces, caller>>
      /\ tokens' \in SUBSET tokens /\ orphans' \in SUBSET orphans
  BY DEF OrphanTakes, membership, settings, reservations
<1>2. PlacesKept' /\ Lasting' = Lasting
  BY <1>1, PoolParts DEF PlacesKept, Lasting
<1> QED BY <1>1, <1>2, PoolParts, OperatorStep

-----------------------------------------------------------------------------
(* The invariant *)

LEMMA PoolInvInit == Init => PoolInv
<1> SUFFICES ASSUME Init PROVE PoolInv
  OBVIOUS
<1>1. 1 \in 0 .. MaxQueues /\ 1 \in 1 .. MaxQueues
  BY PoolAssumption
<1>2. /\ tokens \in SUBSET Queues /\ FirstQueues(tokens)
  BY <1>1 DEF Init, Queues, FirstQueues
<1>3. TypeOK
  BY <1>1, <1>2, IdleHoldsNothing DEF Init, TypeOK, CallerType, Names, Kinds
<1>4. \A c \in Callers : caller[c] = IdleCaller
  BY DEF Init
<1>5. HoldingsKnown
  BY <1>2, <1>4, IdleHoldsNothing DEF HoldingsKnown, FirstQueues
<1>6. LockHeld /\ TokenIsOne
  BY <1>4, IdleHoldsNothing DEF LockHeld, TokenIsOne
<1>7. PlacesKept
  BY DEF Init, PlacesKept, Lasting
<1> QED BY <1>3, <1>5, <1>6, <1>7 DEF PoolInv

LEMMA PoolInvStep == PoolInv /\ [Next]_vars => PoolInv'
<1> SUFFICES ASSUME PoolInv, [Next]_vars PROVE PoolInv'
  OBVIOUS
<1>1. ASSUME NEW c \in Callers, Using(c) PROVE PoolInv'
  BY <1>1, AcquireStep, AdmitStep, TakeSlotStep, AnyStartStep, RaceSteps, RaceEndStep,
     LockProfileStep, RecheckStep, ReleaseStep, GiveUpStep, ReservationSteps DEF Using
<1>2. ASSUME NEW e \in Endpoints, Operating(e) PROVE PoolInv'
  <2>1. CASE RemoveEndpoint(e)
    <3>1. e \in Removable /\ Forget(e)
      BY <2>1 DEF RemoveEndpoint
    <3>2. accounts' \in SUBSET accounts /\ UNCHANGED <<made, tokens, lock, spaces, caller, orphans>>
      BY <2>1 DEF RemoveEndpoint, reservations
    <3> QED BY <3>1, <3>2, ForgetStep
  <2>2. CASE RemoveAccount(e)
    <3>1. e \in Removable /\ Forget(e)
      BY <2>2 DEF RemoveAccount
    <3>2. accounts' \in SUBSET accounts /\ UNCHANGED <<made, tokens, lock, spaces, caller, orphans>>
      BY <2>2 DEF RemoveAccount
    <3> QED BY <3>1, <3>2, ForgetStep
  <2> QED BY <1>2, <2>1, <2>2, ReservationSteps, AddEndpointStep, ConfigureStep DEF Operating
<1>3. CASE UNCHANGED vars
  <2>1. UNCHANGED <<current, made, tokens, name, kind, ready, lock, accounts, spaces, caller, orphans>>
    BY <1>3 DEF vars
  <2>2. PlacesKept' /\ Lasting' = Lasting
    BY <2>1, PoolParts DEF PlacesKept, Lasting
  <2> QED BY <2>1, <2>2, PoolParts, OperatorStep
<1> QED BY <1>1, <1>2, <1>3, OrphanStep DEF Next

LEMMA PoolInvHolds == Spec => []PoolInv
BY PoolInvInit, PoolInvStep, PTL DEF Spec

(***************************************************************************)
(* The state of the in-process pool is well typed, whatever the callers,   *)
(* nodes and operators of LocalBrowserPool do; the token of an endpoint    *)
(* that has not been added again is in its queue, with one caller, or lost *)
(* with a caller that was cancelled; and whoever is past the lock of a     *)
(* profile has it.                                                         *)
(***************************************************************************)
THEOREM PoolInvariant == Spec => []TypeOK /\ []LockHeld /\ []TokenIsOne
<1>1. PoolInv => TypeOK /\ LockHeld /\ TokenIsOne
  BY DEF PoolInv
<1> QED BY PoolInvHolds, <1>1, PTL

-----------------------------------------------------------------------------
(* One task per Chrome: by the token until the endpoint is added again, by *)
(* the lock of the profile while its name stays.                           *)

LEMMA PoolExcludes == PoolInv => SharingNeedsReadding
<1> SUFFICES ASSUME PoolInv, NEW c \in Callers, NEW d \in Callers, c # d,
                    caller[c].at = "using", caller[d].at = "using",
                    caller[c].ep = caller[d].ep
             PROVE  made[caller[c].ep] > 1 /\ caller[c].profile # caller[d].profile
  BY DEF SharingNeedsReadding
<1> DEFINE e == caller[c].ep
<1>1. /\ e \in Endpoints /\ made[e] \in Nat \ {0}
      /\ lock[caller[c].profile] = c /\ lock[caller[d].profile] = d
  BY PoolAssumption
  DEF PoolInv, LockHeld, HoldingsKnown, HoldsProfile, Holding, TypeOK, PlacesKept
<1>2. e \notin Lasting
  BY DEF Owns, Holding, PoolInv, TokenIsOne
<1> QED BY <1>1, <1>2 DEF Lasting

(***************************************************************************)
(* Whichever endpoints are removed, added and renamed in use, for any      *)
(* number of routed, unrouted, anonymous and cancelled callers of          *)
(* LocalBrowserPool.acquire: an endpoint has two users only if it has been *)
(* added again and they hold the locks of different profile names.         *)
(***************************************************************************)
THEOREM PoolIsExclusive == Spec => []SharingNeedsReadding
BY PoolInvHolds, PoolExcludes, PTL

\* A second queue is never taken back.
Readded == {e \in Endpoints : made[e] > 1}

LEMMA ReaddedGrows ==
    ASSUME PoolInv, [Next]_vars
    PROVE  Readded \subseteq Readded'
<1>1. \A e \in Endpoints : made[e] \in Nat
  BY PoolParts, PoolAssumption
<1>2. CASE made' = made
  BY <1>2 DEF Readded
<1>3. ASSUME NEW e \in Endpoints, AddEndpoint(e)
      PROVE  Readded \subseteq Readded'
  <2>1. made' = [made EXCEPT ![e] = made[e] + 1]
    BY <1>3 DEF AddEndpoint
  <2> QED BY <1>1, <2>1, PoolParts DEF Readded
<1>4. ASSUME NEW c \in Callers, Using(c) PROVE made' = made
  BY <1>4 DEF Using, Acquire, Admit, TakeSlot, AnyStart, RaceRun, RaceWake, RaceEnd, LockProfile,
              Recheck, Release, GiveUp, ReserveAccount, membership
<1>5. ASSUME NEW e \in Endpoints, Operating(e) PROVE AddEndpoint(e) \/ made' = made
  BY <1>5 DEF Operating, OpenSpace, CloseSpace, RemoveEndpoint, RemoveAccount, Configure, membership
<1>6. ASSUME NEW q \in Queues, OrphanTakes(q) PROVE made' = made
  BY <1>6 DEF OrphanTakes, membership
<1> QED BY <1>2, <1>3, <1>4, <1>5, <1>6 DEF Next, vars

\* Nobody begins to use a reserved endpoint, and only its own user reserves it.
LEMMA LoginMoves ==
    ASSUME PoolInv, LoginIsPrivate, Readded \subseteq Readded', made' \in [Endpoints -> Nat],
           NEW c \in Callers, NEW x,
           caller' = [caller EXCEPT ![c] = x], accounts' = accounts,
           x.at # "using" \/ x.ep \notin accounts
    PROVE  LoginIsPrivate'
<1> SUFFICES ASSUME NEW d \in Callers, caller'[d].at = "using", caller'[d].ep \in accounts',
                    ~caller'[d].account
             PROVE  made'[caller'[d].ep] > 1 /\ caller'[d].ep \in Renamable
  BY DEF LoginIsPrivate
<1>1. caller'[c] = x /\ \A b \in Callers \ {c} : caller'[b] = caller[b]
  BY DEF PoolInv, TypeOK
<1>2. caller'[d] = caller[d] /\ caller[d].ep \in Endpoints
  BY <1>1, PoolParts
<1>3. made[caller[d].ep] > 1 /\ caller[d].ep \in Renamable
  BY <1>2 DEF LoginIsPrivate
<1> QED BY <1>2, <1>3 DEF Readded

LEMMA LoginStep ==
    ASSUME PoolInv, SharingNeedsReadding, LoginIsPrivate, [Next]_vars
    PROVE  LoginIsPrivate'
<1>0. TypeOK /\ Readded \subseteq Readded' /\ made' \in [Endpoints -> Nat]
  BY PoolInvStep, ReaddedGrows, PoolAssumption DEF PoolInv, TypeOK
<1>1. ASSUME caller' = caller, accounts' \in SUBSET accounts
      PROVE  LoginIsPrivate'
  BY <1>0, <1>1, PoolParts DEF LoginIsPrivate, Readded
<1>2. ASSUME NEW c \in Callers, Ends(c), accounts' = accounts
      PROVE  LoginIsPrivate'
  BY <1>0, <1>2, LoginMoves, IdleHoldsNothing DEF Ends
<1>3. ASSUME NEW c \in Callers, NEW q \in Queues, accounts' = accounts,
             caller' = [caller EXCEPT ![c] = Acquired(c, q)]
      PROVE  LoginIsPrivate'
  BY <1>0, <1>3, LoginMoves, AcquiredHolds
<1>4. ASSUME NEW c \in Callers, Using(c)
      PROVE  LoginIsPrivate'
  <2>0. /\ caller[c] \in CallerType
        /\ caller[c].waits \in SUBSET Queues /\ caller[c].got \in SUBSET Queues
    BY <1>0, CallerTyped
  <2>1. CASE Acquire(c)
    <3>1. PICK w \in Endpoints \cup {AnyEndpoint}, a \in BOOLEAN, b \in BOOLEAN :
              caller' = [caller EXCEPT ![c] =
                  [IdleCaller EXCEPT !.at = "admit", !.want = w, !.anonymous = a,
                                     !.account = b, !.seen = Reserved]]
      BY <2>1 DEF Acquire
    <3>2. [IdleCaller EXCEPT !.at = "admit", !.want = w, !.anonymous = a,
                             !.account = b, !.seen = Reserved].at = "admit"
      BY DEF IdleCaller
    <3>3. accounts' = accounts
      BY <2>1 DEF Acquire, reservations
    <3> QED BY <1>0, <3>1, <3>2, <3>3, LoginMoves
  <2>2. CASE Admit(c)
    <3>1. accounts' = accounts
      BY <2>2 DEF Admit, reservations
    <3>2. CASE Ends(c)
      BY <1>2, <3>1, <3>2
    <3>3. CASE caller' = [caller EXCEPT ![c].at = "getting",
                                        ![c].waits = {Cur(caller[c].want)}, ![c].seen = {}]
      <4> DEFINE x == [caller[c] EXCEPT !.at = "getting",
                                        !.waits = {Cur(caller[c].want)}, !.seen = {}]
      <4>1. x.at = "getting" /\ caller' = [caller EXCEPT ![c] = x]
        BY <1>0, <2>0, <3>3 DEF TypeOK, CallerType
      <4> HIDE DEF x
      <4> QED BY <1>0, <3>1, <4>1, LoginMoves
    <3>4. CASE caller' = [caller EXCEPT ![c].at = "any", ![c].seen = Reserved]
      <4> DEFINE x == [caller[c] EXCEPT !.at = "any", !.seen = Reserved]
      <4>1. x.at = "any" /\ caller' = [caller EXCEPT ![c] = x]
        BY <1>0, <2>0, <3>4 DEF TypeOK, CallerType
      <4> HIDE DEF x
      <4> QED BY <1>0, <3>1, <4>1, LoginMoves
    <3> QED BY <2>2, <3>2, <3>3, <3>4 DEF Admit
  <2>3. CASE TakeSlot(c)
    <3>1. PICK q \in caller[c].waits : Ends(c) \/ caller' = [caller EXCEPT ![c] = Acquired(c, q)]
      BY <2>3 DEF TakeSlot
    <3>2. accounts' = accounts
      BY <2>3 DEF TakeSlot, reservations
    <3> QED BY <1>2, <1>3, <2>0, <3>1, <3>2
  <2>4. CASE AnyStart(c)
    <3> DEFINE slots == {Cur(e) : e \in {d \in Endpoints \ caller[c].seen : Present(d) /\ ready[d]}}
               x == [caller[c] EXCEPT !.at = "race", !.waits = slots, !.seen = {}]
    <3>1. \/ Ends(c)
          \/ caller' = [caller EXCEPT ![c].at = "race", ![c].waits = slots, ![c].seen = {}]
      BY <2>4 DEF AnyStart
    <3> HIDE DEF slots
    <3>2. Ends(c) \/ (x.at = "race" /\ caller' = [caller EXCEPT ![c] = x])
      BY <1>0, <2>0, <3>1 DEF TypeOK, CallerType
    <3>3. accounts' = accounts
      BY <2>4 DEF AnyStart, reservations
    <3> HIDE DEF x
    <3>4. CASE x.at = "race" /\ caller' = [caller EXCEPT ![c] = x]
      BY <1>0, <3>3, <3>4, LoginMoves
    <3> QED BY <1>2, <3>2, <3>3, <3>4
  <2>5. CASE RaceRun(c)
    <3> DEFINE x == [caller[c] EXCEPT !.at = "racing", !.got = caller[c].waits \cap tokens]
    <3>1. x.at = "racing" /\ caller' = [caller EXCEPT ![c] = x] /\ accounts' = accounts
      BY <1>0, <2>0, <2>5 DEF RaceRun, TypeOK, CallerType, reservations
    <3> HIDE DEF x
    <3> QED BY <1>0, <3>1, LoginMoves
  <2>6. CASE RaceWake(c)
    <3>1. PICK q : caller' = [caller EXCEPT ![c].got = @ \cup {q}]
      BY <2>6 DEF RaceWake
    <3> DEFINE x == [caller[c] EXCEPT !.got = caller[c].got \cup {q}]
    <3>2. caller[c].at = "racing" /\ accounts' = accounts
      BY <2>6 DEF RaceWake, reservations
    <3>3. x.at = "racing" /\ caller' = [caller EXCEPT ![c] = x]
      BY <1>0, <2>0, <3>1, <3>2 DEF TypeOK, CallerType
    <3> HIDE DEF x
    <3> QED BY <1>0, <3>2, <3>3, LoginMoves
  <2>7. CASE RaceEnd(c)
    <3>1. PICK q \in caller[c].got : caller' = [caller EXCEPT ![c] = Acquired(c, q)]
      BY <2>7 DEF RaceEnd
    <3>2. accounts' = accounts
      BY <2>7 DEF RaceEnd, reservations
    <3> QED BY <1>3, <2>0, <3>1, <3>2
  <2>8. CASE LockProfile(c)
    <3> DEFINE x == [caller[c] EXCEPT !.at = "recheck"]
    <3>1. x.at = "recheck" /\ caller' = [caller EXCEPT ![c] = x] /\ accounts' = accounts
      BY <1>0, <2>0, <2>8 DEF LockProfile, TypeOK, CallerType, reservations
    <3> HIDE DEF x
    <3> QED BY <1>0, <3>1, LoginMoves
  <2>9. CASE Recheck(c)
    <3>1. accounts' = accounts
      BY <2>9 DEF Recheck, reservations
    <3>2. CASE Ends(c)
      BY <1>2, <3>1, <3>2
    <3>3. CASE caller[c].ep \notin Reserved /\ caller' = [caller EXCEPT ![c].at = "using"]
      <4> DEFINE x == [caller[c] EXCEPT !.at = "using"]
      <4>1. x.ep \notin accounts /\ caller' = [caller EXCEPT ![c] = x]
        BY <1>0, <2>0, <3>3 DEF TypeOK, CallerType, Reserved
      <4> HIDE DEF x
      <4> QED BY <1>0, <3>1, <4>1, LoginMoves
    <3> QED BY <2>9, <3>2, <3>3 DEF Recheck, FreeSlot
  <2>10. CASE Release(c)
    BY <1>2, <2>10 DEF Release, FreeSlot, reservations
  <2>11. CASE GiveUp(c)
    BY <1>2, <2>11 DEF GiveUp, reservations
  <2>12. CASE ReserveAccount(c)
    <3>1. /\ caller' = caller /\ accounts' = accounts \cup {caller[c].ep}
          /\ caller[c].at = "using" /\ caller[c].account
      BY <2>12 DEF ReserveAccount
    <3>2. ASSUME NEW d \in Callers, caller[d].at = "using", caller[d].ep \in accounts',
                 ~caller[d].account
          PROVE  made'[caller[d].ep] > 1 /\ caller[d].ep \in Renamable
      <4>0. made' = made
        BY <2>12 DEF ReserveAccount, membership
      <4>1. CASE caller[d].ep \in accounts
        BY <3>2, <4>0, <4>1 DEF LoginIsPrivate
      <4>2. CASE caller[d].ep = caller[c].ep
        <5>1. made[caller[d].ep] > 1 /\ caller[c].profile # caller[d].profile
          BY <3>1, <3>2, <4>2 DEF SharingNeedsReadding
        <5>2. HoldsProfile(caller[c]) /\ HoldsProfile(caller[d])
          BY DEF PoolInv, HoldingsKnown
        <5> QED BY <3>1, <3>2, <4>0, <4>2, <5>1, <5>2 DEF HoldsProfile, Holding
      <4> QED BY <3>1, <3>2, <4>1, <4>2
    <3> QED BY <3>1, <3>2 DEF LoginIsPrivate
  <2> QED BY <1>4, <2>1, <2>2, <2>3, <2>4, <2>5, <2>6, <2>7, <2>8, <2>9, <2>10, <2>11, <2>12
          DEF Using
<1>5. ASSUME NEW e \in Endpoints, Operating(e)
      PROVE  LoginIsPrivate'
  <2>1. caller' = caller /\ accounts' \in SUBSET accounts
    BY <1>5 DEF Operating, OpenSpace, CloseSpace, RemoveEndpoint, RemoveAccount, AddEndpoint,
                Configure, reservations
  <2> QED BY <1>1, <2>1
<1>6. ASSUME NEW q \in Queues, OrphanTakes(q)
      PROVE  LoginIsPrivate'
  BY <1>1, <1>6 DEF OrphanTakes, reservations
<1>7. CASE UNCHANGED vars
  BY <1>1, <1>7 DEF vars
<1> QED BY <1>4, <1>5, <1>6, <1>7 DEF Next

(***************************************************************************)
(* An endpoint that create_account has reserved is used by nobody else     *)
(* unless it was added again and its profile name changes: a caller that   *)
(* was let in before the reservation finds it when it reads the            *)
(* reservations again under the profile lock.                              *)
(***************************************************************************)
THEOREM PoolLoginsArePrivate == Spec => []LoginIsPrivate
<1>1. Init => LoginIsPrivate
  BY DEF Init, LoginIsPrivate
<1>2. PoolInv /\ LoginIsPrivate /\ [Next]_vars => LoginIsPrivate'
  BY PoolExcludes, LoginStep
<1> QED BY PoolInvHolds, <1>1, <1>2, PTL DEF Spec

-----------------------------------------------------------------------------
(* RedisBrowserPool                                                        *)

\* A task that has had an answer from Redis knows its endpoint.
EndpointKnown ==
    \A t \in Tasks : at[t] \notin {"idle", "trying"} => ep[t] \in Endpoints

\* Only a task that owns a lease renews, and only a renewing one has to.
RenewalsOwned ==
    \A t \in Tasks :
        /\ renewal[t] = "on" => at[t] \in Owning
        /\ due[t] => renewal[t] = "on"

\* A prompt owner's lease is its own, and no older than its next renewal.
LeaseIsYoung ==
    \A t \in Tasks \ Slow :
        /\ at[t] = "answered" => lease[ep[t]] = t /\ age[ep[t]] = 0
        /\ at[t] \in Owning /\ renewal[t] = "on" =>
              /\ lease[ep[t]] = t
              /\ age[ep[t]] = IF due[t] THEN 1 ELSE 0

OwnerInv == LeaseTypeOK /\ EndpointKnown /\ RenewalsOwned /\ LeaseIsYoung

LEMMA OwnerInvInit == LeaseInit => OwnerInv
  BY RedisAssumption
  DEF LeaseInit, OwnerInv, LeaseTypeOK, EndpointKnown, RenewalsOwned, LeaseIsYoung, Points, Renewals, Owning

LEMMA OwnerInvTick == OwnerInv /\ Tick => OwnerInv'
  <1> SUFFICES ASSUME OwnerInv, Tick PROVE OwnerInv'
    OBVIOUS
  <1> USE RedisAssumption DEF OwnerInv, Tick, Prompt, Owning
  <1>1. LeaseTypeOK'
    BY DEF LeaseTypeOK
  <1>2. EndpointKnown' /\ RenewalsOwned'
    BY DEF LeaseTypeOK, EndpointKnown, RenewalsOwned
  <1>3. ASSUME NEW t \in Tasks \ Slow PROVE at[t] # "answered" /\ ~due[t]
    BY DEF LeaseTypeOK
  <1>4. ASSUME NEW t \in Tasks \ Slow, at[t] \in Owning, renewal[t] = "on"
        PROVE  lease'[ep[t]] = t /\ age'[ep[t]] = 1 /\ due'[t]
    <2>1. ep[t] \in Endpoints /\ lease[ep[t]] = t /\ age[ep[t]] = 0
      BY <1>3, <1>4 DEF EndpointKnown, LeaseIsYoung
    <2>2. age[ep[t]] + 1 = 1 /\ ~(age[ep[t]] + 1 >= LeasePeriods) /\ t # Free
      BY <2>1
    <2>3. lease'[ep[t]] = t /\ age'[ep[t]] = 1
      BY <2>1, <2>2
    <2>4. due'[t]
      BY <1>4
    <2> QED BY <2>3, <2>4
  <1>5. LeaseIsYoung'
    BY <1>3, <1>4 DEF LeaseIsYoung
  <1> QED BY <1>1, <1>2, <1>5

LEMMA OwnerInvStep == ASSUME NEW t \in Tasks PROVE OwnerInv /\ Step(t) => OwnerInv'
  <1> SUFFICES ASSUME OwnerInv, Step(t) PROVE OwnerInv'
    OBVIOUS
  <1> USE RedisAssumption DEF OwnerInv, LeaseTypeOK, EndpointKnown, RenewalsOwned, LeaseIsYoung,
                              Points, Renewals, Owning
  <1>1. CASE AcquireLease(t)
    BY <1>1 DEF AcquireLease
  <1>2. CASE SetLease(t)
    BY <1>2 DEF SetLease
  <1>3. CASE Begin(t)
    BY <1>3 DEF Begin
  <1>4. CASE GiveUpLease(t)
    BY <1>4 DEF GiveUpLease, EndsTask, Abandoned
  <1>5. CASE RecheckLease(t)
    BY <1>5 DEF RecheckLease
  <1>6. CASE Renew(t)
    BY <1>6 DEF Renew
  <1>7. CASE RenewError(t)
    BY <1>7 DEF RenewError
  <1>8. CASE Leave(t)
    <2>1. CASE renewal[t] = "failed"
      <3>1. lease' = Abandoned(t) /\ EndsTask(t) /\ UNCHANGED age
        BY <1>8, <2>1 DEF Leave
      <3> QED BY <3>1 DEF EndsTask, Abandoned
    <2>2. CASE renewal[t] # "failed"
      <3>1. /\ at' = [at EXCEPT ![t] = "releasing"]
            /\ renewal' = [renewal EXCEPT ![t] = "off"]
            /\ due' = [due EXCEPT ![t] = FALSE]
            /\ UNCHANGED <<lease, candidates, ep, age>>
            /\ at[t] \in Owning
        BY <1>8, <2>2 DEF Leave
      <3> QED BY <3>1
    <2> QED BY <2>1, <2>2
  <1>9. CASE ReleaseLease(t)
    BY <1>9 DEF ReleaseLease, EndsTask
  <1>10. CASE Crash(t)
    BY <1>10 DEF Crash, EndsTask, Abandoned
  <1> QED BY <1>1, <1>2, <1>3, <1>4, <1>5, <1>6, <1>7, <1>8, <1>9, <1>10 DEF Step

LEMMA OwnerInvStutter == OwnerInv /\ UNCHANGED leaseVars => OwnerInv'
  BY DEF OwnerInv, LeaseTypeOK, EndpointKnown, RenewalsOwned, LeaseIsYoung, leaseVars

LEMMA OwnerInvHolds == LeaseSpec => []OwnerInv
  <1>1. OwnerInv /\ [LeaseNext]_leaseVars => OwnerInv'
    BY OwnerInvTick, OwnerInvStep, OwnerInvStutter DEF LeaseNext
  <1> QED BY OwnerInvInit, <1>1, PTL DEF LeaseSpec

(***************************************************************************)
(* Redis never takes the lease of a task that renews in time: no late      *)
(* renewal, failed renewal, crash or late release of another task of       *)
(* RedisBrowserPool.acquire can make it lose the endpoint.                 *)
(***************************************************************************)
THEOREM OwnersKeepTheirLeases == LeaseSpec => []LeaseTypeOK /\ []TimelyOwnerHolds
  <1>1. OwnerInv => LeaseTypeOK /\ TimelyOwnerHolds
    BY DEF OwnerInv, LeaseIsYoung, TimelyOwnerHolds
  <1> QED BY OwnerInvHolds, <1>1, PTL

(***************************************************************************)
(* Every reachable state of the Redis pool is well typed, for any number   *)
(* of tasks and endpoints.                                                 *)
(***************************************************************************)
THEOREM LeaseTypeCorrect == LeaseSpec => []LeaseTypeOK
BY OwnersKeepTheirLeases, PTL

-----------------------------------------------------------------------------
(* A prompt owner renews as long as Redis answers. *)

PromptOwnersRenew == \A t \in Tasks \ Slow : at[t] \in Owning => renewal[t] \in {"on", "failed"}

LEMMA PromptOwnersStep ==
  ASSUME OwnerInv, PromptOwnersRenew, [LeaseNext]_leaseVars
  PROVE  PromptOwnersRenew'
  <1> USE RedisAssumption DEF PromptOwnersRenew, OwnerInv, LeaseTypeOK, Owning
  <1>1. CASE Tick
    BY <1>1 DEF Tick
  <1>2. ASSUME NEW t \in Tasks, Step(t) PROVE PromptOwnersRenew'
    <2>1. CASE AcquireLease(t) \/ SetLease(t)
      BY <2>1 DEF AcquireLease, SetLease
    <2>2. CASE Begin(t)
      BY <2>2 DEF Begin
    <2>3. CASE GiveUpLease(t) \/ ReleaseLease(t) \/ Crash(t)
      BY <2>3 DEF GiveUpLease, ReleaseLease, Crash, EndsTask
    <2>4. CASE RecheckLease(t)
      BY <2>4 DEF RecheckLease
    <2>5. CASE Renew(t)
      BY <2>5 DEF Renew, LeaseIsYoung, RenewalsOwned
    <2>6. CASE RenewError(t)
      BY <2>6 DEF RenewError
    <2>7. CASE Leave(t)
      BY <2>7 DEF Leave, EndsTask
    <2> QED BY <1>2, <2>1, <2>2, <2>3, <2>4, <2>5, <2>6, <2>7 DEF Step
  <1>3. CASE UNCHANGED leaseVars
    BY <1>3 DEF leaseVars
  <1> QED BY <1>1, <1>2, <1>3 DEF LeaseNext

(***************************************************************************)
(* Of two tasks of any worker processes that use one Chrome together, one  *)
(* was late with a renewal or had renew() fail: RedisBrowserPool shares a  *)
(* Chrome for no other reason, whatever late, failing, crashing and        *)
(* cancelled tasks do to each other's leases.                              *)
(***************************************************************************)
THEOREM SharersHaveFailed == LeaseSpec => []SharingNeedsFailure
  <1>1. LeaseInit => PromptOwnersRenew
    BY DEF LeaseInit, PromptOwnersRenew, Owning
  <1>2. OwnerInv /\ PromptOwnersRenew /\ [LeaseNext]_leaseVars => PromptOwnersRenew'
    BY PromptOwnersStep
  <1>3. OwnerInv /\ PromptOwnersRenew => SharingNeedsFailure
    BY RedisAssumption
    DEF OwnerInv, LeaseIsYoung, PromptOwnersRenew, SharingNeedsFailure, Owning
  <1> QED BY OwnerInvHolds, <1>1, <1>2, <1>3, PTL DEF LeaseSpec
=============================================================================
