-------------------------- MODULE CollectionProofs --------------------------
(***************************************************************************)
(* Proofs about the two ways a source is collected: by the pipeline of     *)
(* CollectionPipeline, for any feed, any sets of runs and items and any    *)
(* bounds on retries, save attempts and faults; and through III            *)
(* (IIICollection), for any sets of handlers, payloads and callback        *)
(* summaries and any number of claims.  The two are proved apart: no       *)
(* theorem speaks of both.                                                 *)
(***************************************************************************)
EXTENDS CollectionPipeline, IIICollection, TLAPS

-----------------------------------------------------------------------------
(* CollectionPipeline                                                      *)

\* The cursor may stand at version v: each item a fetch of it returns has a row.
Backed(v) == v # 0 => \A i \in Entries(v) : rows[i] # <<>>

\* Whatever of the batch has no row yet is still to be inserted.
BatchHeld(r) == \A i \in Batch(r) : rows[i] # <<>> \/ i \in run[r].inserts

\* Every version that run r may make the cursor is backed, or will be by the
\* time it is saved.
RunBacked(r) ==
    /\ Backed(run[r].base)
    /\ run[r].at \in {"saving", "writing"} => Backed(run[r].version)
    /\ run[r].at \in {"flushing", "inserting"} => BatchHeld(r)

StagedInv ==
    /\ Backed(cursor)
    /\ \A r \in Runs : RunBacked(r)

IInv == TypeOK /\ StagedInv

-----------------------------------------------------------------------------
(* Data *)

(* A version shows a revision of every item. *)
LEMMA FeedType ==
    ASSUME NEW v \in Versions, v # 0, NEW i \in Items
    PROVE  Feed[v][i] \in Nat
BY PipelineAssumption DEF Versions

(* A fetch returns items. *)
LEMMA EntriesType ==
    ASSUME NEW v \in Versions, v # 0
    PROVE  Entries(v) \subseteq Items
<1>1. Window[v] \subseteq Items
  BY PipelineAssumption DEF Versions
<1> QED BY <1>1 DEF Entries

(* And so does a batch hold them. *)
LEMMA BatchType ==
    ASSUME TypeOK, NEW r \in Runs
    PROVE  Batch(r) \subseteq Items
<1>1. run[r].version \in Versions
  BY DEF TypeOK, RunType
<1> QED BY <1>1, EntriesType DEF Batch

(* An invocation that has not begun is well typed and holds nothing. *)
LEMMA BlankType ==
    ASSUME NEW at \in Stages, NEW scheduled \in BOOLEAN, NEW retries \in Nat
    PROVE  /\ Blank(at, scheduled, retries) \in RunType
           /\ Blank(at, scheduled, retries).at = at
           /\ Blank(at, scheduled, retries).base = 0
           /\ Blank(at, scheduled, retries).version = 0
BY PipelineAssumption DEF Blank, RunType, Versions

(* What store_records writes: no item loses its row, and the items that are *)
(* inserted have one.                                                       *)
LEMMA WrittenRows ==
    ASSUME TypeOK, NEW r \in Runs, run[r].version # 0,
           NEW updates, NEW new \in SUBSET Items
    PROVE  /\ Written(r, updates, new) \in [Items -> Seq(Nat)]
           /\ \A i \in Items : rows[i] # <<>> \/ i \in new => Written(r, updates, new)[i] # <<>>
<1> DEFINE old(i) == [k \in DOMAIN rows[i] |->
                         IF <<i, k>> \in updates THEN Revision(r, i) ELSE rows[i][k]]
<1>1. \A i \in Items : Revision(r, i) \in Nat
  BY FeedType DEF Revision, TypeOK, RunType
<1>2. ASSUME NEW i \in Items
      PROVE  old(i) \in Seq(Nat) /\ Len(old(i)) = Len(rows[i])
  <2>1. rows[i] \in Seq(Nat)
    BY DEF TypeOK
  <2>2. DOMAIN rows[i] = 1 .. Len(rows[i]) /\ Len(rows[i]) \in Nat
    BY <2>1
  <2> QED BY <1>1, <2>1, <2>2
<1>3. \A i \in Items : Written(r, updates, new)[i] =
                         IF i \in new THEN Append(old(i), Revision(r, i)) ELSE old(i)
  BY DEF Written
<1> HIDE DEF old
<1>4. ASSUME NEW i \in Items
      PROVE  /\ Written(r, updates, new)[i] \in Seq(Nat)
             /\ rows[i] # <<>> \/ i \in new => Written(r, updates, new)[i] # <<>>
  <2>1. /\ rows[i] \in Seq(Nat) /\ old(i) \in Seq(Nat) /\ Revision(r, i) \in Nat
        /\ Len(old(i)) = Len(rows[i])
    BY <1>1, <1>2 DEF TypeOK
  <2>2. CASE i \in new
    <3>1. Append(old(i), Revision(r, i)) \in Seq(Nat)
      BY <2>1
    <3>2. Append(old(i), Revision(r, i)) # <<>>
      BY <2>1
    <3> QED BY <1>3, <2>2, <3>1, <3>2
  <2>3. CASE i \notin new
    <3>1. rows[i] # <<>> => Len(rows[i]) # 0
      BY <2>1
    <3>2. old(i) = <<>> => Len(old(i)) = 0
      OBVIOUS
    <3> QED BY <1>3, <2>1, <2>3, <3>1, <3>2
  <2> QED BY <2>2, <2>3
<1>5. Written(r, updates, new) = [i \in Items |-> Written(r, updates, new)[i]]
  BY DEF Written
<1> QED BY <1>4, <1>5

-----------------------------------------------------------------------------
(* Frames *)

\* No item loses its last row.
RowsStay == \A i \in Items : rows[i] # <<>> => rows'[i] # <<>>

(* A step that moves only run r keeps the others as they were. *)
LEMMA OneRunMoves ==
    ASSUME TypeOK, StagedInv, NEW r \in Runs, RowsStay,
           \A s \in Runs \ {r} : run'[s] = run[s],
           RunBacked(r)', Backed(cursor)'
    PROVE  StagedInv'
<1>1. ASSUME NEW v \in Versions, Backed(v)
      PROVE  (v # 0 => \A i \in Entries(v) : rows'[i] # <<>>)
  BY <1>1, EntriesType DEF Backed, RowsStay
<1>2. ASSUME NEW s \in Runs \ {r}
      PROVE  RunBacked(s)'
  <2>1. /\ run'[s] = run[s] /\ RunBacked(s)
        /\ run[s].base \in Versions /\ run[s].version \in Versions
    BY DEF StagedInv, TypeOK, RunType
  <2>2. Batch(s) \subseteq Items /\ Batch(s)' = Batch(s)
    BY <2>1, BatchType DEF Batch
  <2>3. BatchHeld(s) => BatchHeld(s)'
    BY <2>1, <2>2 DEF BatchHeld, RowsStay
  <2> QED BY <1>1, <2>1, <2>3 DEF RunBacked, Backed
<1> QED BY <1>2 DEF StagedInv

(* A run without a cursor and without a batch stakes nothing. *)
LEMMA BlankIsBacked ==
    ASSUME NEW r, run'[r].base = 0, run'[r].version = 0,
           run'[r].at \notin {"flushing", "inserting"}
    PROVE  RunBacked(r)'
BY DEF RunBacked, Backed

-----------------------------------------------------------------------------
(* The inductive invariant *)

(* Nothing is stored and no run has begun. *)
LEMMA InitInv == Init => IInv
<1> SUFFICES ASSUME Init PROVE IInv
  OBVIOUS
<1>1. \A r \in Runs : run[r] = Blank("idle", FALSE, 0)
  BY DEF Init
<1>2. Blank("idle", FALSE, 0) \in RunType
  BY BlankType DEF Stages
<1>3. /\ \A r \in Runs : run[r] \in RunType /\ run[r].at = "idle" /\ run[r].base = 0
      /\ run = [r \in Runs |-> run[r]]
  BY <1>1, <1>2 DEF Init, Blank
<1>4. TypeOK
  <2>1. rows \in [Items -> Seq(Nat)]
    BY DEF Init
  <2>2. feed \in Versions \ {0} /\ cursor \in Versions
    BY PipelineAssumption DEF Init, Versions
  <2>3. run \in [Runs -> RunType] /\ \A r \in Runs : run[r].at \notin InSink
    BY <1>3 DEF InSink
  <2>4. task \in [Runs -> Statuses] /\ executor \in Executors /\ api \in {"up", "down"}
    BY DEF Init, Statuses
  <2>5. seen \subseteq Runs /\ faults \in 0 .. MaxFaults
    BY PipelineAssumption DEF Init
  <2> QED BY <2>1, <2>2, <2>3, <2>4, <2>5 DEF TypeOK
<1>5. StagedInv
  BY <1>3 DEF Init, StagedInv, RunBacked, Backed
<1> QED BY <1>4, <1>5 DEF IInv

(* A run is well typed after a step if it is, and has a batch in the sink; *)
(* the other runs did not move.                                            *)
LEMMA OneRunTyped ==
    ASSUME TypeOK, NEW r \in Runs, NEW x \in RunType, x.at \in InSink => x.version # 0,
           run' = [run EXCEPT ![r] = x]
    PROVE  /\ run' \in [Runs -> RunType]
           /\ \A s \in Runs : run'[s].at \in InSink => run'[s].version # 0
           /\ run'[r] = x
           /\ \A s \in Runs \ {r} : run'[s] = run[s]
BY DEF TypeOK

(* A step that only moves run r to locals without a cursor and a batch, and *)
(* leaves what is stored alone, keeps the invariant.                        *)
LEMMA Blanked ==
    ASSUME IInv, NEW r \in Runs, NEW x \in RunType,
           x.at \notin InSink, x.base = 0, x.version = 0,
           run' = [run EXCEPT ![r] = x],
           rows' = rows, cursor' = cursor \/ Backed(cursor)',
           cursor' \in Versions, seen' \subseteq Runs,
           task' \in [Runs -> Statuses],
           faults' \in 0 .. MaxFaults,
           UNCHANGED <<executor, api, feed>>
    PROVE  IInv'
<1>1. /\ run' \in [Runs -> RunType]
      /\ \A s \in Runs : run'[s].at \in InSink => run'[s].version # 0
      /\ run'[r] = x
      /\ \A s \in Runs \ {r} : run'[s] = run[s]
  BY OneRunTyped DEF IInv
<1>2. TypeOK'
  BY <1>1 DEF IInv, TypeOK, Versions
<1>3. RunBacked(r)'
  BY <1>1, BlankIsBacked DEF InSink
<1>4. Backed(cursor)'
  BY DEF IInv, StagedInv, Backed
<1>5. RowsStay
  BY DEF RowsStay
<1> QED BY <1>1, <1>2, <1>3, <1>4, <1>5, OneRunMoves DEF IInv

(* A fault is counted up to the bound. *)
LEMMA FaultCounted ==
    ASSUME TypeOK, Fault
    PROVE  faults' \in 0 .. MaxFaults
BY PipelineAssumption DEF TypeOK, Fault

(* A run that goes on without its locals. *)
LEMMA GoesOnBlank ==
    ASSUME TypeOK, NEW r \in Runs, NEW point \in Stages, GoesOn(r, point)
    PROVE  \E x \in RunType : /\ x.at = point /\ x.base = 0 /\ x.version = 0
                              /\ run' = [run EXCEPT ![r] = x]
<1> DEFINE b == Blank(point, run[r].scheduled, run[r].retries)
           x == [b EXCEPT !.fresh = run[r].fresh]
<1>1. run[r].scheduled \in BOOLEAN /\ run[r].retries \in Nat /\ run[r].fresh \in BOOLEAN
  BY DEF TypeOK, RunType
<1>2. b \in RunType /\ b.at = point /\ b.base = 0 /\ b.version = 0
  BY <1>1, BlankType
<1>3. run' = [run EXCEPT ![r] = x]
  BY DEF GoesOn
<1> HIDE DEF b
<1>4. x \in RunType /\ x.at = point /\ x.base = 0 /\ x.version = 0
  BY <1>1, <1>2 DEF RunType
<1> HIDE DEF x
<1> QED BY <1>3, <1>4

(* The steps that start a run, end it or give it up. *)
LEMMA BlankingSteps ==
    ASSUME IInv, NEW r \in Runs,
           \/ ScheduleFires(r) \/ Trigger(r) \/ TriggerDispatchFails(r)
           \/ FetchFails(r) \/ SinkFails(r) \/ SaveFails(r)
           \/ Finish(r) \/ Raise(r) \/ DatabaseFails(r) \/ WorkerDies(r)
    PROVE  IInv'
<1> USE DEF IInv
<1>0. /\ run[r].scheduled \in BOOLEAN /\ run[r].retries \in Nat /\ run[r].retries + 1 \in Nat
      /\ task \in [Runs -> Statuses] /\ faults \in 0 .. MaxFaults
      /\ cursor \in Versions /\ seen \subseteq Runs
  BY DEF TypeOK, RunType
<1>t. \A st \in Statuses : [task EXCEPT ![r] = st] \in [Runs -> Statuses]
  BY <1>0
<1>s. {"none", "pending", "ended"} \subseteq Statuses
  BY DEF Statuses, Unsettled
<1>b. ASSUME NEW at \in {"idle", "triggered", "waiting", "stranded"}, NEW scheduled \in BOOLEAN,
             NEW retries \in Nat
      PROVE  /\ Blank(at, scheduled, retries) \in RunType
             /\ Blank(at, scheduled, retries).at \notin InSink
             /\ Blank(at, scheduled, retries).base = 0
             /\ Blank(at, scheduled, retries).version = 0
  BY BlankType DEF Stages, InSink
<1>1. CASE ScheduleFires(r)
  BY <1>0, <1>t, <1>s, <1>b, <1>1, Blanked DEF ScheduleFires, Marks, store
<1>2. CASE Trigger(r)
  BY <1>0, <1>t, <1>s, <1>b, <1>2, Blanked DEF Trigger, Marks, store
<1>3. CASE TriggerDispatchFails(r)
  BY <1>0, <1>b, <1>3, FaultCounted, Blanked DEF TriggerDispatchFails, store
<1>4. CASE FetchFails(r) \/ SinkFails(r) \/ SaveFails(r)
  <2>1. PICK point \in {"raising", "closing", "enriching"} : GoesOn(r, point)
    BY <1>4 DEF FetchFails, SinkFails, SaveFails
  <2>2. PICK x \in RunType : /\ x.at = point /\ x.base = 0 /\ x.version = 0
                             /\ run' = [run EXCEPT ![r] = x]
    BY <2>1, GoesOnBlank DEF Stages, Working
  <2>3. /\ rows' = rows /\ cursor' = cursor /\ seen' \subseteq Runs /\ task' = task /\ Fault
        /\ UNCHANGED <<executor, api, feed>>
    BY <1>0, <1>4 DEF FetchFails, SinkFails, SaveFails, store
  <2>4. x.at \notin InSink
    BY <2>2 DEF InSink
  <2> QED BY <1>0, <2>2, <2>3, <2>4, FaultCounted, Blanked
<1>5. CASE Finish(r)
  BY <1>0, <1>t, <1>s, <1>b, <1>5, Blanked DEF Finish, Marks, store
<1>6. CASE Raise(r)
  BY <1>0, <1>t, <1>s, <1>b, <1>6, Blanked DEF Raise, Marks, store
<1>7. CASE WorkerDies(r)
  <2>1. /\ rows' = rows /\ cursor' = cursor /\ seen' \subseteq Runs /\ task' = task /\ Fault
        /\ UNCHANGED <<executor, api, feed>>
    BY <1>0, <1>7 DEF WorkerDies
  <2>2. \/ run' = [run EXCEPT ![r] = Blank("waiting", run[r].scheduled, run[r].retries)]
        \/ run' = [run EXCEPT ![r] = Blank("idle", FALSE, 0)]
    BY <1>7 DEF WorkerDies
  <2> QED BY <1>0, <1>b, <2>1, <2>2, FaultCounted, Blanked
<1>8. CASE DatabaseFails(r)
  BY <1>0, <1>b, <1>8, FaultCounted, Blanked DEF DatabaseFails, store
<1> QED BY <1>1, <1>2, <1>3, <1>4, <1>5, <1>6, <1>7, <1>8

(* A step that moves run r to locals x, and leaves what is stored and the *)
(* cursor alone, keeps the invariant if x stakes no more than is backed.  *)
LEMMA Moved ==
    ASSUME IInv, NEW r \in Runs, NEW x \in RunType, x.at \in InSink => x.version # 0,
           run' = [run EXCEPT ![r] = x], RunBacked(r)',
           rows' = rows, cursor' = cursor, seen' \subseteq Runs,
           task' \in [Runs -> Statuses],
           UNCHANGED <<executor, api, feed, faults>>
    PROVE  IInv'
<1>1. /\ run' \in [Runs -> RunType]
      /\ \A s \in Runs : run'[s].at \in InSink => run'[s].version # 0
      /\ \A s \in Runs \ {r} : run'[s] = run[s]
  BY OneRunTyped DEF IInv
<1>2. TypeOK'
  BY <1>1 DEF IInv, TypeOK
<1>3. Backed(cursor)' /\ RowsStay
  BY DEF IInv, StagedInv, Backed, RowsStay
<1> QED BY <1>1, <1>2, <1>3, OneRunMoves DEF IInv

(* The steps in which a run only goes on to its next stage. *)
LEMMA PlainSteps ==
    ASSUME IInv, NEW r \in Runs,
           TriggerDispatch(r) \/ Occurrence(r) \/ Begin(r) \/ Enrich(r)
    PROVE  IInv'
<1> DEFINE next == {"waiting", "starting", "loading", "closing"}
<1>0. run \in [Runs -> RunType] /\ run[r] \in RunType /\ task \in [Runs -> Statuses]
  BY DEF IInv, TypeOK
<1>1. PICK point \in next : run' = [run EXCEPT ![r].at = point]
  BY DEF TriggerDispatch, Occurrence, Begin, Enrich, Goes
<1> DEFINE x == [run[r] EXCEPT !.at = point]
<1>2. run' = [run EXCEPT ![r] = x]
  BY <1>0, <1>1
<1>3. /\ x \in RunType /\ x.at = point
      /\ x.base = run[r].base
  BY <1>0 DEF RunType, Stages, Working
<1> HIDE DEF x
<1>4. run'[r] = x
  BY <1>0, <1>2
<1>5. /\ rows' = rows /\ cursor' = cursor /\ seen' = seen
      /\ UNCHANGED <<executor, api, feed, faults>>
  BY DEF TriggerDispatch, Occurrence, Begin, Enrich, store
<1>6. task' \in [Runs -> Statuses]
  BY <1>0 DEF TriggerDispatch, Occurrence, Begin, Enrich, Marks, Statuses, Unsettled
<1>7. RunBacked(r)'
  BY <1>3, <1>4, <1>5 DEF IInv, StagedInv, RunBacked, Backed
<1>8. x.at \notin InSink
  BY <1>3 DEF InSink
<1>9. seen' \subseteq Runs
  BY <1>5 DEF IInv, TypeOK
<1> QED BY <1>2, <1>3, <1>5, <1>6, <1>7, <1>8, <1>9, Moved

(* The cursor a run begins from is backed, as the cursor is. *)
LEMMA LoadCursorStep ==
    ASSUME IInv, NEW r \in Runs, LoadCursor(r)
    PROVE  IInv'
<1> DEFINE x == [run[r] EXCEPT !.base = cursor, !.at = "fetching"]
<1>0. run \in [Runs -> RunType] /\ run[r] \in RunType /\ cursor \in Versions
  BY DEF IInv, TypeOK
<1>1. run' = [run EXCEPT ![r] = x]
  BY <1>0 DEF LoadCursor
<1>2. x \in RunType /\ x.at = "fetching" /\ x.base = cursor
  BY <1>0 DEF RunType, Stages, Working
<1> HIDE DEF x
<1>3. run'[r] = x
  BY <1>0, <1>1
<1>4. /\ rows' = rows /\ cursor' = cursor /\ seen' \subseteq Runs /\ task' \in [Runs -> Statuses]
      /\ UNCHANGED <<executor, api, feed, faults>>
  BY DEF LoadCursor, store, IInv, TypeOK
<1>5. RunBacked(r)'
  BY <1>2, <1>3, <1>4 DEF IInv, StagedInv, RunBacked, Backed
<1>6. x.at \notin InSink
  BY <1>2 DEF InSink
<1> QED BY <1>1, <1>2, <1>4, <1>5, <1>6, Moved

(* A 304 stakes nothing beyond the cursor the run began from, and a fetched *)
(* version is not yet to be saved.                                          *)
LEMMA FetchStep ==
    ASSUME IInv, NEW r \in Runs, Fetch(r)
    PROVE  IInv'
<1> DEFINE x == [run[r] EXCEPT !.version = IF run[r].base = feed THEN 0 ELSE feed,
                               !.at = IF run[r].base = feed THEN "saving" ELSE "matching"]
<1>0. /\ run \in [Runs -> RunType] /\ run[r] \in RunType
      /\ feed \in Versions /\ feed # 0 /\ 0 \in Versions
  BY PipelineAssumption DEF IInv, TypeOK, Versions
<1>1. run' = [run EXCEPT ![r] = x]
  BY <1>0 DEF Fetch
<1>2. /\ x \in RunType /\ x.base = run[r].base
      /\ \/ x.at = "saving" /\ x.version = 0
         \/ x.at = "matching" /\ x.version # 0
  BY <1>0 DEF RunType, Stages, Working, InSink
<1> HIDE DEF x
<1>3. run'[r] = x
  BY <1>0, <1>1
<1>4. /\ rows' = rows /\ cursor' = cursor /\ seen' \subseteq Runs /\ task' \in [Runs -> Statuses]
      /\ UNCHANGED <<executor, api, feed, faults>>
  BY DEF Fetch, store, IInv, TypeOK
<1>5. RunBacked(r)'
  BY <1>2, <1>3, <1>4 DEF IInv, StagedInv, RunBacked, Backed
<1>6. x.at \in InSink => x.version # 0
  BY <1>2 DEF InSink
<1> QED BY <1>1, <1>2, <1>4, <1>5, <1>6, Moved

(* The items of the batch without a row are all to be inserted. *)
LEMMA MatchStep ==
    ASSUME IInv, NEW r \in Runs, MatchIdentities(r)
    PROVE  IInv'
<1> DEFINE matched == {i \in Batch(r) : rows[i] # <<>>}
<1>1. PICK last \in [matched -> UNION {DOMAIN rows[i] : i \in Items}] :
          /\ \A i \in matched : last[i] \in DOMAIN rows[i]
          /\ run' = [run EXCEPT
                ![r].updates = {<<i, last[i]>> : i \in
                    {j \in matched : rows[j][last[j]] # Revision(r, j)}},
                ![r].inserts = Batch(r) \ matched,
                ![r].at = "flushing"]
  BY DEF MatchIdentities
<1> DEFINE updates == {<<i, last[i]>> : i \in
                          {j \in matched : rows[j][last[j]] # Revision(r, j)}}
           x == [run[r] EXCEPT !.updates = updates,
                               !.inserts = Batch(r) \ matched, !.at = "flushing"]
<1>2. /\ run \in [Runs -> RunType] /\ run[r] \in RunType
      /\ run[r].version # 0
  BY DEF IInv, TypeOK, MatchIdentities, At, InSink
<1>3. run' = [run EXCEPT ![r] = x]
  BY <1>1, <1>2
<1>4. updates \in SUBSET (Items \X Nat)
  <2>1. ASSUME NEW i \in matched
        PROVE  i \in Items /\ last[i] \in Nat
    <3>1. i \in Items /\ rows[i] \in Seq(Nat)
      BY BatchType DEF IInv, TypeOK
    <3>2. DOMAIN rows[i] = 1 .. Len(rows[i]) /\ Len(rows[i]) \in Nat
      BY <3>1
    <3>3. last[i] \in DOMAIN rows[i]
      BY <1>1
    <3>4. last[i] \in Nat
      BY <3>2, <3>3
    <3> QED BY <3>1, <3>4
  <2> QED BY <2>1
<1>5. Batch(r) \ matched \in SUBSET Items
  BY BatchType DEF IInv
<1>6. \A i \in Batch(r) : rows[i] # <<>> \/ i \in Batch(r) \ matched
  OBVIOUS
<1> HIDE DEF updates, matched
<1>7. /\ x \in RunType /\ x.at = "flushing" /\ x.base = run[r].base
      /\ x.version = run[r].version /\ x.inserts = Batch(r) \ matched
  BY <1>2, <1>4, <1>5 DEF RunType, Stages, Working, InSink
<1> HIDE DEF x
<1>8. run'[r] = x
  BY <1>2, <1>3
<1>9. /\ rows' = rows /\ cursor' = cursor /\ seen' \subseteq Runs /\ task' \in [Runs -> Statuses]
      /\ UNCHANGED <<executor, api, feed, faults>>
  BY DEF MatchIdentities, store, IInv, TypeOK
<1>10. Batch(r)' = Batch(r)
  BY <1>7, <1>8 DEF Batch
<1>11. BatchHeld(r)'
  BY <1>6, <1>7, <1>8, <1>9, <1>10 DEF BatchHeld
<1>12. RunBacked(r)'
  BY <1>7, <1>8, <1>9, <1>11 DEF IInv, StagedInv, RunBacked, Backed
<1> QED BY <1>2, <1>3, <1>7, <1>9, <1>12, Moved

(* A commit of store_records that leaves every item of the batch with a row *)
(* makes its version one that may be saved.                                 *)
LEMMA Committed ==
    ASSUME IInv, NEW r \in Runs, run[r].at \in InSink,
           NEW updates, NEW new \in SUBSET Items,
           \A i \in Batch(r) : rows[i] # <<>> \/ i \in new,
           NEW x \in RunType, x.at = "saving", x.base = run[r].base,
           x.version = run[r].version, run' = [run EXCEPT ![r] = x],
           rows' = Written(r, updates, new),
           UNCHANGED <<executor, api, feed, cursor, seen, task, faults>>
    PROVE  IInv'
<1>1. TypeOK /\ run[r].version # 0
  BY DEF IInv, TypeOK
<1>2. /\ rows' \in [Items -> Seq(Nat)]
      /\ \A i \in Items : rows[i] # <<>> \/ i \in new => rows'[i] # <<>>
  BY <1>1, WrittenRows
<1>3. /\ run' \in [Runs -> RunType]
      /\ \A s \in Runs : run'[s].at \in InSink => run'[s].version # 0
      /\ run'[r] = x
      /\ \A s \in Runs \ {r} : run'[s] = run[s]
  BY <1>1, OneRunTyped DEF InSink
<1>4. TypeOK'
  BY <1>1, <1>2, <1>3 DEF TypeOK
<1>5. RowsStay
  BY <1>2 DEF RowsStay
<1>6. Backed(run[r].version)'
  <2>1. Batch(r) = Entries(run[r].version) /\ Batch(r) \subseteq Items
    BY <1>1, BatchType DEF Batch
  <2> QED BY <1>2, <1>3, <2>1 DEF Backed
<1>7. Backed(run[r].base)' /\ Backed(cursor)'
  <2>1. run[r].base \in Versions /\ cursor \in Versions
    BY <1>1 DEF TypeOK, RunType
  <2> QED BY <1>2, <1>3, <2>1, EntriesType DEF Backed, IInv, StagedInv, RunBacked
<1>8. RunBacked(r)'
  BY <1>3, <1>6, <1>7 DEF RunBacked
<1> QED BY <1>3, <1>4, <1>5, <1>7, <1>8, OneRunMoves DEF IInv

(* The flush writes the whole batch, or leaves the inserts to be tried again. *)
LEMMA FlushStep ==
    ASSUME IInv, NEW r \in Runs, Flush(r)
    PROVE  IInv'
<1>0. /\ run \in [Runs -> RunType] /\ run[r] \in RunType /\ run[r].at = "flushing"
      /\ run[r].inserts \in SUBSET Items /\ BatchHeld(r) /\ run[r].version # 0
  BY DEF IInv, TypeOK, Flush, At, StagedInv, RunBacked, RunType, InSink
<1>1. CASE /\ rows' = Written(r, run[r].updates, run[r].inserts)
           /\ run' = [run EXCEPT ![r].fresh = run[r].updates # {} \/ run[r].inserts # {},
                                 ![r].updates = {}, ![r].inserts = {}, ![r].at = "saving"]
  <2> DEFINE y == run[r].updates # {} \/ run[r].inserts # {}
             x == [run[r] EXCEPT !.fresh = y, !.updates = {}, !.inserts = {}, !.at = "saving"]
  <2>1. run' = [run EXCEPT ![r] = x]
    BY <1>0, <1>1
  <2>y. y \in BOOLEAN
    OBVIOUS
  <2> HIDE DEF y
  <2>2. /\ x \in RunType /\ x.at = "saving" /\ x.base = run[r].base
        /\ x.version = run[r].version
    BY <1>0, <2>y DEF RunType, Stages, Working
  <2> HIDE DEF x
  <2> QED BY <1>0, <1>1, <2>1, <2>2, Committed DEF Flush, BatchHeld, InSink
<1>2. CASE /\ rows' = rows
           /\ run' = [run EXCEPT ![r].updates = {}, ![r].at = "inserting"]
  <2> DEFINE x == [run[r] EXCEPT !.updates = {}, !.at = "inserting"]
  <2>1. run' = [run EXCEPT ![r] = x]
    BY <1>0, <1>2
  <2>2. /\ x \in RunType /\ x.at = "inserting" /\ x.base = run[r].base
        /\ x.version = run[r].version /\ x.inserts = run[r].inserts
    BY <1>0 DEF RunType, Stages, Working, InSink
  <2> HIDE DEF x
  <2>3. run'[r] = x
    BY <1>0, <2>1
  <2>4. /\ rows' = rows /\ cursor' = cursor /\ seen' \subseteq Runs
        /\ task' \in [Runs -> Statuses] /\ UNCHANGED <<executor, api, feed, faults>>
    BY <1>2 DEF Flush, IInv, TypeOK
  <2>5. RunBacked(r)'
    BY <1>0, <2>2, <2>3, <2>4 DEF IInv, StagedInv, RunBacked, Backed, BatchHeld, Batch
  <2> QED BY <1>0, <2>1, <2>2, <2>4, <2>5, Moved
<1> QED BY <1>1, <1>2 DEF Flush

(* What is not inserted after a collision is there under the same hash. *)
LEMMA SurvivorsStep ==
    ASSUME IInv, NEW r \in Runs, InsertSurvivors(r)
    PROVE  IInv'
<1> DEFINE survivors == run[r].inserts \ Stored(r, run[r].inserts)
           y == survivors # {}
           x == [run[r] EXCEPT !.fresh = y, !.inserts = {}, !.at = "saving"]
<1>0. /\ run \in [Runs -> RunType] /\ run[r] \in RunType /\ run[r].at = "inserting"
      /\ run[r].inserts \in SUBSET Items /\ BatchHeld(r)
  BY DEF IInv, TypeOK, InsertSurvivors, At, StagedInv, RunBacked, RunType
<1>1. \A i \in Stored(r, run[r].inserts) : rows[i] # <<>>
  <2> SUFFICES ASSUME NEW i \in Stored(r, run[r].inserts)
               PROVE  rows[i] # <<>>
    OBVIOUS
  <2>1. PICK k \in DOMAIN rows[i] : TRUE
    BY DEF Stored, Range
  <2>2. rows[i] \in Seq(Nat)
    BY <1>0 DEF Stored, IInv, TypeOK
  <2> QED BY <2>1, <2>2
<1>2. \A i \in Batch(r) : rows[i] # <<>> \/ i \in survivors
  BY <1>0, <1>1 DEF BatchHeld
<1>3. survivors \in SUBSET Items
  BY <1>0
<1>4. run' = [run EXCEPT ![r] = x]
  BY <1>0 DEF InsertSurvivors
<1>5. /\ rows' = Written(r, {}, survivors) /\ y \in BOOLEAN
      /\ UNCHANGED <<executor, api, feed, cursor, seen, task, faults>>
  BY DEF InsertSurvivors
<1> HIDE DEF survivors, y
<1>6. /\ x \in RunType /\ x.at = "saving" /\ x.base = run[r].base
      /\ x.version = run[r].version
  BY <1>0, <1>5 DEF RunType, Stages, Working
<1> HIDE DEF x
<1> QED BY <1>0, <1>2, <1>3, <1>4, <1>5, <1>6, Committed DEF InSink

(* The read of save changes nothing but who has seen the row. *)
LEMMA SaveReadStep ==
    ASSUME IInv, NEW r \in Runs, SaveRead(r)
    PROVE  IInv'
<1> DEFINE n == run[r].saves + 1
           x == [run[r] EXCEPT !.saves = n, !.at = "writing"]
<1>0. run \in [Runs -> RunType] /\ run[r] \in RunType /\ run[r].at = "saving"
  BY DEF IInv, TypeOK, SaveRead, At
<1>1. run' = [run EXCEPT ![r] = x]
  BY <1>0 DEF SaveRead
<1>n. n \in Nat
  BY <1>0 DEF RunType
<1> HIDE DEF n
<1>2. /\ x \in RunType /\ x.at = "writing" /\ x.base = run[r].base
      /\ x.version = run[r].version
  BY <1>0, <1>n DEF RunType, Stages, Working
<1> HIDE DEF x
<1>3. run'[r] = x
  BY <1>0, <1>1
<1>4. /\ rows' = rows /\ cursor' = cursor /\ seen' \subseteq Runs /\ task' \in [Runs -> Statuses]
      /\ UNCHANGED <<executor, api, feed, faults>>
  BY DEF SaveRead, IInv, TypeOK
<1>5. RunBacked(r)'
  BY <1>0, <1>2, <1>3, <1>4 DEF IInv, StagedInv, RunBacked, Backed
<1>6. x.at \notin InSink
  BY <1>2 DEF InSink
<1> QED BY <1>1, <1>2, <1>4, <1>5, <1>6, Moved

(* What is saved is the version of the batch or the cursor the run began *)
(* from, and both are backed.                                            *)
LEMMA SaveWriteStep ==
    ASSUME IInv, NEW r \in Runs, SaveWrite(r)
    PROVE  IInv'
<1>0. /\ run \in [Runs -> RunType] /\ run[r] \in RunType /\ run[r].at = "writing"
      /\ Backed(run[r].base) /\ Backed(run[r].version)
      /\ cursor \in Versions /\ seen \subseteq Runs
      /\ task \in [Runs -> Statuses] /\ faults \in 0 .. MaxFaults
  BY DEF IInv, TypeOK, SaveWrite, At, StagedInv, RunBacked
<1>1. UNCHANGED <<executor, api, feed, rows, task, faults>>
  BY DEF SaveWrite
<1>2. CASE GoesOn(r, "enriching")
  <2>1. PICK x \in RunType : /\ x.at = "enriching" /\ x.base = 0 /\ x.version = 0
                             /\ run' = [run EXCEPT ![r] = x]
    BY <1>2, GoesOnBlank DEF IInv, Stages, Working
  <2>2. Pending(r) \in Versions /\ Backed(Pending(r))
    BY <1>0 DEF Pending, RunType
  <2>3. \/ cursor' = cursor /\ seen' = seen
        \/ cursor' = Pending(r) /\ seen' = {}
    BY DEF SaveWrite
  <2>4. Backed(cursor)'
    BY <1>1, <2>2, <2>3 DEF IInv, StagedInv, Backed
  <2>5. x.at \notin InSink /\ cursor' \in Versions /\ seen' \subseteq Runs
    BY <1>0, <2>1, <2>2, <2>3 DEF InSink
  <2> QED BY <1>0, <1>1, <2>1, <2>4, <2>5, Blanked
<1>3. CASE Goes(r, "saving") /\ UNCHANGED <<cursor, seen>>
  <2> DEFINE x == [run[r] EXCEPT !.at = "saving"]
  <2>1. run' = [run EXCEPT ![r] = x]
    BY <1>0, <1>3 DEF Goes
  <2>2. /\ x \in RunType /\ x.at = "saving" /\ x.base = run[r].base
        /\ x.version = run[r].version
    BY <1>0 DEF RunType, Stages, Working
  <2> HIDE DEF x
  <2>3. run'[r] = x
    BY <1>0, <2>1
  <2>4. RunBacked(r)'
    BY <1>0, <1>1, <2>2, <2>3 DEF RunBacked, Backed
  <2>5. x.at \notin InSink
    BY <2>2 DEF InSink
  <2> QED BY <1>0, <1>1, <1>3, <2>1, <2>2, <2>4, <2>5, Moved
<1> QED BY <1>2, <1>3 DEF SaveWrite

(* The source and the API process: a crash blanks runs, nothing more. *)
LEMMA OutsideSteps ==
    ASSUME IInv, FeedChanges \/ ApiCrash \/ ApiRestart
    PROVE  IInv'
<1>1. CASE FeedChanges
  <2>1. feed' \in Versions \ {0}
    BY <1>1, PipelineAssumption DEF FeedChanges, IInv, TypeOK, Versions
  <2>2. TypeOK'
    BY <1>1, <2>1 DEF FeedChanges, IInv, TypeOK
  <2>3. StagedInv'
    BY <1>1 DEF FeedChanges, IInv, StagedInv, RunBacked, Backed, BatchHeld, Batch
  <2> QED BY <2>2, <2>3 DEF IInv
<1>2. CASE ApiCrash
  <2> DEFINE lost == {r \in Runs : executor = "local" \/ At(r, "triggered")}
             b == Blank("idle", FALSE, 0)
  <2>1. /\ run' = [r \in Runs |-> IF r \in lost THEN b ELSE run[r]]
        /\ api' = "down" /\ seen' = seen \ lost /\ Fault
        /\ UNCHANGED <<executor, feed, cursor, rows, task>>
    BY <1>2 DEF ApiCrash
  <2>2. b \in RunType /\ b.at = "idle" /\ b.base = 0 /\ b.version = 0
    BY BlankType DEF Stages
  <2> HIDE DEF lost, b
  <2>3. \A r \in Runs : run'[r] = run[r] \/ run'[r] = b
    BY <2>1
  <2>4. /\ run' \in [Runs -> RunType]
        /\ \A r \in Runs : run'[r].at \in InSink => run'[r].version # 0
    BY <2>1, <2>2, <2>3 DEF IInv, TypeOK, InSink
  <2>5. TypeOK'
    BY <2>1, <2>4, FaultCounted DEF IInv, TypeOK
  <2>6. ASSUME NEW r \in Runs
        PROVE  RunBacked(r)'
    <3>1. CASE run'[r] = run[r]
      BY <2>1, <3>1 DEF IInv, StagedInv, RunBacked, Backed, BatchHeld, Batch
    <3>2. CASE run'[r] = b
      BY <2>2, <3>2, BlankIsBacked
    <3> QED BY <2>3, <3>1, <3>2
  <2>7. Backed(cursor)'
    BY <2>1 DEF IInv, StagedInv, Backed
  <2> QED BY <2>5, <2>6, <2>7 DEF IInv, StagedInv
<1>3. CASE ApiRestart
  <2>1. task' \in [Runs -> Statuses]
    BY <1>3 DEF ApiRestart, IInv, TypeOK, Statuses
  <2>2. TypeOK'
    BY <1>3, <2>1 DEF ApiRestart, store, IInv, TypeOK
  <2>3. StagedInv'
    BY <1>3 DEF ApiRestart, store, IInv, StagedInv, RunBacked, Backed, BatchHeld, Batch
  <2> QED BY <2>2, <2>3 DEF IInv
<1> QED BY <1>1, <1>2, <1>3

-----------------------------------------------------------------------------
(* Theorems *)

(***************************************************************************)
(* The inductive invariant: whatever version a run of the pipeline         *)
(* (collector.py, storer.py, cursor_store.py) may still save is backed by  *)
(* rows, or the items it lacks are in the transaction before the save.     *)
(***************************************************************************)
THEOREM StagedInvariant == Spec => []IInv
<1>1. IInv /\ [Next]_vars => IInv'
  <2> SUFFICES ASSUME IInv, [Next]_vars PROVE IInv'
    OBVIOUS
  <2>1. ASSUME NEW r \in Runs,
               \/ ScheduleFires(r) \/ Trigger(r) \/ RunStep(r)
               \/ TriggerDispatchFails(r) \/ FetchFails(r) \/ SinkFails(r) \/ SaveFails(r)
               \/ DatabaseFails(r) \/ WorkerDies(r)
        PROVE  IInv'
    BY <2>1, BlankingSteps, PlainSteps, LoadCursorStep, FetchStep, MatchStep, FlushStep,
       SurvivorsStep, SaveReadStep, SaveWriteStep DEF RunStep
  <2>2. CASE FeedChanges \/ ApiCrash \/ ApiRestart
    BY <2>2, OutsideSteps
  <2>3. CASE UNCHANGED vars
    BY <2>3 DEF vars, IInv, TypeOK, StagedInv, RunBacked, Backed, BatchHeld, Batch
  <2> QED BY <2>1, <2>2, <2>3 DEF Next
<1> QED BY <1>1, InitInv, PTL DEF Spec

(***************************************************************************)
(* The types of the pipeline's state, for every feed, set of runs and      *)
(* bound on faults: only a run that holds a fetched batch is in the sink.  *)
(***************************************************************************)
THEOREM TypeCorrect == Spec => []TypeOK
<1>1. IInv => TypeOK
  BY DEF IInv
<1> QED BY <1>1, StagedInvariant, PTL

(***************************************************************************)
(* "The cursor never advances past data that did not land" (collector.py): *)
(* however many runs of a source overlap, collide in store_records, save   *)
(* stale cursors, fail or die, and whatever the feed shows, every item     *)
(* that a fetch of the version of the persisted cursor returns has a row.  *)
(***************************************************************************)
THEOREM CursorStaysBacked == Spec => []CursorIsBacked
<1>1. IInv => CursorIsBacked
  BY DEF IInv, StagedInv, Backed, CursorIsBacked
<1> QED BY <1>1, StagedInvariant, PTL

-----------------------------------------------------------------------------
(* IIICollection                                                           *)

DispatchPCs == {"invoke", "running", "unsent", "unknown", "returned", "flush"}

Callbacks == {<<s, c>> : s \in Sequences123, c \in Summaries}

\* What a handler's own input is at each control point.
LocalsOK ==
    \A h \in Calls :
        /\ pc[h] = "idle" => want[h] = NoBody
        /\ pc[h] = "insert" => want[h] \in Bodies
        /\ pc[h] = "flush" => want[h] \in {"unsent", "unknown", "returned"}
        /\ pc[h] = "observe" => want[h] \in Callbacks

\* Whoever works on the attempt found the command committed, and III has it only then.
CommandFirst ==
    /\ sent \/ row.requested => command # NoBody
    /\ stage > 0 => sent
    /\ command # NoBody => "admin_requested" \in events
    /\ \A h \in Calls :
          /\ pc[h] \in DispatchPCs \cup {"claim", "cancel", "observe"} => command # NoBody
          /\ pc[h] \in {"claim", "invoke", "running"} => want[h] \in {NoBody, command}

\* A handler whose claim the lease has to cover.
Holds(h) == NothingStarted(h) \/ pc[h] = "running"

\* As long as none has outstayed, there is one of them, and the lease lasts longer than its
\* trigger may.
ClaimIsTimed ==
    ~late =>
        /\ \A h \in Calls : NothingStarted(h) => lease = Lease
        /\ \A h \in Calls : pc[h] = "running" => lease > timer[h]
        /\ \A g, h \in Calls : Holds(g) /\ Holds(h) => g = h

\* A callback that was checked against the ledger still finds its predecessor there.
PredecessorStays ==
    \A h \in Calls : pc[h] = "observe" =>
        (want[h][1] > 1 => observed[want[h][1] - 1] # NoSummary)

\* A cancellation is never taken back, so what a copy says of it stays true.
RequestStands ==
    /\ row.state = "cancel_requested" => row.requested
    /\ \A h \in Calls : held[h].requested => row.requested

-----------------------------------------------------------------------------
(* Data                                                                    *)

(* The names of the three stages differ from each other and from the other *)
(* events and states.                                                      *)
LEMMA StageNames ==
    ASSUME NEW s \in Sequences123
    PROVE  /\ Stage[s] \in States
           /\ Stage[s] \notin {"admin_requested", "cancel_requested", "cancelled", "dispatching"}
           /\ \A t \in Sequences123 : Stage[t] = Stage[s] => t = s
  <1>1. CASE s = 1
    BY <1>1 DEF Stage, Sequences123, States
  <1>2. CASE s = 2
    BY <1>2 DEF Stage, Sequences123, States
  <1>3. CASE s = 3
    BY <1>3 DEF Stage, Sequences123, States
  <1> QED BY <1>1, <1>2, <1>3 DEF Sequences123

(* The literals of the state and the updates of a row are rows.            *)
LEMMA RowUpdates ==
    ASSUME NEW r \in Row, NEW s \in States
    PROVE  /\ [r EXCEPT !.state = s] \in Row
           /\ [r EXCEPT !.requested = TRUE] \in Row
           /\ [r EXCEPT !.requested = TRUE, !.cancelled = TRUE, !.state = "cancelled"] \in Row
  BY DEF Row, States

LEMMA StateNames ==
    /\ {"pending", "dispatching", "submitted_to_iii", "bridge_unavailable",
        "cancelled", "cancel_requested"} \subseteq States
    /\ PendingRow \in Row
  BY DEF States, PendingRow, Row

LEMMA InputKinds ==
    Bodies \cup {NoBody} \cup {"unsent", "unknown", "returned"} \cup Callbacks \subseteq Inputs
  BY DEF Inputs, Callbacks

(* The lease outlives the trigger by a tick.                               *)
LEMMA LeaseLength == Lease \in Nat /\ Lease > TriggerTimeout /\ Lease > 0
  BY IIIAssumption DEF Lease

(* The state _finish_claim assigns is one of the states; it is             *)
(* "cancel_requested" only for a copy that carries the request, and        *)
(* never a new "cancelled".                                                *)
LEMMA FinishedState ==
    ASSUME NEW copy \in Row, NEW outcome \in {"unsent", "unknown", "returned"}
    PROVE  /\ Finished(copy, outcome) \in States
           /\ Finished(copy, outcome) # copy.state =>
                 /\ Finished(copy, outcome) # "cancelled"
                 /\ Finished(copy, outcome) = "cancel_requested" => copy.requested
  <1>1. StateAfter[outcome] \in {"pending", "bridge_unavailable", "submitted_to_iii"}
    BY DEF StateAfter
  <1> QED BY <1>1, StateNames DEF Finished, Row

-----------------------------------------------------------------------------
(* Types                                                                   *)

TypeInv == IIITypeOK /\ LocalsOK

LEMMA AnswerType ==
    ASSUME TypeInv, NEW h \in Calls, Answer(h)
    PROVE  /\ pc' \in [Calls -> PCs]
           /\ want' \in [Calls -> Inputs]
           /\ held' \in [Calls -> Row]
           /\ LocalsOK'
  BY StateNames, InputKinds DEF TypeInv, IIITypeOK, LocalsOK, Answer, PCs

LEMMA TypeStep == TypeInv /\ [IIINext]_iiiVars => TypeInv'
  <1> SUFFICES ASSUME TypeInv, [IIINext]_iiiVars PROVE TypeInv'
    OBVIOUS
  <1> USE DEF TypeInv, local
  <1>0. 0 \in 0 .. Lease /\ Lease \in 0 .. Lease
    BY LeaseLength
  <1>1. ASSUME NEW h \in Calls, NEW b \in Bodies, Submit(h, b), UNCHANGED local PROVE TypeInv'
    <2>1. CASE command = NoBody
      BY <1>1, <2>1, InputKinds DEF Submit, IIITypeOK, LocalsOK, Goto, PCs, ledger, outbox, iii
    <2>2. CASE command # NoBody /\ command = b
      BY <1>1, <2>2, InputKinds DEF Submit, SubmitExisting, IIITypeOK, LocalsOK, Goto, PCs,
                        ledger, outbox, iii
    <2>3. CASE command # NoBody /\ command # b
      BY <1>1, <2>3, AnswerType DEF Submit, SubmitExisting, IIITypeOK, ledger, outbox, iii
    <2> QED BY <2>1, <2>2, <2>3
  <1>2. ASSUME NEW h \in Calls, SubmitInsert(h), UNCHANGED local PROVE TypeInv'
    <2>1. CASE command = NoBody
      BY <1>0, <1>2, <2>1, StateNames, InputKinds
         DEF SubmitInsert, IIITypeOK, LocalsOK, Goto, PCs, ledger, outbox, iii
    <2>2. CASE command # NoBody /\ command = want[h]
      BY <1>2, <2>2, InputKinds DEF SubmitInsert, SubmitExisting, IIITypeOK, LocalsOK, Goto, PCs,
                        ledger, outbox, iii
    <2>3. CASE command # NoBody /\ command # want[h]
      BY <1>2, <2>3, AnswerType DEF SubmitInsert, SubmitExisting, IIITypeOK, ledger, outbox, iii
    <2> QED BY <2>1, <2>2, <2>3
  <1>3. ASSUME NEW h \in Calls,
               \/ (Resume(h) \/ InvokeUnsent(h)) /\ UNCHANGED local
               \/ InvokeStart(h) \/ InvokeEnd(h)
        PROVE  TypeInv'
    <2>1. timer' \in [Calls -> 0 .. TriggerTimeout]
      BY <1>3, IIIAssumption DEF InvokeStart, InvokeEnd, IIITypeOK
    <2>2. /\ pc' \in [Calls -> PCs] /\ LocalsOK'
          /\ UNCHANGED <<ledger, outbox, claims, stage, orphan, late, want, held>>
          /\ sent' \in BOOLEAN
      BY <1>3 DEF Resume, InvokeUnsent, InvokeStart, InvokeEnd, IIITypeOK, LocalsOK, Goto, PCs, iii
    <2> QED BY <2>1, <2>2 DEF IIITypeOK, ledger, outbox
  <1>4. ASSUME NEW h \in Calls, Claim(h), UNCHANGED local PROVE TypeInv'
    <2>1. CASE Claimable
      <3>1. row' \in Row
        <4>1. row \in Row /\ "dispatching" \in States
          BY StateNames DEF IIITypeOK
        <4>2. row' = [row EXCEPT !.state = "dispatching"]
          BY <1>4, <2>1 DEF Claim
        <4> QED BY <4>1, <4>2, RowUpdates, Zenon
      <3>2. lease' \in 0 .. Lease /\ claims' \in 0 .. MaxClaims
        BY <1>0, <1>4, <2>1, IIIAssumption DEF Claim, IIITypeOK
      <3>3. pc' \in [Calls -> PCs] /\ LocalsOK' /\ UNCHANGED <<ledger, iii, want, held>>
        BY <1>4, <2>1 DEF Claim, IIITypeOK, LocalsOK, Goto, PCs
      <3> QED BY <1>4, <3>1, <3>2, <3>3 DEF IIITypeOK, ledger, iii
    <2>2. CASE ~Claimable
      BY <1>4, <2>2, AnswerType DEF Claim, IIITypeOK, ledger, outbox, iii
    <2> QED BY <2>1, <2>2
  <1>5. ASSUME NEW h \in Calls, FinishRefresh(h), UNCHANGED local PROVE TypeInv'
    BY <1>5, InputKinds DEF FinishRefresh, Copy, IIITypeOK, LocalsOK, Goto, PCs, ledger, outbox, iii
  <1>6. ASSUME NEW h \in Calls, FinishFlush(h), UNCHANGED local PROVE TypeInv'
    <2>1. Finished(held[h], want[h]) \in States
      BY <1>6, FinishedState DEF FinishFlush, IIITypeOK, LocalsOK
    <2>2. row' \in Row
      <3>1. row' = [row EXCEPT !.state = IF Finished(held[h], want[h]) = held[h].state
                                         THEN @ ELSE Finished(held[h], want[h])]
        BY <1>6 DEF FinishFlush
      <3> HIDE DEF Finished
      <3> QED BY <2>1, <3>1 DEF IIITypeOK, Row
    <2>3. lease' \in 0 .. Lease
      BY <1>0, <1>6 DEF FinishFlush, IIITypeOK
    <2>4. /\ pc' \in [Calls -> PCs] /\ want' \in [Calls -> Inputs] /\ held' \in [Calls -> Row]
          /\ LocalsOK' /\ UNCHANGED <<ledger, claims, iii>>
      BY <1>6, AnswerType DEF FinishFlush
    <2> QED BY <1>6, <2>2, <2>3, <2>4 DEF IIITypeOK, ledger, iii
  <1>7. ASSUME NEW h \in Calls, CancelRead(h), UNCHANGED local PROVE TypeInv'
    BY <1>7 DEF CancelRead, Copy, IIITypeOK, LocalsOK, Goto, PCs, ledger, outbox, iii
  <1>8. ASSUME NEW h \in Calls, CancelCommit(h), UNCHANGED local PROVE TypeInv'
    <2>1. row' \in Row
      BY <1>8, RowUpdates, StateNames DEF CancelCommit, IIITypeOK
    <2>2. /\ pc' \in [Calls -> PCs] /\ want' \in [Calls -> Inputs] /\ held' \in [Calls -> Row]
          /\ LocalsOK' /\ UNCHANGED <<command, lease, observed, claims, iii>>
          /\ events' \in {events, events \cup {"cancel_requested"}}
      BY <1>8, AnswerType DEF CancelCommit
    <2> QED BY <1>8, <2>1, <2>2 DEF IIITypeOK, iii
  <1>9. ASSUME NEW h \in Calls, NEW s \in Sequences123, NEW c \in Summaries,
               LifecycleRead(h, s, c), UNCHANGED local
        PROVE  TypeInv'
    <2>1. <<s, c>> \in Callbacks
      BY DEF Callbacks
    <2> QED BY <1>9, <2>1, InputKinds
      DEF LifecycleRead, Copy, IIITypeOK, LocalsOK, Goto, PCs, ledger, outbox, iii
  <1>10. ASSUME NEW h \in Calls, LifecycleCommit(h), UNCHANGED local PROVE TypeInv'
    <2>1. PICK s \in Sequences123, c \in Summaries : want[h] = <<s, c>>
      BY <1>10 DEF LifecycleCommit, LocalsOK, Callbacks
    <2>2. row' \in Row
      <3>1. row \in Row /\ Stage[s] \in States /\ want[h][1] = s
        BY <2>1, StageNames DEF IIITypeOK
      <3>2. row' = row \/ row' = [row EXCEPT !.state = Stage[s]]
        BY <1>10, <3>1 DEF LifecycleCommit
      <3> QED BY <3>1, <3>2, RowUpdates, Zenon
    <2> QED BY <1>10, <2>1, <2>2, AnswerType DEF LifecycleCommit, IIITypeOK, iii
  <1>11. ASSUME NEW h \in Calls, Crash(h) PROVE TypeInv'
    <2>1. 0 \in 0 .. TriggerTimeout
      BY IIIAssumption
    <2>2. orphan' \in BOOLEAN
      BY <1>11 DEF Crash, IIITypeOK
    <2> QED BY <1>11, <2>1, <2>2, AnswerType DEF Crash, IIITypeOK, ledger, outbox, iii
  <1>12. CASE OrphanEnds \/ UNCHANGED iiiVars
    BY <1>12 DEF OrphanEnds, iiiVars, IIITypeOK, LocalsOK, ledger, outbox, iii
  <1>13. CASE BridgeAdvances /\ UNCHANGED local
    <2>1. stage' \in 0 .. 3
      BY <1>13 DEF BridgeAdvances, IIITypeOK
    <2> QED BY <1>13, <2>1 DEF BridgeAdvances, IIITypeOK, LocalsOK, ledger, outbox
  <1>14. CASE Tick
    <2>1. lease' \in 0 .. Lease
      BY <1>14, LeaseLength DEF Tick, IIITypeOK
    <2>2. timer' \in [Calls -> 0 .. TriggerTimeout]
      BY <1>14, IIIAssumption DEF Tick, IIITypeOK
    <2>3. late' \in BOOLEAN
      BY <1>14 DEF Tick, IIITypeOK
    <2> QED BY <1>14, <2>1, <2>2, <2>3 DEF Tick, IIITypeOK, LocalsOK, ledger, iii
  <1> QED BY <1>1, <1>2, <1>3, <1>4, <1>5, <1>6, <1>7, <1>8, <1>9, <1>10, <1>11, <1>12,
              <1>13, <1>14 DEF IIINext, HandlerStep

LEMMA TypeInvHolds == IIISpec => []TypeInv
  <1>1. IIIInit => TypeInv
    <2> SUFFICES ASSUME IIIInit PROVE TypeInv
      OBVIOUS
    <2>1. /\ row \in Row
          /\ held \in [Calls -> Row]
          /\ want \in [Calls -> Inputs]
          /\ pc \in [Calls -> PCs]
      BY StateNames, InputKinds DEF IIIInit, PCs
    <2>2. /\ claims \in 0 .. MaxClaims /\ stage \in 0 .. 3
          /\ lease \in 0 .. Lease /\ timer \in [Calls -> 0 .. TriggerTimeout]
      BY IIIAssumption, LeaseLength DEF IIIInit
    <2>3. /\ observed \in [Sequences123 -> Summaries \cup {NoSummary}]
          /\ command \in Bodies \cup {NoBody}
      BY DEF IIIInit
    <2>4. LocalsOK
      BY DEF IIIInit, LocalsOK
    <2> QED BY <2>1, <2>2, <2>3, <2>4 DEF IIIInit, TypeInv, IIITypeOK
  <1> QED BY <1>1, TypeStep, PTL DEF IIISpec

(* Every reachable state of the attempt and its handlers is well typed,    *)
(* for any number of handlers, payloads and summaries.                     *)
THEOREM IIITypeCorrect == IIISpec => []IIITypeOK
  <1>1. TypeInv => IIITypeOK
    BY DEF TypeInv
  <1> QED BY <1>1, TypeInvHolds, PTL

-----------------------------------------------------------------------------
(* The claim and the command                                               *)

LEMMA WorkStep == TypeInv /\ CommandFirst /\ [IIINext]_iiiVars => CommandFirst'
  <1> SUFFICES ASSUME TypeInv, CommandFirst, [IIINext]_iiiVars PROVE CommandFirst'
    OBVIOUS
  <1> USE DEF TypeInv, CommandFirst, DispatchPCs
  <1>1. ASSUME NEW h \in Calls, NEW b \in Bodies, Submit(h, b) PROVE CommandFirst'
    BY <1>1, IIIAssumption DEF Submit, SubmitExisting, Answer, Goto, IIITypeOK, ledger, outbox, iii
  <1>2. ASSUME NEW h \in Calls, SubmitInsert(h) PROVE CommandFirst'
    <2>1. CASE command = NoBody
      BY <1>2, <2>1, IIIAssumption DEF SubmitInsert, Goto, IIITypeOK, LocalsOK, PendingRow, iii
    <2>2. CASE command # NoBody
      BY <1>2, <2>2 DEF SubmitInsert, SubmitExisting, Answer, Goto, IIITypeOK, ledger, outbox, iii
    <2> QED BY <2>1, <2>2
  <1>3. ASSUME NEW h \in Calls, Resume(h) PROVE CommandFirst'
    BY <1>3 DEF Resume, Goto, IIITypeOK, LocalsOK, ledger, outbox, iii
  <1>4. ASSUME NEW h \in Calls, InvokeUnsent(h) \/ InvokeStart(h) \/ InvokeEnd(h) \/ FinishRefresh(h)
        PROVE  CommandFirst'
    BY <1>4 DEF InvokeUnsent, InvokeStart, InvokeEnd, FinishRefresh, Goto, IIITypeOK,
                ledger, outbox, iii
  <1>5. ASSUME NEW h \in Calls, Claim(h) PROVE CommandFirst'
    <2>1. row'.requested = row.requested
      BY <1>5 DEF Claim, IIITypeOK, Row, outbox
    <2> QED BY <1>5, <2>1 DEF Claim, Answer, Goto, IIITypeOK, ledger, iii
  <1>6. ASSUME NEW h \in Calls, FinishFlush(h) PROVE CommandFirst'
    <2>1. row'.requested = row.requested
      BY <1>6 DEF FinishFlush, IIITypeOK, Row
    <2> QED BY <1>6, <2>1 DEF FinishFlush, Answer, IIITypeOK, ledger, iii
  <1>7. ASSUME NEW h \in Calls, CancelRead(h) PROVE CommandFirst'
    BY <1>7 DEF CancelRead, Goto, IIITypeOK, ledger, outbox, iii
  <1>8. ASSUME NEW h \in Calls, CancelCommit(h) PROVE CommandFirst'
    BY <1>8 DEF CancelCommit, Answer, IIITypeOK, iii
  <1>9. ASSUME NEW h \in Calls, NEW s \in Sequences123, NEW c \in Summaries,
               LifecycleRead(h, s, c)
        PROVE  CommandFirst'
    BY <1>9 DEF LifecycleRead, Goto, IIITypeOK, Sequences123, ledger, outbox, iii
  <1>10. ASSUME NEW h \in Calls, LifecycleCommit(h) PROVE CommandFirst'
    BY <1>10 DEF LifecycleCommit, Answer, IIITypeOK, iii
  <1>11. ASSUME NEW h \in Calls, Crash(h) PROVE CommandFirst'
    BY <1>11 DEF Crash, Answer, IIITypeOK, ledger, outbox, iii
  <1>12. CASE Tick \/ OrphanEnds \/ BridgeAdvances \/ UNCHANGED iiiVars
    BY <1>12 DEF Tick, OrphanEnds, BridgeAdvances, iiiVars, ledger, outbox, iii
  <1> QED BY <1>1, <1>2, <1>3, <1>4, <1>5, <1>6, <1>7, <1>8, <1>9, <1>10, <1>11, <1>12
          DEF IIINext, HandlerStep

LEMMA CommandFirstHolds == IIISpec => []CommandFirst
  <1>1. IIIInit => CommandFirst
    BY DEF IIIInit, CommandFirst, DispatchPCs, PendingRow
  <1> QED BY <1>1, WorkStep, TypeInvHolds, PTL DEF IIISpec

(* A step that neither claims, spawns nor lets time pass may end a claim,  *)
(* and frees the lease only when nobody is left whom it has to cover.      *)
LEMMA TimedSteps ==
    ASSUME TypeInv, CommandFirst, ClaimIsTimed, late' = late,
           \A h \in Calls : NothingStarted(h)' => NothingStarted(h),
           \A h \in Calls : (pc[h] = "running")' => pc[h] = "running" /\ timer'[h] = timer[h],
           lease' = lease \/ \A h \in Calls : ~Holds(h)'
    PROVE  ClaimIsTimed'
  <1> SUFFICES ASSUME ~late' PROVE /\ \A h \in Calls : NothingStarted(h)' => lease' = Lease
                                   /\ \A h \in Calls : pc'[h] = "running" => lease' > timer'[h]
                                   /\ \A g, h \in Calls : Holds(g)' /\ Holds(h)' => g = h
    BY DEF ClaimIsTimed
  <1>1. \A h \in Calls : Holds(h)' => Holds(h)
    BY DEF Holds
  <1>2. \A g, h \in Calls : Holds(g)' /\ Holds(h)' => g = h
    BY <1>1 DEF ClaimIsTimed
  <1>3. CASE lease' = lease
    BY <1>2, <1>3 DEF ClaimIsTimed
  <1>4. CASE \A h \in Calls : ~Holds(h)'
    BY <1>2, <1>4 DEF Holds
  <1> QED BY <1>3, <1>4

LEMMA TimedStep == TypeInv /\ CommandFirst /\ ClaimIsTimed /\ [IIINext]_iiiVars => ClaimIsTimed'
  <1> SUFFICES ASSUME TypeInv, CommandFirst, ClaimIsTimed, [IIINext]_iiiVars PROVE ClaimIsTimed'
    OBVIOUS
  <1>0. /\ pc \in [Calls -> PCs] /\ want \in [Calls -> Inputs]
        /\ timer \in [Calls -> 0 .. TriggerTimeout] /\ lease \in 0 .. Lease
    BY DEF TypeInv, IIITypeOK
  \* Who answers holds nothing any more, and the others are as they were.
  <1>a. ASSUME NEW h \in Calls, Answer(h), UNCHANGED timer \/ timer' = [timer EXCEPT ![h] = 0]
        PROVE  \A g \in Calls :
                  /\ NothingStarted(g)' => g # h /\ NothingStarted(g)
                  /\ pc'[g] = "running" => g # h /\ pc[g] = "running" /\ timer'[g] = timer[g]
    BY <1>0, <1>a DEF Answer, NothingStarted
  \* So it is for a handler that goes on to another point without a claim.
  <1>g. ASSUME NEW h \in Calls, NEW label \in {"insert", "claim", "cancel", "observe", "unknown", "returned"},
               Goto(h, label), \A g \in Calls \ {h} : want'[g] = want[g],
               UNCHANGED timer \/ timer' = [timer EXCEPT ![h] = 0]
        PROVE  \A g \in Calls :
                  /\ NothingStarted(g)' => g # h /\ NothingStarted(g)
                  /\ pc'[g] = "running" => g # h /\ pc[g] = "running" /\ timer'[g] = timer[g]
    BY <1>0, <1>g DEF Goto, NothingStarted
  <1>1. ASSUME NEW h \in Calls, NEW b \in Bodies, Submit(h, b), UNCHANGED local PROVE ClaimIsTimed'
    <2>1. Answer(h) \/ \E label \in {"insert", "claim"} : Goto(h, label)
      BY <1>1 DEF Submit, SubmitExisting
    <2>2. \A g \in Calls \ {h} : want'[g] = want[g]
      BY <1>0, <1>1 DEF Submit, SubmitExisting, Answer
    <2>3. lease' = lease
      BY <1>1 DEF Submit, SubmitExisting, outbox
    <2> QED BY <1>1, <1>a, <1>g, <2>1, <2>2, <2>3, TimedSteps DEF local
  <1>2. ASSUME NEW h \in Calls, SubmitInsert(h), UNCHANGED local PROVE ClaimIsTimed'
    <2>1. Answer(h) \/ Goto(h, "claim")
      BY <1>2 DEF SubmitInsert, SubmitExisting
    <2>2. \A g \in Calls \ {h} : want'[g] = want[g]
      BY <1>0, <1>2 DEF SubmitInsert, SubmitExisting, Answer
    <2>3. lease' = lease \/ \A g \in Calls : ~Holds(g)
      BY <1>2 DEF SubmitInsert, SubmitExisting, outbox, CommandFirst, DispatchPCs, Holds, NothingStarted
    <2>4. \A g \in Calls : Holds(g)' => Holds(g)
      BY <1>2, <1>a, <1>g, <2>1, <2>2 DEF local, Holds
    <2> QED BY <1>2, <1>a, <1>g, <2>1, <2>2, <2>3, <2>4, TimedSteps DEF local
  <1>3. ASSUME NEW h \in Calls, Resume(h) \/ CancelRead(h), UNCHANGED local PROVE ClaimIsTimed'
    BY <1>3, <1>g, TimedSteps DEF Resume, CancelRead, local, outbox
  <1>4. ASSUME NEW h \in Calls, Claim(h), UNCHANGED local PROVE ClaimIsTimed'
    <2>1. CASE ~Claimable
      BY <1>4, <1>a, <2>1, TimedSteps DEF Claim, local, outbox
    <2>2. CASE Claimable
      <3> SUFFICES ASSUME ~late PROVE ClaimIsTimed'
        BY <1>4 DEF local, ClaimIsTimed
      <3>1. lease = 0 /\ lease' = Lease /\ pc' = [pc EXCEPT ![h] = "invoke"] /\ want' = want
        BY <1>4, <2>2 DEF Claim, Claimable, Goto
      <3>2. \A g \in Calls : ~Holds(g)
        BY <1>0, <3>1, LeaseLength DEF ClaimIsTimed, Holds
      <3>3. \A g \in Calls : (NothingStarted(g)' => g = h) /\ pc'[g] # "running"
        BY <1>0, <3>1, <3>2 DEF Holds, NothingStarted
      <3> QED BY <3>1, <3>3 DEF ClaimIsTimed, Holds
    <2> QED BY <2>1, <2>2
  <1>5. ASSUME NEW h \in Calls, InvokeUnsent(h), UNCHANGED local PROVE ClaimIsTimed'
    <2>1. \A g \in Calls : /\ NothingStarted(g)' => NothingStarted(g)
                           /\ pc'[g] = "running" => pc[g] = "running"
      BY <1>0, <1>5 DEF InvokeUnsent, Goto, NothingStarted
    <2> QED BY <1>5, <2>1, TimedSteps DEF InvokeUnsent, local, outbox
  <1>6. ASSUME NEW h \in Calls, InvokeStart(h) PROVE ClaimIsTimed'
    <2> SUFFICES ASSUME ~late PROVE ClaimIsTimed'
      BY <1>6 DEF InvokeStart, ClaimIsTimed
    <2>1. /\ NothingStarted(h) /\ pc' = [pc EXCEPT ![h] = "running"] /\ want' = want /\ lease' = lease
          /\ timer' = [timer EXCEPT ![h] = TriggerTimeout]
      BY <1>6 DEF InvokeStart, Goto, NothingStarted, outbox
    <2>2. lease = Lease /\ \A g \in Calls : Holds(g) => g = h
      BY <2>1 DEF ClaimIsTimed, Holds
    <2>3. \A g \in Calls : Holds(g)' => g = h
      BY <1>0, <2>1, <2>2 DEF Holds, NothingStarted
    <2>4. ~NothingStarted(h)' /\ timer'[h] = TriggerTimeout
      BY <1>0, <2>1 DEF NothingStarted
    <2> QED BY <2>1, <2>2, <2>3, <2>4, LeaseLength DEF ClaimIsTimed, Holds
  <1>7. ASSUME NEW h \in Calls, InvokeEnd(h) PROVE ClaimIsTimed'
    BY <1>7, <1>g, TimedSteps DEF InvokeEnd, outbox
  <1>8. ASSUME NEW h \in Calls, FinishRefresh(h), UNCHANGED local PROVE ClaimIsTimed'
    <2>1. \A g \in Calls : /\ NothingStarted(g)' => NothingStarted(g)
                           /\ pc'[g] = "running" => pc[g] = "running"
      BY <1>0, <1>8 DEF FinishRefresh, Goto, NothingStarted
    <2> QED BY <1>8, <2>1, TimedSteps DEF FinishRefresh, local, outbox
  <1>9. ASSUME NEW h \in Calls, FinishFlush(h), UNCHANGED local PROVE ClaimIsTimed'
    <2> SUFFICES ASSUME ~late PROVE ClaimIsTimed'
      BY <1>9 DEF local, ClaimIsTimed
    <2>1. Answer(h) /\ timer' = timer /\ late' = late
      BY <1>9 DEF FinishFlush, local
    <2>2. lease' = lease \/ NothingStarted(h)
      BY <1>9 DEF FinishFlush, NothingStarted
    <2>3. NothingStarted(h) => \A g \in Calls : ~Holds(g)'
      BY <1>a, <2>1 DEF ClaimIsTimed, Holds
    <2> QED BY <1>a, <2>1, <2>2, <2>3, TimedSteps
  <1>10. ASSUME NEW h \in Calls, CancelCommit(h) \/ LifecycleCommit(h), UNCHANGED local
         PROVE  ClaimIsTimed'
    BY <1>10, <1>a, TimedSteps DEF CancelCommit, LifecycleCommit, local
  <1>11. ASSUME NEW h \in Calls, NEW s \in Sequences123, NEW c \in Summaries,
                LifecycleRead(h, s, c), UNCHANGED local
         PROVE  ClaimIsTimed'
    <2>1. \A g \in Calls \ {h} : want'[g] = want[g]
      BY <1>0, <1>11 DEF LifecycleRead
    <2> QED BY <1>11, <1>g, <2>1, TimedSteps DEF LifecycleRead, local, outbox
  <1>12. ASSUME NEW h \in Calls, Crash(h) PROVE ClaimIsTimed'
    BY <1>12, <1>a, TimedSteps DEF Crash, outbox
  <1>13. CASE Tick
    <2> SUFFICES ASSUME ~late' PROVE ClaimIsTimed'
      BY DEF ClaimIsTimed
    <2>1. ~late /\ \A h \in Calls : ~Outstays(h)
      BY <1>13 DEF Tick
    <2>2. pc' = pc /\ want' = want /\ \A h \in Calls : ~NothingStarted(h)
      BY <1>13, <2>1 DEF Tick, Outstays
    <2>3. \A h \in Calls : pc[h] = "running" => lease' > timer'[h]
      <3> SUFFICES ASSUME NEW h \in Calls, pc[h] = "running" PROVE lease' > timer'[h]
        OBVIOUS
      <3>1. timer[h] \in Nat \ {0} /\ lease \in Nat /\ lease > timer[h]
        BY <1>0, <2>1, IIIAssumption, LeaseLength DEF Outstays, ClaimIsTimed
      <3>2. lease' = lease - 1 /\ timer'[h] = timer[h] - 1
        BY <1>13, <3>1 DEF Tick
      <3> QED BY <3>1, <3>2
    <2> QED BY <2>1, <2>2, <2>3 DEF ClaimIsTimed, Holds, NothingStarted
  <1>14. CASE OrphanEnds \/ (BridgeAdvances /\ UNCHANGED local) \/ UNCHANGED iiiVars
    <2>1. UNCHANGED <<pc, want, timer, lease, late>>
      BY <1>14 DEF OrphanEnds, BridgeAdvances, iiiVars, local, outbox
    <2> QED BY <2>1 DEF ClaimIsTimed, Holds, NothingStarted
  <1> QED BY <1>1, <1>2, <1>3, <1>4, <1>5, <1>6, <1>7, <1>8, <1>9, <1>10, <1>11, <1>12,
              <1>13, <1>14 DEF IIINext, HandlerStep

LEMMA ClaimIsTimedHolds == IIISpec => []ClaimIsTimed
  <1>1. IIIInit => ClaimIsTimed
    BY DEF IIIInit, ClaimIsTimed, Holds, NothingStarted
  <1> QED BY <1>1, TimedStep, TypeInvHolds, CommandFirstHolds, PTL DEF IIISpec

(* For any lease and trigger timeout and any number of handlers: two       *)
(* handlers trigger one attempt at once only after some handler has        *)
(* outstayed what the lease reckons with, wherever handlers die and        *)
(* whatever their triggers do afterwards.  The conditional UPDATE of       *)
(* _claim_outbound lets nobody in before the lease is over, and the lease  *)
(* outlives the trigger of a handler that kills it at its timeout.         *)
THEOREM TriggersExclude == IIISpec => []OneTriggerAtOnce
  <1>1. ClaimIsTimed => OneTriggerAtOnce
    BY DEF ClaimIsTimed, Holds, NothingStarted, OneTriggerAtOnce, Triggering
  <1> QED BY <1>1, ClaimIsTimedHolds, PTL

(* Whoever dispatches the attempt has its own payload committed as the     *)
(* command and announced in the log, for any number of racing submissions. *)
THEOREM DispatchHasIntent == IIISpec => []IntentIsCommitted
  <1>1. CommandFirst => IntentIsCommitted
    BY DEF CommandFirst, IntentIsCommitted, DispatchPCs
  <1> QED BY <1>1, CommandFirstHolds, PTL

-----------------------------------------------------------------------------
(* The ledger and the cancellation                                         *)

LedgerInv == LogMatchesLedger /\ PredecessorStays /\ RequestStands

(* A transaction that stores the observation of stage s keeps log, ledger  *)
(* and the predecessors that others rely on.                               *)
LEMMA ObserveKeepsLedger ==
    ASSUME TypeInv, LedgerInv, NEW h \in Calls, LifecycleCommit(h)
    PROVE  LedgerInv' /\ \A s \in Sequences123 : observed[s] # NoSummary => observed'[s] = observed[s]
  <1>1. PICK s \in Sequences123, c \in Summaries : want[h] = <<s, c>>
    BY DEF LifecycleCommit, TypeInv, LocalsOK, Callbacks
  <1>2. want[h][1] = s /\ want[h][2] = c /\ c # NoSummary /\ s \in 1 .. 3
    BY <1>1, IIIAssumption DEF Sequences123
  <1> HIDE DEF Stage
  <1>3. CASE Repeated(Stage[s])
    BY <1>2, <1>3, StageNames
       DEF LifecycleCommit, Answer, TypeInv, IIITypeOK, LedgerInv, LogMatchesLedger,
           PredecessorStays, RequestStands, PendingRow, Repeated
  <1>4. CASE ~Repeated(Stage[s])
    <2>1. observed[s] = NoSummary
      BY <1>4 DEF Repeated, LedgerInv, LogMatchesLedger
    <2>2. observed' = [observed EXCEPT ![s] = c] /\ events' = events \cup {Stage[s]}
      BY <1>2, <1>4 DEF LifecycleCommit
    <2>3. /\ row'.requested = row.requested
          /\ row'.state = "cancel_requested" => row.state = "cancel_requested"
      BY <1>2, <1>4, StageNames DEF LifecycleCommit, TypeInv, IIITypeOK, Row
    <2>4. \A t \in Sequences123 : observed'[t] = IF t = s THEN c ELSE observed[t]
      BY <2>2 DEF TypeInv, IIITypeOK
    <2>5. \A t \in Sequences123 : observed[t] # NoSummary => observed'[t] = observed[t]
      BY <2>1, <2>4
    <2>6. LogMatchesLedger'
      <3>1. \A t \in Sequences123 : (Stage[t] \in events)' <=> observed'[t] # NoSummary
        BY <1>2, <2>2, <2>4, StageNames DEF LedgerInv, LogMatchesLedger
      <3>2. s > 1 => observed[s - 1] # NoSummary
        BY <1>2 DEF LifecycleCommit, LedgerInv, PredecessorStays
      <3>3. \A t \in 2 .. 3 : observed'[t] # NoSummary => observed'[t - 1] # NoSummary
        BY <1>2, <2>4, <3>2 DEF LedgerInv, LogMatchesLedger, Sequences123
      <3>4. ("cancel_requested" \in events)' <=> row'.requested
        BY <2>2, <2>3, StageNames DEF LedgerInv, LogMatchesLedger
      <3> QED BY <3>1, <3>3, <3>4 DEF LogMatchesLedger
    <2>7. PredecessorStays'
      <3> SUFFICES ASSUME NEW g \in Calls, pc'[g] = "observe", want'[g][1] > 1
                   PROVE  observed'[want'[g][1] - 1] # NoSummary
        BY DEF PredecessorStays
      <3>1. g # h /\ pc[g] = "observe" /\ want'[g] = want[g]
        BY DEF LifecycleCommit, Answer, TypeInv, IIITypeOK
      <3>2. want[g][1] \in Sequences123
        BY <3>1 DEF TypeInv, LocalsOK, Callbacks
      <3>3. observed[want[g][1] - 1] # NoSummary /\ want[g][1] - 1 \in Sequences123
        BY <3>1, <3>2 DEF LedgerInv, PredecessorStays, Sequences123
      <3> QED BY <2>5, <3>1, <3>3
    <2>8. RequestStands'
      BY <2>3 DEF LifecycleCommit, Answer, TypeInv, IIITypeOK, LedgerInv, RequestStands, PendingRow
    <2> QED BY <2>5, <2>6, <2>7, <2>8 DEF LedgerInv
  <1> QED BY <1>3, <1>4

(* Every step of every handler keeps log, ledger and cancellation in line. *)
LEMMA LedgerStep == TypeInv /\ CommandFirst /\ LedgerInv /\ [IIINext]_iiiVars => LedgerInv'
  <1> SUFFICES ASSUME TypeInv, CommandFirst, LedgerInv, [IIINext]_iiiVars PROVE LedgerInv'
    OBVIOUS
  <1> USE DEF LedgerInv, LogMatchesLedger, PredecessorStays, RequestStands, PendingRow
  <1>1. ASSUME NEW h \in Calls, NEW b \in Bodies, Submit(h, b) PROVE LedgerInv'
    BY <1>1 DEF Submit, SubmitExisting, Answer, Goto, TypeInv, IIITypeOK, ledger, outbox, iii
  <1>2. ASSUME NEW h \in Calls, SubmitInsert(h) PROVE LedgerInv'
    <2>1. CASE command = NoBody
      <3>1. ~row.requested /\ events' = events \cup {"admin_requested"}
        BY <1>2, <2>1 DEF SubmitInsert, CommandFirst
      <3>2. \A s \in Sequences123 : Stage[s] # "admin_requested"
        BY StageNames
      <3> QED BY <1>2, <2>1, <3>1, <3>2 DEF SubmitInsert, Goto, TypeInv, IIITypeOK, iii
    <2>2. CASE command # NoBody
      BY <1>2, <2>2
         DEF SubmitInsert, SubmitExisting, Answer, Goto, TypeInv, IIITypeOK, ledger, outbox, iii
    <2> QED BY <2>1, <2>2
  <1>3. ASSUME NEW h \in Calls,
               Resume(h) \/ InvokeUnsent(h) \/ InvokeStart(h) \/ InvokeEnd(h)
        PROVE  LedgerInv'
    BY <1>3 DEF Resume, InvokeUnsent, InvokeStart, InvokeEnd, Goto, TypeInv, IIITypeOK,
                ledger, outbox, iii
  <1>4. ASSUME NEW h \in Calls, Claim(h) PROVE LedgerInv'
    <2>1. row'.requested = row.requested
          /\ (row'.state = "cancel_requested" => row.state = "cancel_requested")
      BY <1>4 DEF Claim, TypeInv, IIITypeOK, Row, outbox
    <2> QED BY <1>4, <2>1 DEF Claim, Answer, Goto, TypeInv, IIITypeOK, ledger, iii
  <1>5. ASSUME NEW h \in Calls, FinishRefresh(h) \/ CancelRead(h) PROVE LedgerInv'
    BY <1>5 DEF FinishRefresh, CancelRead, Copy, Goto, TypeInv, IIITypeOK, ledger, outbox, iii
  <1>6. ASSUME NEW h \in Calls, FinishFlush(h) PROVE LedgerInv'
    <2>1. held[h] \in Row /\ want[h] \in {"unsent", "unknown", "returned"}
      BY <1>6 DEF FinishFlush, TypeInv, IIITypeOK, LocalsOK
    <2>2. row'.requested = row.requested
          /\ (row'.state = "cancel_requested" => row.requested)
      BY <1>6, <2>1, FinishedState DEF FinishFlush, TypeInv, IIITypeOK, Row
    <2> QED BY <1>6, <2>2 DEF FinishFlush, Answer, TypeInv, IIITypeOK, ledger, iii
  <1>7. ASSUME NEW h \in Calls, CancelCommit(h) PROVE LedgerInv'
    <2>1. CASE Repeated("cancel_requested")
      BY <1>7, <2>1 DEF CancelCommit, Answer, Repeated, TypeInv, IIITypeOK, iii
    <2>2. CASE ~Repeated("cancel_requested")
      <3>1. row'.requested /\ events' = events \cup {"cancel_requested"}
        <4>1. /\ \/ row' = [row EXCEPT !.requested = TRUE, !.cancelled = TRUE,
                                        !.state = "cancelled"]
                 \/ row' = [row EXCEPT !.requested = TRUE]
              /\ events' = events \cup {"cancel_requested"}
          BY <1>7, <2>2 DEF CancelCommit
        <4>2. row \in Row
          BY DEF TypeInv, IIITypeOK
        <4> QED BY <4>1, <4>2 DEF Row
      <3>2. \A s \in Sequences123 : Stage[s] # "cancel_requested"
        BY StageNames
      <3> QED BY <1>7, <3>1, <3>2 DEF CancelCommit, Answer, TypeInv, IIITypeOK, iii
    <2> QED BY <2>1, <2>2
  <1>8. ASSUME NEW h \in Calls, NEW s \in Sequences123, NEW c \in Summaries,
               LifecycleRead(h, s, c)
        PROVE  LedgerInv'
    BY <1>8 DEF LifecycleRead, InOrder, Copy, Goto, TypeInv, IIITypeOK, Sequences123,
                ledger, outbox, iii
  <1>9. ASSUME NEW h \in Calls, LifecycleCommit(h) PROVE LedgerInv'
    BY <1>9, ObserveKeepsLedger
  <1>10. ASSUME NEW h \in Calls, Crash(h) PROVE LedgerInv'
    BY <1>10 DEF Crash, Answer, TypeInv, IIITypeOK, ledger, outbox, iii
  <1>11. CASE Tick \/ OrphanEnds \/ BridgeAdvances \/ UNCHANGED iiiVars
    BY <1>11 DEF Tick, OrphanEnds, BridgeAdvances, iiiVars, ledger, outbox, iii
  <1> QED BY <1>1, <1>2, <1>3, <1>4, <1>5, <1>6, <1>7, <1>8, <1>9, <1>10, <1>11
          DEF IIINext, HandlerStep

LEMMA LedgerInvHolds == IIISpec => []LedgerInv
  <1>1. IIIInit => LedgerInv
    <2>1. IIIInit => LogMatchesLedger
      BY DEF IIIInit, LogMatchesLedger, Sequences123, PendingRow
    <2> QED BY <2>1 DEF IIIInit, LedgerInv, PredecessorStays, RequestStands, PendingRow
  <1> QED BY <1>1, LedgerStep, TypeInvHolds, CommandFirstHolds, PTL DEF IIISpec

(* The stages in the run's log are the retained observations, without a    *)
(* gap, and a cancellation is in the log exactly when the row carries it,  *)
(* for any number of handlers and repeated callbacks.                      *)
THEOREM LogIsTheLedger == IIISpec => []LogMatchesLedger
  <1>1. LedgerInv => LogMatchesLedger
    BY DEF LedgerInv
  <1> QED BY <1>1, LedgerInvHolds, PTL

(* ingest_lifecycle never replaces a retained observation: the unique      *)
(* number rolls the overtaken transaction back.                            *)
THEOREM ObservationsStand == IIISpec => ObservationStands
  <1>1. TypeInv /\ LedgerInv /\ [IIINext]_iiiVars =>
          [\A s \in Sequences123 : observed[s] # NoSummary => observed'[s] = observed[s]]_iiiVars
    <2> SUFFICES ASSUME TypeInv, LedgerInv, IIINext
                 PROVE  \A s \in Sequences123 : observed[s] # NoSummary => observed'[s] = observed[s]
      OBVIOUS
    <2>1. CASE \E h \in Calls : LifecycleCommit(h)
      BY <2>1, ObserveKeepsLedger
    <2>2. CASE ~\E h \in Calls : LifecycleCommit(h)
      <3>1. observed' = observed
        BY <2>2 DEF IIINext, HandlerStep, Submit, SubmitInsert, SubmitExisting, Resume, Claim, InvokeUnsent,
                    InvokeStart, InvokeEnd, FinishRefresh, FinishFlush, CancelRead,
                    CancelCommit, LifecycleRead, Crash, Tick, OrphanEnds, BridgeAdvances, ledger
      <3> QED BY <3>1
    <2> QED BY <2>1, <2>2
  <1> QED BY <1>1, TypeInvHolds, LedgerInvHolds, PTL DEF IIISpec, ObservationStands

(* Once the status of a collection answers cancel_requested, no claim,     *)
(* finished trigger, callback or second cancel request makes it certain or *)
(* withdraws it.  A row that carries the request has the event in its log, *)
(* so a second cancellation is rolled back, and no other handler writes    *)
(* "cancelled" or takes the request from the row.                          *)
THEOREM CancellationStaysOpen == IIISpec => OpenCancellationStays
  <1> DEFINE Open == command # NoBody /\ StatusState = "cancel_requested"
  <1>1. TypeInv /\ LedgerInv /\ [IIINext]_iiiVars =>
          [Open => StatusState' = "cancel_requested"]_iiiVars
    <2> SUFFICES ASSUME TypeInv, LedgerInv, IIINext, Open
                 PROVE  StatusState' = "cancel_requested"
      OBVIOUS
    <2>1. row \in Row /\ row.requested /\ row.state # "cancelled" /\ command # NoBody
      BY DEF StatusState, LedgerInv, RequestStands, TypeInv, IIITypeOK
    <2> SUFFICES row'.requested /\ row'.state # "cancelled"
      BY DEF StatusState
    <2>2. ASSUME NEW h \in Calls, Claim(h) PROVE row'.requested /\ row'.state # "cancelled"
      BY <2>1, <2>2 DEF Claim, Row, outbox
    <2>3. ASSUME NEW h \in Calls, FinishFlush(h) PROVE row'.requested /\ row'.state # "cancelled"
      <3>1. held[h] \in Row /\ want[h] \in {"unsent", "unknown", "returned"}
        BY <2>3 DEF FinishFlush, TypeInv, IIITypeOK, LocalsOK
      <3> QED BY <2>1, <2>3, <3>1, FinishedState DEF FinishFlush, Row
    <2>4. ASSUME NEW h \in Calls, CancelCommit(h) PROVE row'.requested /\ row'.state # "cancelled"
      <3>1. Repeated("cancel_requested")
        BY <2>1 DEF Repeated, LedgerInv, LogMatchesLedger
      <3> QED BY <2>1, <2>4, <3>1 DEF CancelCommit
    <2>5. ASSUME NEW h \in Calls, LifecycleCommit(h)
          PROVE  row'.requested /\ row'.state # "cancelled"
      <3>1. PICK s \in Sequences123, c \in Summaries : want[h] = <<s, c>>
        BY <2>5 DEF LifecycleCommit, TypeInv, LocalsOK, Callbacks
      <3>2. Stage[s] # "cancelled" /\ want[h][1] = s
        BY <3>1, StageNames
      <3>3. row' = row \/ row' = [row EXCEPT !.state = Stage[s]]
        BY <2>5, <3>2 DEF LifecycleCommit
      <3> QED BY <2>1, <3>2, <3>3 DEF Row
    <2>6. CASE ~\E h \in Calls : Claim(h) \/ FinishFlush(h) \/ CancelCommit(h) \/ LifecycleCommit(h)
      <3>1. row' = row
        BY <2>1, <2>6 DEF IIINext, HandlerStep, Submit, SubmitInsert, SubmitExisting, Resume, InvokeUnsent,
                    InvokeStart, InvokeEnd, FinishRefresh, CancelRead, LifecycleRead,
                    Crash, Tick, OrphanEnds, BridgeAdvances, outbox
      <3> QED BY <2>1, <3>1
    <2> QED BY <2>2, <2>3, <2>4, <2>5, <2>6
  <1> QED BY <1>1, TypeInvHolds, LedgerInvHolds, PTL DEF IIISpec, OpenCancellationStays
=============================================================================
