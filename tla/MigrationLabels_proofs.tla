------------------------ MODULE MigrationLabels_proofs ------------------------
(***************************************************************************)
(* Theorems about the labels of targets: as long as users do not change    *)
(* the resourceRef of an object, no workload is left with a label that     *)
(* nobody will remove.                                                     *)
(***************************************************************************)
EXTENDS MigrationLifecycle_proofs

-----------------------------------------------------------------------------
(***************************************************************************)
(* Copies.  The cache, the events on their way to it and the job hold      *)
(* copies of an object; with its resourceRef kept, all copies of the       *)
(* object that is stored name its target.                                  *)
(***************************************************************************)
Copies(m) ==
  {smCache[m]} \cup Range(events[m]) \cup {o \in {obj} : pc # "idle" /\ key = m}

CopiesAim ==
  \A m \in Migrations : \A o \in Copies(m) :
     o.uid = sm[m].uid => o.spec.ref = sm[m].spec.ref

LEMMA CopiesAreOlder ==
  ASSUME IInv, NEW m \in Migrations, NEW o \in Copies(m)
  PROVE  o.uid \in Nat /\ sm[m].uid \in Nat /\ o.uid <= sm[m].uid
<1>1. sm[m] \in Migration /\ smCache[m] \in Migration /\ events[m] \in Seq(Migration)
  BY DEF IInv, TypeOK, StoreTypeOK, CacheTypeOK
<1>2. CASE o = smCache[m]
  BY <1>1, <1>2 DEF IInv, CopiesLag, CacheLags, Behind, Migration
<1>3. CASE o \in Range(events[m])
  <2>1. PICK i \in 1..Len(events[m]) : o = events[m][i]
    BY <1>1, <1>3, LenProperties DEF Range
  <2>2. o \in Migration
    BY <1>1, <1>3, RangeOfLoop
  <2>3. Behind(o, sm[m])
    BY <2>1 DEF IInv, CopiesLag, CacheLags
  <2> QED
    BY <1>1, <2>2, <2>3 DEF Behind, Migration
<1>4. CASE o = obj /\ pc # "idle" /\ key = m
  BY <1>1, <1>4 DEF IInv, TypeOK, JobTypeOK, CopiesLag, JobLags, Behind, Migration
<1> QED
  BY <1>2, <1>3, <1>4 DEF Copies

\* A change of the stored object m makes one event with the new object.
LEMMA StoreCopies ==
  ASSUME TypeOK, NEW n \in Migrations, NEW t \in Migration, Store(n, t),
         UNCHANGED smCache, NEW m \in Migrations,
         {o \in {obj'} : pc' # "idle" /\ key' = m}
            \subseteq {o \in {obj} : pc # "idle" /\ key = m} \cup {sm'[m]}
  PROVE  Copies(m)' \subseteq Copies(m) \cup {sm'[m]}
<1>1. events \in [Migrations -> Seq(Migration)] /\ sm \in [Migrations -> Migration]
  BY DEF TypeOK, StoreTypeOK
<1>2. Range(events'[m]) \subseteq Range(events[m]) \cup {sm'[m]}
  <2>1. CASE n = m
    <3>1. events'[m] = Append(events[m], t) /\ sm'[m] = t
      BY <1>1, <2>1 DEF Store
    <3> QED
      BY <1>1, <3>1, RangeOfAppend
  <2>2. CASE n # m
    BY <1>1, <2>2 DEF Store
  <2> QED
    BY <2>1, <2>2
<1> QED
  BY <1>2 DEF Copies

\* An object keeps its uid until it is gone, and is then followed by a younger
\* one; a copy is made of the copies there are or of the object stored.
Moves(m) ==
  /\ sm'[m].uid = sm[m].uid \/ (sm[m].phase = "gone" /\ sm[m].uid < sm'[m].uid)
  /\ Copies(m)' \subseteq Copies(m) \cup {sm'[m]}

LEMMA StoreMoves ==
  ASSUME TypeOK, NEW n \in Migrations, NEW t \in Migration, Store(n, t),
         UNCHANGED smCache, NEW m \in Migrations,
         t.uid = sm[n].uid \/ (sm[n].phase = "gone" /\ sm[n].uid < t.uid),
         \/ pc' = "idle"
         \/ UNCHANGED <<pc, key, obj>>
         \/ key' = n /\ obj' = t
  PROVE  Moves(m)
<1>1. sm \in [Migrations -> Migration] /\ sm' = [sm EXCEPT ![n] = t]
  BY DEF TypeOK, StoreTypeOK, Store
<1>2. sm'[m].uid = sm[m].uid \/ (sm[m].phase = "gone" /\ sm[m].uid < sm'[m].uid)
  BY <1>1
<1>3. {o \in {obj'} : pc' # "idle" /\ key' = m}
         \subseteq {o \in {obj} : pc # "idle" /\ key = m} \cup {sm'[m]}
  BY <1>1
<1> QED
  BY <1>2, <1>3, StoreCopies DEF Moves

LEMMA QuietMoves ==
  ASSUME UNCHANGED <<smVars, smCache>>, NEW m \in Migrations,
         pc' = "idle" \/ UNCHANGED <<pc, key, obj>>
                      \/ (pc # "idle" /\ UNCHANGED <<key, obj>>)
  PROVE  Moves(m)
BY DEF Moves, Copies, smVars

LEMMA WorkerMoves ==
  ASSUME TypeOK, Worker, NEW m \in Migrations
  PROVE  Moves(m)
<1>1. ASSUME UNCHANGED <<smVars, smCache>>, pc # "idle",
             Fail \/ EndJob \/ \E s \in Steps : Goto(s)
      PROVE  Moves(m)
  BY <1>1, QuietMoves DEF Fail, EndJob, Goto
<1>2. ASSUME NEW n \in Migrations, Reconcile(n) PROVE Moves(m)
  <2>1. /\ UNCHANGED <<smVars, smCache>>
        /\ UNCHANGED jobVars \/ (key' = n /\ obj' = smCache[n])
    BY <1>2 DEF Reconcile, storeVars, cacheVars
  <2> QED
    BY <2>1 DEF Moves, Copies, smVars, jobVars
<1>3. CASE AddFinalizer
  <2>1. CASE Fail /\ UNCHANGED smVars
    BY <1>1, <1>3, <2>1 DEF AddFinalizer, cacheVars
  <2>2. CASE /\ Accepts /\ Store(key, [obj EXCEPT !.finalizer = TRUE])
             /\ obj' = [obj EXCEPT !.finalizer = TRUE] /\ key' = key
    <3>1. /\ key \in Migrations /\ obj = sm[key] /\ obj \in Migration
          /\ [obj EXCEPT !.finalizer = TRUE] \in Migration
          /\ [obj EXCEPT !.finalizer = TRUE].uid = sm[key].uid
      BY <1>3, <2>2 DEF AddFinalizer, Accepts, TypeOK, JobTypeOK, Migration
    <3> QED
      BY <1>3, <2>2, <3>1, StoreMoves DEF AddFinalizer, cacheVars
  <2> QED
    BY <1>3, <2>1, <2>2 DEF AddFinalizer
<1>4. CASE RemoveFinalizer
  <2>1. CASE Fail /\ UNCHANGED smVars
    BY <1>1, <1>4, <2>1 DEF RemoveFinalizer, cacheVars
  <2>2. CASE Accepts /\ Store(key, Released(obj)) /\ EndJob
    <3>1. /\ key \in Migrations /\ obj = sm[key] /\ obj \in Migration
          /\ Released(obj) \in Migration /\ Released(obj).uid = sm[key].uid
      BY <1>4, <2>2 DEF RemoveFinalizer, Accepts, TypeOK, JobTypeOK, Released, Migration, Phases
    <3> QED
      BY <1>4, <2>2, <3>1, StoreMoves DEF RemoveFinalizer, EndJob, cacheVars
  <2> QED
    BY <1>4, <2>1, <2>2 DEF RemoveFinalizer
<1>5. CASE AddLabel \/ DiscoverPods \/ EnsureNamespace \/ EnsureNamespacePolicy
  BY <1>1, <1>5 DEF AddLabel, DiscoverPods, EnsureNamespace, EnsureNamespacePolicy,
     Steps, NormalSteps, storeVars, cacheVars
<1>6. CASE EnsureCRDs \/ WriteBackup \/ WritePolicy
  BY <1>1, <1>6 DEF EnsureCRDs, WriteBackup, WritePolicy, NextItem, Steps, NormalSteps,
     cacheVars
<1>7. CASE ListOrphans \/ RemoveLabel \/ ListOwned \/ DeleteListed \/ FinishNormal
  BY <1>1, <1>7 DEF ListOrphans, RemoveLabel, ListOwned, DeleteListed, FinishNormal,
     Steps, DeleteSteps, storeVars, cacheVars
<1> QED
  BY <1>2, <1>3, <1>4, <1>5, <1>6, <1>7 DEF Worker

LEMMA UsersMove ==
  ASSUME TypeOK, Users, NEW m \in Migrations
  PROVE  Moves(m)
<1>0. sm \in [Migrations -> Migration]
  BY DEF TypeOK, StoreTypeOK
<1>1. ASSUME NEW n \in Migrations, NEW t \in Migration, Store(n, t), UNCHANGED operatorVars,
             t.uid = sm[n].uid \/ (sm[n].phase = "gone" /\ sm[n].uid < t.uid)
      PROVE  Moves(m)
  BY <1>1, StoreMoves DEF operatorVars, cacheVars, jobVars
<1>2. ASSUME UNCHANGED <<smVars, operatorVars>> PROVE Moves(m)
  BY <1>2, QuietMoves DEF operatorVars, cacheVars, jobVars
<1>3. ASSUME NEW n \in Migrations, NEW spec \in Specs, CreateMigration(n, spec)
      PROVE  Moves(m)
  <2> DEFINE t == [uid |-> sm[n].uid + 1, phase |-> "live", finalizer |-> FALSE,
                   held |-> FALSE, spec |-> spec]
  <2>1. t \in Migration /\ sm[n].uid < t.uid /\ sm[n].phase = "gone" /\ Store(n, t)
    BY <1>0, <1>3, WorkloadAssumption DEF CreateMigration, Migration, Phases
  <2> QED
    BY <1>1, <1>3, <2>1 DEF CreateMigration
<1>4. ASSUME NEW n \in Migrations, NEW spec \in Specs, EditMigration(n, spec)
      PROVE  Moves(m)
  <2> DEFINE t == [sm[n] EXCEPT !.spec = spec]
  <2>1. t \in Migration /\ t.uid = sm[n].uid /\ Store(n, t)
    BY <1>0, <1>4, WorkloadAssumption DEF EditMigration, Migration
  <2> QED
    BY <1>1, <1>4, <2>1 DEF EditMigration
<1>5. ASSUME NEW n \in Migrations, NEW foreground \in BOOLEAN,
             DeleteMigration(n, foreground)
      PROVE  Moves(m)
  <2> DEFINE t == IF sm[n].finalizer \/ foreground
                  THEN [sm[n] EXCEPT !.phase = "deleting", !.held = foreground]
                  ELSE [sm[n] EXCEPT !.phase = "gone"]
  <2>1. t \in Migration /\ t.uid = sm[n].uid /\ Store(n, t)
    BY <1>0, <1>5 DEF DeleteMigration, Migration, Phases
  <2> QED
    BY <1>1, <1>5, <2>1 DEF DeleteMigration
<1> QED
  BY <1>2, <1>3, <1>4, <1>5 DEF Users, DeleteBackup, StartPod, StopPod, DeleteWorkload,
     CreateWorkload, CreateNamespace, Refuse, storeVars

LEMMA NextMoves ==
  ASSUME TypeOK, [Next]_vars, NEW m \in Migrations
  PROVE  Moves(m)
<1>1. ASSUME NEW n \in Migrations, ObserveMigration(n) PROVE Moves(m)
  <2>1. /\ events[n] \in Seq(Migration) /\ events[n] # <<>>
        /\ events \in [Migrations -> Seq(Migration)] /\ smCache \in [Migrations -> Migration]
        /\ smCache' = [smCache EXCEPT ![n] = Head(events[n])]
        /\ events' = [events EXCEPT ![n] = Tail(events[n])]
        /\ UNCHANGED <<sm, jobVars>>
    BY <1>1 DEF ObserveMigration, TypeOK, StoreTypeOK, CacheTypeOK
  <2>2. Range(events[n]) = {Head(events[n])} \cup Range(Tail(events[n]))
    BY <2>1, RangeOfLoop
  <2>3. Copies(m)' \subseteq Copies(m)
    BY <2>1, <2>2 DEF Copies, jobVars
  <2> QED
    BY <2>1, <2>3 DEF Moves
<1>2. CASE Restart
  <2>1. smCache'[m] = sm'[m] /\ events'[m] = <<>> /\ pc' = "idle" /\ UNCHANGED sm
    BY <1>2 DEF Restart, StartManager, EndJob
  <2>2. Range(<<>>) = {}
    BY DEF Range
  <2> QED
    BY <2>1, <2>2 DEF Moves, Copies
<1>3. ASSUME NEW n \in Migrations, EndForeground(n) PROVE Moves(m)
  <2> DEFINE t == IF sm[n].finalizer THEN [sm[n] EXCEPT !.held = FALSE]
                  ELSE [sm[n] EXCEPT !.held = FALSE, !.phase = "gone"]
  <2>1. t \in Migration /\ t.uid = sm[n].uid /\ Store(n, t)
    BY <1>3 DEF EndForeground, TypeOK, StoreTypeOK, Migration, Phases
  <2> QED
    BY <1>3, <2>1, StoreMoves DEF EndForeground, cacheVars, jobVars
<1>4. CASE ObserveBackups \/ CollectBackup
  BY <1>4, QuietMoves DEF ObserveBackups, CollectBackup, storeVars, cacheVars, jobVars
<1>5. ASSUME NEW n \in Migrations, Requeue(n) PROVE Moves(m)
  BY <1>5, QuietMoves DEF Requeue, storeVars, cacheVars, jobVars
<1>6. CASE RequestFails
  BY <1>6, QuietMoves DEF RequestFails, Fail, EndJob, storeVars, cacheVars
<1>7. CASE UNCHANGED vars
  BY <1>7, QuietMoves DEF vars, storeVars, cacheVars, jobVars
<1> QED
  BY <1>1, <1>2, <1>3, <1>4, <1>5, <1>6, <1>7, WorkerMoves, UsersMove
  DEF Next, Manager, Collector

LEMMA AimKept ==
  ASSUME IInv, CopiesAim, KeepsRef, [Next]_vars
  PROVE  CopiesAim'
<1> SUFFICES ASSUME NEW m \in Migrations, NEW o \in Copies(m)', o.uid = sm'[m].uid
             PROVE  o.spec.ref = sm'[m].spec.ref
  BY DEF CopiesAim
<1>1. Moves(m)
  BY NextMoves DEF IInv
<1>2. CASE o \in Copies(m)
  <2>1. o.uid \in Nat /\ sm[m].uid \in Nat /\ o.uid <= sm[m].uid
    BY <1>2, CopiesAreOlder
  <2>2. sm'[m].uid = sm[m].uid
    BY <1>1, <2>1 DEF Moves
  <2> QED
    BY <1>2, <2>2 DEF CopiesAim, KeepsRef
<1> QED
  BY <1>1, <1>2 DEF Moves

-----------------------------------------------------------------------------
(***************************************************************************)
(* Labels.                                                                 *)
(***************************************************************************)
LabelsPlaced == \A place \in labelled : IsWorkload(place[2]) => place[1] = Mgmt

\* Inductive, with TypeOK, CopiesLag and CleanExit.
LabelsHeld == CopiesAim /\ LabelsPlaced /\ LabelHasHolder

LEMMA LabelsWritten ==
  ASSUME [Next]_vars
  PROVE  labelled' \subseteq labelled \/ AddLabel
<1>1. CASE Worker
  BY <1>1 DEF Worker, Reconcile, AddFinalizer, DiscoverPods, EnsureNamespace,
     EnsureNamespacePolicy, EnsureCRDs, WriteBackup, WritePolicy, ListOrphans,
     RemoveLabel, ListOwned, DeleteListed, FinishNormal, RemoveFinalizer, storeVars
<1>2. CASE Manager \/ Collector \/ RequestFails \/ Restart
  BY <1>2 DEF Manager, ObserveBackups, ObserveMigration, Requeue, Collector,
     CollectBackup, EndForeground, RequestFails, Restart, storeVars
<1>3. CASE Users
  BY <1>3 DEF Users, CreateMigration, EditMigration, DeleteMigration, DeleteBackup,
     StartPod, StopPod, DeleteWorkload, CreateWorkload, CreateNamespace, Refuse, storeVars
<1>4. CASE UNCHANGED vars
  BY <1>4 DEF vars, storeVars
<1> QED
  BY <1>1, <1>2, <1>3, <1>4 DEF Next

\* A new label is on the target of the object that is stored, which is held.
LEMMA NewLabel ==
  ASSUME IInv, CopiesAim, AddLabel, NEW place \in labelled' \ labelled,
         IsWorkload(place[2])
  PROVE  /\ place[1] = Mgmt
         /\ key \in Migrations /\ Exists(key) /\ sm[key].finalizer
         /\ sm[key].spec.ref = place[2]
<1>1. /\ pc = "label" /\ place \in LabelTarget(obj.spec) \X {obj.spec.ref}
      /\ key \in Migrations /\ obj \in Migration
  BY DEF AddLabel, IInv, TypeOK, JobTypeOK
<1>2. obj.phase = "live" /\ obj.finalizer
  BY <1>1 DEF IInv, CleanExit, JobPhase, NormalSteps, CopiesLag, JobLags
<1>3. Exists(key) /\ sm[key].uid = obj.uid /\ sm[key].finalizer
  BY <1>1, <1>2 DEF IInv, CopiesLag, JobLags, Behind, Exists
<1>4. sm[key].spec.ref = obj.spec.ref
  BY <1>1, <1>3 DEF CopiesAim, Copies
<1>5. place[1] \in LabelTarget(obj.spec) /\ place[2] = obj.spec.ref
  BY <1>1
<1>6. LabelTarget(obj.spec) \subseteq {Mgmt}
  BY <1>5 DEF LabelTarget
<1> QED
  BY <1>1, <1>3, <1>4, <1>5, <1>6

LEMMA HolderKept ==
  ASSUME IInv, IInv', LabelsHeld, LabelsPlaced', KeepsRef, [Next]_vars,
         NEW place \in labelled \cap labelled', IsWorkload(place[2])
  PROVE  \E m \in Migrations : /\ Exists(m)' /\ sm'[m].finalizer
                               /\ sm'[m].spec.ref = place[2]
<1>1. PICK m \in Migrations : Exists(m) /\ sm[m].finalizer /\ sm[m].spec.ref = place[2]
  BY DEF LabelsHeld, LabelHasHolder
<1>2. sm'[m].uid = sm[m].uid
  BY <1>1, NextMoves DEF IInv, Moves, Exists
<1>3. sm'[m].spec.ref = place[2]
  BY <1>1, <1>2 DEF KeepsRef
<1>4. sm'[m].finalizer
  <2> SUFFICES ASSUME ~sm'[m].finalizer PROVE FALSE
    OBVIOUS
  <2>1. TargetPlaces(sm[m].spec) \cap labelled' = {}
    BY <1>1, ReleasedClean
  <2>2. place = <<Mgmt, place[2]>>
    BY DEF LabelsHeld, LabelsPlaced, IInv, TypeOK, StoreTypeOK
  <2>3. place \in TargetPlaces(sm[m].spec)
    BY <1>1, <2>2 DEF TargetPlaces
  <2> QED
    BY <2>1, <2>3
<1>5. Exists(m)'
  BY <1>4 DEF IInv, CleanExit, NoFinalizerGone, Exists
<1> QED
  BY <1>3, <1>4, <1>5

LEMMA NextLabels ==
  ASSUME IInv, IInv', LabelsHeld, KeepsRef, [Next]_vars
  PROVE  LabelsHeld'
<1>1. CopiesAim'
  BY AimKept DEF LabelsHeld
<1>2. \A place \in labelled' \ labelled :
         IsWorkload(place[2]) => /\ place[1] = Mgmt
                                 /\ key \in Migrations /\ Exists(key) /\ sm[key].finalizer
                                 /\ sm[key].spec.ref = place[2]
                                 /\ sm' = sm
  BY LabelsWritten, NewLabel DEF LabelsHeld, AddLabel, smVars
<1>3. LabelsPlaced'
  BY <1>2 DEF LabelsHeld, LabelsPlaced
<1>4. LabelHasHolder'
  <2> SUFFICES ASSUME NEW place \in labelled', IsWorkload(place[2])
               PROVE  \E m \in Migrations : /\ Exists(m)' /\ sm'[m].finalizer
                                            /\ sm'[m].spec.ref = place[2]
    BY DEF LabelHasHolder
  <2>1. CASE place \in labelled
    BY <1>3, <2>1, HolderKept
  <2>2. CASE place \notin labelled
    BY <1>2, <2>2 DEF Exists
  <2> QED
    BY <2>1, <2>2
<1> QED
  BY <1>1, <1>3, <1>4 DEF LabelsHeld

(***************************************************************************)
(* As long as resourceRefs are kept, every copy of the object that is      *)
(* stored names its target, and every label on a workload has a holder.    *)
(***************************************************************************)
THEOREM LabelsHeldHolds == Spec /\ [][KeepsRef]_vars => []LabelsHeld
<1>1. Init => LabelsHeld
  <2> SUFFICES ASSUME Init PROVE LabelsHeld
    OBVIOUS
  <2>1. Range(<<>>) = {}
    BY DEF Range
  <2>2. CopiesAim
    BY <2>1 DEF Init, CopiesAim, Copies
  <2> QED
    BY <2>2 DEF Init, LabelsHeld, LabelsPlaced, LabelHasHolder
<1>2. IInv /\ IInv' /\ LabelsHeld /\ [Next]_vars /\ [KeepsRef]_vars => LabelsHeld'
  <2>1. ASSUME LabelsHeld, UNCHANGED vars PROVE LabelsHeld'
    BY <2>1 DEF LabelsHeld, CopiesAim, Copies, LabelsPlaced, LabelHasHolder, Exists,
       vars, storeVars, smVars, cacheVars, jobVars
  <2> QED
    BY <2>1, NextLabels
<1> QED
  BY <1>1, <1>2, InvariantHolds, PTL DEF Spec

(***************************************************************************)
(* No workload is left with a label that nobody will remove: through any   *)
(* crash, error, stale copy, deletion and re-creation, for any number of   *)
(* migrations that share workloads, as long as resourceRefs are kept.      *)
(***************************************************************************)
THEOREM LabelHasHolderHolds == Spec /\ [][KeepsRef]_vars => []LabelHasHolder
<1>1. LabelsHeld => LabelHasHolder
  BY DEF LabelsHeld
<1> QED
  BY <1>1, LabelsHeldHolds, PTL

=============================================================================
