---------------------- MODULE MigrationLifecycle_proofs ----------------------
(***************************************************************************)
(* Theorems about the life cycle of a StatefulMigration: the finalizer     *)
(* goes only when the target is not labelled, and the controller           *)
(* implements MigrationLifecycle.                                          *)
(***************************************************************************)
EXTENDS MigrationBackup_proofs

-----------------------------------------------------------------------------
(***************************************************************************)
(* The inductive invariant CleanExit.                                      *)
(***************************************************************************)

\* Steps that do not advance the worker and add no label.
LEMMA QuietClean ==
  ASSUME CleanExit, UNCHANGED <<pc, obj, todo, karmada>>, labelled' \subseteq labelled,
         NoFinalizerGone'
  PROVE  CleanExit'
BY DEF CleanExit, JobPhase, Unlabelled, TargetPlaces

\* A job that ends, whatever else happens to labels or to the client.
LEMMA EndJobClean ==
  ASSUME EndJob, NoFinalizerGone'
  PROVE  CleanExit'
BY DEF EndJob, CleanExit, JobPhase, Unlabelled, NormalSteps, DeleteSteps

\* The steps of reconcileNormal, of which one adds labels.
LEMMA NormalStepClean ==
  ASSUME CleanExit, pc \in NormalSteps, UNCHANGED <<sm, obj>>,
         pc' \in NormalSteps \cup {"delete"}
  PROVE  CleanExit'
BY DEF CleanExit, JobPhase, Unlabelled, NoFinalizerGone, NormalSteps, DeleteSteps

LEMMA FailClean ==
  ASSUME CleanExit, UNCHANGED sm, Fail
  PROVE  CleanExit'
BY EndJobClean DEF Fail, CleanExit, NoFinalizerGone

\* Storing an object that is not gone with a finalizer.
LEMMA StoreClean ==
  ASSUME TypeOK, CleanExit, NEW m \in Migrations, NEW t, Store(m, t),
         t.phase = "gone" => ~t.finalizer
  PROVE  NoFinalizerGone'
BY DEF Store, CleanExit, NoFinalizerGone, TypeOK, StoreTypeOK

LEMMA ReconcileClean ==
  ASSUME TypeOK, CleanExit, NEW m \in Migrations, Reconcile(m)
  PROVE  CleanExit'
<1>1. NoFinalizerGone'
  BY DEF Reconcile, storeVars, smVars, CleanExit, NoFinalizerGone
<1>2. CASE UNCHANGED jobVars
  <2>1. pc = "idle" /\ pc' = "idle"
    BY <1>2 DEF Reconcile, jobVars
  <2> QED
    BY <1>1, <2>1 DEF CleanExit, JobPhase, Unlabelled, NormalSteps, DeleteSteps
<1>3. CASE /\ obj' = smCache[m] /\ pc' = FirstStep(smCache[m])
           /\ smCache[m].phase # "gone" /\ todo' = smCache[m].spec.clusters
  <2>1. smCache[m].phase \in {"live", "deleting"} /\ smCache[m].finalizer \in BOOLEAN
    BY <1>3 DEF TypeOK, CacheTypeOK, Migration, Phases
  <2>2. \/ pc' = "finalizer"
        \/ pc' = "label" /\ obj'.phase = "live"
        \/ pc' = "unlabel" /\ obj'.phase = "deleting"
    BY <1>3, <2>1 DEF FirstStep
  <2>3. JobPhase'
    BY <2>2 DEF JobPhase, NormalSteps, DeleteSteps
  <2>4. Unlabelled'
    BY <1>3, <2>2 DEF Unlabelled
  <2> QED
    BY <1>1, <2>3, <2>4 DEF CleanExit
<1> QED
  BY <1>2, <1>3 DEF Reconcile

LEMMA AddFinalizerClean ==
  ASSUME TypeOK, CleanExit, AddFinalizer
  PROVE  CleanExit'
<1>1. key \in Migrations /\ obj \in Migration
  BY DEF AddFinalizer, TypeOK, JobTypeOK
<1>2. CASE Fail /\ UNCHANGED smVars
  BY <1>2, FailClean DEF smVars
<1>3. CASE /\ obj.phase = "live" /\ Store(key, [obj EXCEPT !.finalizer = TRUE])
           /\ obj' = [obj EXCEPT !.finalizer = TRUE] /\ pc' = "label"
  <2>1. obj'.phase = "live" /\ NoFinalizerGone'
    BY <1>1, <1>3, StoreClean DEF Migration
  <2> QED
    BY <1>3, <2>1 DEF CleanExit, JobPhase, Unlabelled, NormalSteps, DeleteSteps
<1> QED
  BY <1>2, <1>3 DEF AddFinalizer

LEMMA RemoveLabelClean ==
  ASSUME TypeOK, CleanExit, RemoveLabel
  PROVE  CleanExit'
<1> DEFINE ref == obj.spec.ref
<1>1. /\ pc = "unlabel" /\ obj.phase = "deleting" /\ NoFinalizerGone'
      /\ ref \in Refs /\ todo \in Seq(Clusters)
      /\ Kind[ref] = "pod" => ~IsWorkload(ref)
  BY DEF RemoveLabel, smVars, CleanExit, JobPhase, DeleteSteps, NoFinalizerGone,
         TypeOK, JobTypeOK, Migration, MigrationSpec, IsWorkload
<1>2. CASE Fail
  BY <1>2, FailClean DEF RemoveLabel, smVars
<1>3. CASE /\ IsWorkload(ref) /\ labelled' = labelled \ {<<Mgmt, ref>>}
           /\ Goto("listOwned")
  <2>1. obj' = obj /\ pc' = "listOwned"
    BY <1>3 DEF Goto
  <2> QED
    BY <1>1, <1>3, <2>1 DEF CleanExit, JobPhase, Unlabelled, TargetPlaces, NormalSteps, DeleteSteps
<1>4. CASE /\ Kind[ref] = "pod" /\ karmada /\ todo # <<>>
           /\ labelled' = labelled \ {<<Head(todo), ref>>}
           /\ todo' = Tail(todo) /\ Goto("unlabel")
  <2>1. obj' = obj /\ pc' = "unlabel"
    BY <1>4 DEF Goto
  <2>2. ASSUME NEW c \in Range(obj.spec.clusters)
        PROVE  c \in Range(todo') \/ <<c, ref>> \notin labelled'
    <3>1. c \in Range(todo) \/ <<c, ref>> \notin labelled
      BY <1>1, <1>4 DEF CleanExit, Unlabelled
    <3>2. c \in Range(todo) => c = Head(todo) \/ c \in Range(Tail(todo))
      BY <1>1, <1>4, RangeOfLoop
    <3> QED
      BY <1>4, <3>1, <3>2
  <2> QED
    BY <1>1, <2>1, <2>2 DEF CleanExit, JobPhase, Unlabelled, NormalSteps
<1>5. CASE /\ Kind[ref] = "pod" /\ (~karmada \/ todo = <<>>)
           /\ Goto("listOwned") /\ UNCHANGED labelled
  <2>1. obj' = obj /\ pc' = "listOwned" /\ karmada' = karmada
    BY <1>5 DEF Goto
  <2>2. todo = <<>> => Range(todo) = {}
    BY DEF Range
  <2>3. TargetPlaces(obj.spec) \cap labelled = {}
    BY <1>1, <1>5, <2>2 DEF TargetPlaces, CleanExit, Unlabelled
  <2> QED
    BY <1>1, <1>5, <2>1, <2>3 DEF CleanExit, JobPhase, Unlabelled, TargetPlaces, NormalSteps, DeleteSteps
<1> QED
  BY <1>2, <1>3, <1>4, <1>5 DEF RemoveLabel

LEMMA RemoveFinalizerClean ==
  ASSUME TypeOK, CleanExit, RemoveFinalizer
  PROVE  CleanExit'
<1>1. key \in Migrations /\ obj \in Migration
  BY DEF RemoveFinalizer, TypeOK, JobTypeOK
<1>2. CASE Fail /\ UNCHANGED smVars
  BY <1>2, FailClean DEF smVars
<1>3. CASE Store(key, Released(obj)) /\ EndJob
  <2>1. ~Released(obj).finalizer
    BY <1>1 DEF Released, Migration
  <2> QED
    BY <1>1, <1>3, <2>1, StoreClean, EndJobClean
<1> QED
  BY <1>2, <1>3 DEF RemoveFinalizer

LEMMA WorkerClean ==
  ASSUME TypeOK, CleanExit, Worker
  PROVE  CleanExit'
<1>1. ASSUME pc \in NormalSteps, UNCHANGED sm,
             Fail \/ \E s \in NormalSteps \cup {"delete"} : Goto(s)
      PROVE  CleanExit'
  BY <1>1, FailClean, NormalStepClean DEF Goto
<1>2. CASE AddLabel
  BY <1>1, <1>2 DEF AddLabel, smVars, NormalSteps
<1>3. CASE DiscoverPods
  BY <1>1, <1>3 DEF DiscoverPods, storeVars, smVars, NormalSteps
<1>4. CASE EnsureNamespace
  BY <1>1, <1>4 DEF EnsureNamespace, smVars, NormalSteps
<1>5. CASE EnsureNamespacePolicy
  BY <1>1, <1>5 DEF EnsureNamespacePolicy, smVars, NormalSteps
<1>6. CASE EnsureCRDs
  BY <1>1, <1>6 DEF EnsureCRDs, smVars, NormalSteps
<1>7. CASE WriteBackup
  BY <1>1, <1>7 DEF WriteBackup, smVars, NormalSteps
<1>8. CASE WritePolicy
  BY <1>1, <1>8 DEF WritePolicy, NextItem, smVars, NormalSteps
<1>9. CASE ListOrphans
  BY <1>1, <1>9 DEF ListOrphans, storeVars, smVars, NormalSteps
<1>10. CASE ListOwned
  <2>1. pc = "listOwned" /\ pc' = "delete"
        /\ UNCHANGED <<sm, obj, labelled, karmada>>
    BY <1>10 DEF ListOwned, storeVars, smVars, Goto
  <2> QED
    BY <2>1 DEF CleanExit, JobPhase, Unlabelled, TargetPlaces, NoFinalizerGone, NormalSteps, DeleteSteps
<1>11. CASE DeleteListed
  <2>1. pc = "delete" /\ pc' = "delete"
        /\ UNCHANGED <<sm, obj, labelled, karmada>>
    BY <1>11 DEF DeleteListed, smVars, Goto
  <2> QED
    BY <2>1 DEF CleanExit, JobPhase, Unlabelled, TargetPlaces, NoFinalizerGone, NormalSteps, DeleteSteps
<1>12. CASE FinishNormal
  BY <1>12, EndJobClean DEF FinishNormal, storeVars, smVars, CleanExit, NoFinalizerGone
<1> QED
  BY <1>2, <1>3, <1>4, <1>5, <1>6, <1>7, <1>8, <1>9, <1>10, <1>11, <1>12,
     ReconcileClean, AddFinalizerClean, RemoveLabelClean, RemoveFinalizerClean DEF Worker

LEMMA OthersClean ==
  ASSUME TypeOK, CleanExit, Manager \/ Collector \/ Users \/ RequestFails \/ Restart
  PROVE  CleanExit'
<1> USE DEF TypeOK, StoreTypeOK
<1>1. ASSUME UNCHANGED <<sm, jobVars, karmada>>, labelled' \subseteq labelled
      PROVE  CleanExit'
  BY <1>1, QuietClean DEF jobVars, CleanExit, NoFinalizerGone
<1>2. ASSUME NEW m \in Migrations, NEW t, Store(m, t), UNCHANGED <<jobVars, karmada, labelled>>,
             t.phase = "gone" => ~t.finalizer
      PROVE  CleanExit'
  BY <1>2, QuietClean, StoreClean DEF jobVars
<1>3. CASE ObserveBackups
  BY <1>1, <1>3 DEF ObserveBackups, storeVars, smVars
<1>4. ASSUME NEW m \in Migrations, ObserveMigration(m) \/ Requeue(m) PROVE CleanExit'
  BY <1>1, <1>4 DEF ObserveMigration, Requeue, storeVars, smVars
<1>5. CASE CollectBackup
  BY <1>1, <1>5 DEF CollectBackup, smVars
<1>6. ASSUME NEW m \in Migrations, EndForeground(m) PROVE CleanExit'
  <2> DEFINE t == IF sm[m].finalizer THEN [sm[m] EXCEPT !.held = FALSE]
                  ELSE [sm[m] EXCEPT !.held = FALSE, !.phase = "gone"]
  <2>1. t.phase = "gone" => ~t.finalizer
    BY <1>6 DEF EndForeground, Migration
  <2>2. Store(m, t) /\ UNCHANGED <<jobVars, karmada, labelled>>
    BY <1>6 DEF EndForeground
  <2> QED
    BY <1>2, <2>1, <2>2
<1>7. ASSUME NEW m \in Migrations, NEW spec \in Specs, CreateMigration(m, spec)
      PROVE  CleanExit'
  <2> DEFINE t == [uid |-> sm[m].uid + 1, phase |-> "live", finalizer |-> FALSE,
                   held |-> FALSE, spec |-> spec]
  <2>1. Store(m, t) /\ UNCHANGED <<jobVars, karmada, labelled>> /\ ~t.finalizer
    BY <1>7 DEF CreateMigration, operatorVars
  <2> QED
    BY <1>2, <2>1
<1>8. ASSUME NEW m \in Migrations, NEW spec \in Specs, EditMigration(m, spec)
      PROVE  CleanExit'
  <2> DEFINE t == [sm[m] EXCEPT !.spec = spec]
  <2>1. Store(m, t) /\ UNCHANGED <<jobVars, karmada, labelled>>
    BY <1>8 DEF EditMigration, operatorVars
  <2>2. t.phase # "gone"
    BY <1>8 DEF EditMigration, Migration
  <2> QED
    BY <1>2, <2>1, <2>2
<1>9. ASSUME NEW m \in Migrations, NEW foreground \in BOOLEAN,
             DeleteMigration(m, foreground)
      PROVE  CleanExit'
  <2> DEFINE t == IF sm[m].finalizer \/ foreground
                  THEN [sm[m] EXCEPT !.phase = "deleting", !.held = foreground]
                  ELSE [sm[m] EXCEPT !.phase = "gone"]
  <2>1. Store(m, t) /\ UNCHANGED <<jobVars, karmada, labelled>>
    BY <1>9 DEF DeleteMigration, operatorVars
  <2>2. t.phase = "gone" => ~t.finalizer
    BY DEF Migration
  <2> QED
    BY <1>2, <2>1, <2>2
<1>10. CASE DeleteBackup
  BY <1>1, <1>10 DEF DeleteBackup, operatorVars, smVars
<1>11. ASSUME NEW place \in Places, NEW image \in Images, StartPod(place, image)
       PROVE  CleanExit'
  BY <1>1, <1>11 DEF StartPod, operatorVars, storeVars, smVars
<1>12. ASSUME NEW place \in Places, StopPod(place) PROVE CleanExit'
  BY <1>1, <1>12 DEF StopPod, operatorVars, smVars
<1>13. ASSUME NEW r \in Refs, DeleteWorkload(r) \/ CreateWorkload(r) PROVE CleanExit'
  BY <1>1, <1>13 DEF DeleteWorkload, CreateWorkload, operatorVars, storeVars, smVars
<1>14. ASSUME NEW n \in Refusable, Refuse(n) PROVE CleanExit'
  BY <1>1, <1>14 DEF Refuse, operatorVars, storeVars, smVars
<1>15. CASE CreateNamespace
  BY <1>1, <1>15 DEF CreateNamespace, operatorVars, smVars
<1>16. CASE RequestFails
  BY <1>16, FailClean DEF RequestFails, storeVars, smVars
<1>17. CASE Restart
  BY <1>17, EndJobClean DEF Restart, CleanExit, NoFinalizerGone
<1>18. CASE Users
  BY <1>7, <1>8, <1>9, <1>10, <1>11, <1>12, <1>13, <1>14, <1>15, <1>18 DEF Users
<1>19. CASE Manager \/ Collector
  BY <1>3, <1>4, <1>5, <1>6, <1>19 DEF Manager, Collector
<1> QED
  BY <1>16, <1>17, <1>18, <1>19

LEMMA NextClean == TypeOK /\ CleanExit /\ [Next]_vars => CleanExit'
<1> SUFFICES ASSUME TypeOK, CleanExit, [Next]_vars PROVE CleanExit'
  OBVIOUS
<1>1. CASE Next
  BY <1>1, WorkerClean, OthersClean DEF Next
<1>2. CASE UNCHANGED vars
  BY <1>2, QuietClean DEF vars, smVars, storeVars, jobVars, CleanExit, NoFinalizerGone
<1> QED
  BY <1>1, <1>2

(***************************************************************************)
(* From the moment a deletion has visited a place, until it is over, the   *)
(* target is not labelled there: whatever users, other migrations and      *)
(* faults do in between.                                                   *)
(***************************************************************************)
THEOREM CleanExitHolds == Spec => []CleanExit
<1>1. Init => CleanExit
  BY DEF Init, CleanExit, JobPhase, Unlabelled, NoFinalizerGone, NormalSteps, DeleteSteps
<1> QED
  BY <1>1, InitType, NextType, NextClean, PTL DEF Spec

-----------------------------------------------------------------------------
(***************************************************************************)
(* The refinement.  First, what a step on the stores is in terms of the    *)
(* abstract variables.                                                     *)
(***************************************************************************)
LEMMA NothingSeen ==
  ASSUME UNCHANGED <<sm, backups, labelled>>
  PROVE  UNCHANGED Lifecycle!vars
BY DEF Lifecycle!vars

LEMMA StageIs ==
  ASSUME NEW o \in Migration
  PROVE  /\ o.phase = "gone" <=> Stage(o) = "gone"
         /\ o.phase = "live" => Stage(o) = IF o.finalizer THEN "held" ELSE "new"
         /\ o.phase = "deleting" => Stage(o) = IF o.finalizer THEN "leaving" ELSE "fading"
BY DEF Stage, Migration, Phases

LEMMA StorePointwise ==
  ASSUME TypeOK, NEW m \in Migrations, NEW t, Store(m, t)
  PROVE  \A n \in Migrations : sm'[n] = IF n = m THEN t ELSE sm[n]
BY DEF Store, TypeOK, StoreTypeOK

LEMMA StoreSeen ==
  ASSUME TypeOK, NEW m \in Migrations, NEW t \in Migration, Store(m, t),
         UNCHANGED <<backups, labelled>>
  PROVE  /\ [n \in Migrations |-> Stage(sm'[n])]
              = [[n \in Migrations |-> Stage(sm[n])] EXCEPT ![m] = Stage(t)]
         /\ [n \in Migrations |-> sm'[n].uid]
              = [[n \in Migrations |-> sm[n].uid] EXCEPT ![m] = t.uid]
         /\ [n \in Migrations |-> {sm'[n].spec.ref} \cap WorkloadRefs]
              = [[n \in Migrations |-> {sm[n].spec.ref} \cap WorkloadRefs]
                   EXCEPT ![m] = {t.spec.ref} \cap WorkloadRefs]
<1>1. \A n \in Migrations : sm'[n] = IF n = m THEN t ELSE sm[n]
  BY StorePointwise
<1> QED
  BY <1>1

\* Only the stage of one migration changes.
LEMMA StageMoves ==
  ASSUME TypeOK, NEW m \in Migrations, NEW t \in Migration, Store(m, t),
         UNCHANGED <<backups, labelled>>,
         t.uid = sm[m].uid, t.spec = sm[m].spec
  PROVE  /\ Lifecycle!Move(m, Stage(t))
         /\ UNCHANGED [n \in Migrations |-> sm[n].uid]
         /\ UNCHANGED [n \in Migrations |-> {sm[n].spec.ref} \cap WorkloadRefs]
         /\ Stage(t) = Stage(sm[m]) => UNCHANGED Lifecycle!vars
<1>1. \A n \in Migrations : sm'[n] = IF n = m THEN t ELSE sm[n]
  BY StorePointwise
<1>2. Lifecycle!Move(m, Stage(t))
  BY StoreSeen DEF Lifecycle!Move
<1>3. /\ UNCHANGED [n \in Migrations |-> sm[n].uid]
      /\ UNCHANGED [n \in Migrations |-> {sm[n].spec.ref} \cap WorkloadRefs]
  BY <1>1
<1>4. Stage(t) = Stage(sm[m]) => UNCHANGED [n \in Migrations |-> Stage(sm[n])]
  BY <1>1
<1> QED
  BY <1>2, <1>3, <1>4 DEF Lifecycle!vars

LEMMA AimsAt ==
  ASSUME NEW ref \in Refs
  PROVE  {ref} \cap WorkloadRefs \in {{}} \cup {{t} : t \in WorkloadRefs}
<1>1. CASE ref \in WorkloadRefs
  <2>1. {ref} \cap WorkloadRefs = {ref}
    BY <1>1
  <2> QED
    BY <1>1, <2>1
<1>2. CASE ref \notin WorkloadRefs
  <2>1. {ref} \cap WorkloadRefs = {}
    BY <1>2
  <2> QED
    BY <2>1
<1> QED
  BY <1>1, <1>2

IInv == TypeOK /\ CopiesLag /\ CleanExit

LEMMA AddFinalizerRefines ==
  ASSUME IInv, AddFinalizer
  PROVE  [Lifecycle!Next]_(Lifecycle!vars)
<1>1. key \in Migrations /\ obj \in Migration
  BY DEF AddFinalizer, IInv, TypeOK, JobTypeOK
<1>2. CASE UNCHANGED smVars
  BY <1>2, NothingSeen DEF AddFinalizer, smVars
<1>3. CASE Accepts /\ obj.phase = "live" /\ Store(key, [obj EXCEPT !.finalizer = TRUE])
  <2> DEFINE t == [obj EXCEPT !.finalizer = TRUE]
  <2>1. /\ t \in Migration /\ Store(key, t) /\ UNCHANGED <<backups, labelled>>
        /\ t.uid = sm[key].uid /\ t.spec = sm[key].spec /\ t.phase = "live" /\ t.finalizer
        /\ sm[key] \in Migration /\ sm[key].phase = "live"
    BY <1>1, <1>3 DEF AddFinalizer, Accepts, Migration
  <2>2. Stage(t) = "held" /\ Stage(sm[key]) \in {"new", "held"}
    BY <2>1, StageIs
  <2>3. /\ Lifecycle!Move(key, "held")
        /\ UNCHANGED [n \in Migrations |-> sm[n].uid]
        /\ UNCHANGED [n \in Migrations |-> {sm[n].spec.ref} \cap WorkloadRefs]
        /\ Stage(sm[key]) = "held" => UNCHANGED Lifecycle!vars
    BY <1>1, <2>1, <2>2, StageMoves DEF IInv
  <2>4. Stage(sm[key]) = "new" => Lifecycle!Adopt(key)
    BY <1>1, <2>1, <2>3 DEF Lifecycle!Adopt
  <2> QED
    BY <1>1, <2>2, <2>3, <2>4 DEF Lifecycle!Next
<1> QED
  BY <1>2, <1>3 DEF AddFinalizer

LEMMA RemoveFinalizerRefines ==
  ASSUME IInv, RemoveFinalizer
  PROVE  [Lifecycle!Next]_(Lifecycle!vars)
<1>1. key \in Migrations /\ obj \in Migration
  BY DEF RemoveFinalizer, IInv, TypeOK, JobTypeOK
<1>2. CASE UNCHANGED smVars
  BY <1>2, NothingSeen DEF RemoveFinalizer, smVars
<1>3. CASE Accepts /\ Store(key, Released(obj))
  <2> DEFINE t == Released(obj)
  <2>1. /\ t \in Migration /\ Store(key, t) /\ UNCHANGED <<backups, labelled>>
        /\ t.uid = sm[key].uid /\ t.spec = sm[key].spec
        /\ t.phase = "gone" \/ (t.phase = "deleting" /\ ~t.finalizer)
    BY <1>1, <1>3 DEF RemoveFinalizer, Accepts, Released, Migration, Phases
  <2>2. Stage(t) \in {"gone", "fading"}
    BY <2>1, StageIs
  <2>3. Stage(sm[key]) = "leaving"
    BY <1>1, <1>3, StageIs DEF RemoveFinalizer, Accepts, IInv, CopiesLag, JobLags
  <2>4. TargetPlaces(sm[key].spec) \cap labelled = {}
    BY <1>3 DEF RemoveFinalizer, Accepts, IInv, CleanExit, Unlabelled
  <2>5. ({sm[key].spec.ref} \cap WorkloadRefs)
          \cap {r \in WorkloadRefs : <<Mgmt, r>> \in labelled} = {}
    BY <2>4 DEF TargetPlaces, WorkloadRefs
  <2>6. /\ Lifecycle!Move(key, Stage(t))
        /\ UNCHANGED [n \in Migrations |-> sm[n].uid]
        /\ UNCHANGED [n \in Migrations |-> {sm[n].spec.ref} \cap WorkloadRefs]
    BY <1>1, <2>1, StageMoves DEF IInv
  <2>7. Lifecycle!Release(key)
    BY <1>1, <2>1, <2>2, <2>3, <2>5, <2>6 DEF Lifecycle!Release
  <2> QED
    BY <1>1, <2>7 DEF Lifecycle!Next
<1> QED
  BY <1>2, <1>3 DEF RemoveFinalizer

\* What the worker does to labels and backups, it does while the migration it
\* works for is adopted.
LEMMA AdoptedThen ==
  ASSUME IInv, pc \in NormalSteps
  PROVE  /\ key \in Migrations /\ obj \in Migration /\ sm[key].uid = obj.uid
         /\ Lifecycle!Adopted(key)
<1>1. key \in Migrations /\ obj \in Migration /\ sm[key] \in Migration
  BY DEF IInv, TypeOK, StoreTypeOK, JobTypeOK, NormalSteps
<1>2. sm[key].uid = obj.uid /\ sm[key].phase # "gone" /\ sm[key].finalizer
  BY DEF IInv, CopiesLag, JobLags, Behind, CleanExit, JobPhase, NormalSteps
<1>3. Stage(sm[key]) \in {"held", "leaving"}
  BY <1>1, <1>2, StageIs DEF Migration, Phases
<1> QED
  BY <1>1, <1>2, <1>3 DEF Lifecycle!Adopted

LEMMA AddLabelRefines ==
  ASSUME IInv, AddLabel
  PROVE  [Lifecycle!Next]_(Lifecycle!vars)
<1>1. /\ UNCHANGED <<sm, backups>> /\ pc \in NormalSteps
  BY DEF AddLabel, smVars, NormalSteps
<1>2. key \in Migrations /\ obj.spec.ref \in Refs /\ Lifecycle!Adopted(key)
  BY <1>1, AdoptedThen DEF Migration, MigrationSpec
<1>3. CASE UNCHANGED labelled
  BY <1>1, <1>3, NothingSeen
<1>4. CASE /\ LabelTarget(obj.spec) # {}
           /\ labelled' = labelled \cup (LabelTarget(obj.spec) \X {obj.spec.ref})
  <2>1. CASE IsWorkload(obj.spec.ref)
    <3>1. LabelTarget(obj.spec) = {Mgmt}
      BY <1>4, <2>1 DEF LabelTarget
    <3>2. {r \in WorkloadRefs : <<Mgmt, r>> \in labelled'}
            = {r \in WorkloadRefs : <<Mgmt, r>> \in labelled} \cup {obj.spec.ref}
      BY <1>2, <1>4, <2>1, <3>1 DEF WorkloadRefs
    <3>3. obj.spec.ref \in WorkloadRefs
      BY <1>2, <2>1 DEF WorkloadRefs
    <3>4. PICK m \in Migrations : m = key
      BY <1>2
    <3>5. Lifecycle!Mark(m)
      BY <1>1, <1>2, <3>2, <3>3, <3>4 DEF Lifecycle!Mark
    <3> QED
      BY <3>5 DEF Lifecycle!Next
  <2>2. CASE ~IsWorkload(obj.spec.ref)
    <3>1. {r \in WorkloadRefs : <<Mgmt, r>> \in labelled'}
            = {r \in WorkloadRefs : <<Mgmt, r>> \in labelled}
      BY <1>4, <2>2 DEF WorkloadRefs
    <3> QED
      BY <1>1, <3>1 DEF Lifecycle!vars
  <2> QED
    BY <2>1, <2>2
<1> QED
  BY <1>3, <1>4 DEF AddLabel

\* Labels are taken away from one object at a time.
LEMMA UnmarkRefines ==
  ASSUME UNCHANGED <<sm, backups>>, NEW l, NEW r \in Refs,
         labelled' = labelled \ {<<l, r>>}, IsWorkload(r) => l = Mgmt
  PROVE  [Lifecycle!Next]_(Lifecycle!vars)
<1>1. CASE IsWorkload(r)
  <2>1. {q \in WorkloadRefs : <<Mgmt, q>> \in labelled'}
          = {q \in WorkloadRefs : <<Mgmt, q>> \in labelled} \ {r}
    BY <1>1
  <2>2. r \in WorkloadRefs
    BY <1>1 DEF WorkloadRefs
  <2>3. Lifecycle!Unmark
    BY <2>1, <2>2 DEF Lifecycle!Unmark
  <2> QED
    BY <2>3 DEF Lifecycle!Next
<1>2. CASE ~IsWorkload(r)
  <2>1. {q \in WorkloadRefs : <<Mgmt, q>> \in labelled'}
          = {q \in WorkloadRefs : <<Mgmt, q>> \in labelled}
    BY <1>2 DEF WorkloadRefs
  <2> QED
    BY <2>1 DEF Lifecycle!vars
<1> QED
  BY <1>1, <1>2

LEMMA RemoveLabelRefines ==
  ASSUME IInv, RemoveLabel
  PROVE  [Lifecycle!Next]_(Lifecycle!vars)
<1>1. UNCHANGED <<sm, backups>> /\ obj.spec.ref \in Refs
  BY DEF RemoveLabel, smVars, IInv, TypeOK, JobTypeOK, Migration, MigrationSpec
<1>2. CASE UNCHANGED labelled
  BY <1>1, <1>2, NothingSeen
<1>3. CASE IsWorkload(obj.spec.ref) /\ labelled' = labelled \ {<<Mgmt, obj.spec.ref>>}
  BY <1>1, <1>3, UnmarkRefines
<1>4. CASE /\ Kind[obj.spec.ref] = "pod"
           /\ labelled' = labelled \ {<<Head(todo), obj.spec.ref>>}
  <2>1. ~IsWorkload(obj.spec.ref)
    BY <1>4 DEF IsWorkload
  <2> QED
    BY <1>1, <1>4, <2>1, UnmarkRefines
<1> QED
  BY <1>2, <1>3, <1>4 DEF RemoveLabel

LEMMA WriteBackupRefines ==
  ASSUME IInv, WriteBackup
  PROVE  [Lifecycle!Next]_(Lifecycle!vars)
<1> DEFINE view == [n \in DOMAIN backups |-> [migration |-> backups[n].migration,
                                              owner |-> backups[n].owner]]
<1>1. /\ UNCHANGED <<sm, labelled>> /\ pc \in NormalSteps
  BY DEF WriteBackup, smVars, NormalSteps
<1>2. /\ key \in Migrations /\ Lifecycle!Adopted(key) /\ sm[key].uid = obj.uid
  BY <1>1, AdoptedThen
<1>3. CASE UNCHANGED backups
  BY <1>1, <1>3, NothingSeen
<1>4. CASE /\ ItemName \in DOMAIN backups
           /\ backups' = [backups EXCEPT ![ItemName].spec = DesiredSpec]
  <2>1. \A n \in DOMAIN backups : backups[n] \in Backup
    BY DEF IInv, TypeOK, StoreTypeOK
  <2>2. /\ DOMAIN backups' = DOMAIN backups
        /\ \A n \in DOMAIN backups : /\ backups'[n].migration = backups[n].migration
                                     /\ backups'[n].owner = backups[n].owner
    BY <1>4, <2>1 DEF Backup
  <2>3. view' = view
    BY <2>2
  <2> QED
    BY <1>1, <2>3 DEF Lifecycle!vars
<1>5. CASE /\ ItemName \notin DOMAIN backups
           /\ backups' = Put(backups, ItemName,
                [migration |-> key, pod |-> Head(items).pod, cluster |-> Head(todo),
                 owner |-> OwnerUid(obj), spec |-> DesiredSpec])
  <2>1. ItemName \in BackupNames
    <3>1. /\ items \in Seq(PodInfo) /\ items # <<>> /\ todo \in Seq(Clusters) /\ todo # <<>>
      BY DEF IInv, TypeOK, JobTypeOK, WriteBackup
    <3>2. Head(items).pod \in Pods /\ Head(todo) \in Clusters
      BY <3>1, SeqHead DEF PodInfo
    <3> QED
      BY <1>2, <3>2 DEF ItemName, BackupNames
  <2>2. /\ DOMAIN backups' = DOMAIN backups \cup {ItemName}
        /\ \A n \in DOMAIN backups : backups'[n] = backups[n]
        /\ backups'[ItemName].migration = key
        /\ backups'[ItemName].owner = sm[key].uid
    BY <1>2, <1>5 DEF Put, OwnerUid
  <2>3. PICK m \in Migrations : m = key
    BY <1>2
  <2>4. PICK n \in BackupNames : n = ItemName
    BY <2>1
  <2>5. view' = [x \in DOMAIN view \cup {n} |->
                   IF x = n
                   THEN [migration |-> m, owner |-> [q \in Migrations |-> sm[q].uid][m]]
                   ELSE view[x]]
    BY <2>2, <2>3, <2>4
  <2>6. n \in BackupNames \ DOMAIN view
    BY <1>5, <2>4
  <2>7. Lifecycle!Make(m)
    BY <1>1, <1>2, <2>3, <2>5, <2>6 DEF Lifecycle!Make
  <2> QED
    BY <2>7 DEF Lifecycle!Next
<1> QED
  BY <1>3, <1>4, <1>5 DEF WriteBackup

LEMMA LoseRefines ==
  ASSUME UNCHANGED <<sm, labelled>>, NEW n, backups' = Without(backups, {n})
  PROVE  [Lifecycle!Next]_(Lifecycle!vars)
<1> DEFINE view == [x \in DOMAIN backups |-> [migration |-> backups[x].migration,
                                              owner |-> backups[x].owner]]
<1>1. /\ DOMAIN backups' = DOMAIN backups \ {n}
      /\ \A x \in DOMAIN backups' : backups'[x] = backups[x]
  BY DEF Without, Restrict
<1>2. view' = [x \in DOMAIN view \ {n} |-> view[x]]
  BY <1>1
<1>3. CASE n \in DOMAIN backups
  <2>1. Lifecycle!Lose
    BY <1>2, <1>3 DEF Lifecycle!Lose
  <2> QED
    BY <2>1 DEF Lifecycle!Next
<1>4. CASE n \notin DOMAIN backups
  <2>1. view' = view
    BY <1>2, <1>4
  <2> QED
    BY <2>1 DEF Lifecycle!vars
<1> QED
  BY <1>3, <1>4

LEMMA WorkerRefines ==
  ASSUME IInv, Worker
  PROVE  [Lifecycle!Next]_(Lifecycle!vars)
<1>1. CASE \/ \E m \in Migrations : Reconcile(m)
           \/ DiscoverPods \/ EnsureNamespace \/ EnsureNamespacePolicy \/ EnsureCRDs
           \/ WritePolicy \/ ListOrphans \/ ListOwned \/ FinishNormal
  <2>1. UNCHANGED <<sm, backups, labelled>>
    BY <1>1 DEF Reconcile, DiscoverPods, EnsureNamespace, EnsureNamespacePolicy, EnsureCRDs,
       WritePolicy, ListOrphans, ListOwned, FinishNormal, storeVars, smVars
  <2> QED
    BY <2>1, NothingSeen
<1>2. CASE DeleteListed
  BY <1>2, LoseRefines DEF DeleteListed, smVars
<1> QED
  BY <1>1, <1>2, AddFinalizerRefines, AddLabelRefines, WriteBackupRefines,
     RemoveLabelRefines, RemoveFinalizerRefines DEF Worker

LEMMA EndForegroundRefines ==
  ASSUME IInv, NEW m \in Migrations, EndForeground(m)
  PROVE  [Lifecycle!Next]_(Lifecycle!vars)
<1> DEFINE t == IF sm[m].finalizer THEN [sm[m] EXCEPT !.held = FALSE]
                ELSE [sm[m] EXCEPT !.held = FALSE, !.phase = "gone"]
<1>1. /\ sm[m] \in Migration /\ t \in Migration /\ Store(m, t)
      /\ UNCHANGED <<backups, labelled>> /\ t.uid = sm[m].uid /\ t.spec = sm[m].spec
      /\ sm[m].phase = "deleting"
  BY DEF EndForeground, IInv, TypeOK, StoreTypeOK, Migration, Phases
<1>2. CASE sm[m].finalizer
  <2>1. Stage(t) = Stage(sm[m])
    BY <1>1, <1>2 DEF Stage, Migration
  <2> QED
    BY <1>1, <2>1, StageMoves DEF IInv
<1>3. CASE ~sm[m].finalizer
  <2>1. Stage(sm[m]) = "fading" /\ Stage(t) = "gone"
    BY <1>1, <1>3, StageIs DEF Migration
  <2>2. /\ Lifecycle!Move(m, "gone")
        /\ UNCHANGED [n \in Migrations |-> sm[n].uid]
        /\ UNCHANGED [n \in Migrations |-> {sm[n].spec.ref} \cap WorkloadRefs]
    BY <1>1, <2>1, StageMoves DEF IInv
  <2>3. \A n \in DOMAIN backups :
           backups[n].migration = m => backups[n].owner # sm[m].uid
    BY DEF EndForeground
  <2>4. Lifecycle!Fade(m)
    BY <1>1, <2>1, <2>2, <2>3 DEF Lifecycle!Fade
  <2> QED
    BY <2>4 DEF Lifecycle!Next
<1> QED
  BY <1>2, <1>3

LEMMA CreateRefines ==
  ASSUME IInv, NEW m \in Migrations, NEW spec \in Specs, CreateMigration(m, spec)
  PROVE  [Lifecycle!Next]_(Lifecycle!vars)
<1> DEFINE t == [uid |-> sm[m].uid + 1, phase |-> "live", finalizer |-> FALSE,
                 held |-> FALSE, spec |-> spec]
<1>1. /\ sm[m] \in Migration /\ t \in Migration /\ Store(m, t) /\ spec.ref \in Refs
      /\ UNCHANGED <<backups, labelled>> /\ sm[m].phase = "gone"
      /\ t.spec = spec /\ t.uid = sm[m].uid + 1
      /\ t.phase = "live" /\ ~t.finalizer
  BY WorkloadAssumption
  DEF CreateMigration, operatorVars, IInv, TypeOK, StoreTypeOK, Migration, MigrationSpec, Phases
<1> HIDE DEF t
<1>2. Stage(sm[m]) = "gone" /\ Stage(t) = "new"
  BY <1>1, StageIs
<1>3. PICK T \in {{}} \cup {{r} : r \in WorkloadRefs} : T = {spec.ref} \cap WorkloadRefs
  BY <1>1, AimsAt
<1>4. /\ Lifecycle!Move(m, "new")
      /\ [n \in Migrations |-> {sm'[n].spec.ref} \cap WorkloadRefs]
           = [[n \in Migrations |-> {sm[n].spec.ref} \cap WorkloadRefs] EXCEPT ![m] = T]
  <2>0. \A n \in Migrations : sm'[n] = IF n = m THEN t ELSE sm[n]
    BY <1>1, StorePointwise DEF IInv
  <2>1. Lifecycle!Move(m, "new")
    BY <1>2, <2>0 DEF Lifecycle!Move
  <2>2. [n \in Migrations |-> {sm'[n].spec.ref} \cap WorkloadRefs]
          = [[n \in Migrations |-> {sm[n].spec.ref} \cap WorkloadRefs] EXCEPT ![m] = T]
    <3>1. {t.spec.ref} \cap WorkloadRefs = T
      BY <1>1, <1>3
    <3> QED
      BY <2>0, <3>1
  <2> QED
    BY <2>1, <2>2
<1>5. [n \in Migrations |-> sm'[n].uid]
         = [[n \in Migrations |-> sm[n].uid] EXCEPT ![m] = @ + 1]
  BY <1>1, StoreSeen DEF IInv
<1>6. Lifecycle!Aim(m)
  BY <1>4 DEF Lifecycle!Aim
<1>7. Lifecycle!Create(m)
  BY <1>1, <1>2, <1>4, <1>5, <1>6 DEF Lifecycle!Create
<1> QED
  BY <1>7 DEF Lifecycle!Next

LEMMA EditRefines ==
  ASSUME IInv, NEW m \in Migrations, NEW spec \in Specs, EditMigration(m, spec)
  PROVE  [Lifecycle!Next]_(Lifecycle!vars)
<1> DEFINE t == [sm[m] EXCEPT !.spec = spec]
<1>1. /\ sm[m] \in Migration /\ t \in Migration /\ Store(m, t) /\ spec.ref \in Refs
      /\ UNCHANGED <<backups, labelled>> /\ sm[m].phase # "gone"
      /\ t.spec = spec /\ t.uid = sm[m].uid
  BY WorkloadAssumption
  DEF EditMigration, operatorVars, IInv, TypeOK, StoreTypeOK, Migration, MigrationSpec
<1>2. Stage(sm[m]) # "gone" /\ Stage(t) = Stage(sm[m])
  BY <1>1, StageIs DEF Stage, Migration
<1> HIDE DEF t
<1>3. PICK T \in {{}} \cup {{r} : r \in WorkloadRefs} : T = {spec.ref} \cap WorkloadRefs
  BY <1>1, AimsAt
<1>4. [n \in Migrations |-> {sm'[n].spec.ref} \cap WorkloadRefs]
        = [[n \in Migrations |-> {sm[n].spec.ref} \cap WorkloadRefs] EXCEPT ![m] = T]
  BY <1>1, <1>3, StoreSeen DEF IInv
<1>5. /\ UNCHANGED [n \in Migrations |-> Stage(sm[n])]
      /\ UNCHANGED [n \in Migrations |-> sm[n].uid]
      /\ Lifecycle!Aim(m)
  <2> \A n \in Migrations : sm'[n] = IF n = m THEN t ELSE sm[n]
    BY <1>1, StorePointwise DEF IInv
  <2>1. [n \in Migrations |-> Stage(sm'[n])] = [n \in Migrations |-> Stage(sm[n])]
    BY <1>2
  <2>2. [n \in Migrations |-> sm'[n].uid] = [n \in Migrations |-> sm[n].uid]
    BY <1>1
  <2>3. Lifecycle!Aim(m)
    BY <1>4 DEF Lifecycle!Aim
  <2> QED
    BY <2>1, <2>2, <2>3
<1>6. Lifecycle!Retarget(m)
  BY <1>1, <1>2, <1>5 DEF Lifecycle!Retarget
<1> QED
  BY <1>6 DEF Lifecycle!Next

LEMMA DeleteRefines ==
  ASSUME IInv, NEW m \in Migrations, NEW foreground \in BOOLEAN,
         DeleteMigration(m, foreground)
  PROVE  [Lifecycle!Next]_(Lifecycle!vars)
<1> DEFINE t == IF sm[m].finalizer \/ foreground
                THEN [sm[m] EXCEPT !.phase = "deleting", !.held = foreground]
                ELSE [sm[m] EXCEPT !.phase = "gone"]
<1>1. /\ sm[m] \in Migration /\ t \in Migration /\ Store(m, t)
      /\ UNCHANGED <<backups, labelled>> /\ sm[m].phase = "live"
      /\ t.spec = sm[m].spec /\ t.uid = sm[m].uid /\ t.finalizer = sm[m].finalizer
      /\ t.phase = "deleting" \/ (t.phase = "gone" /\ ~sm[m].finalizer)
  BY DEF DeleteMigration, operatorVars, IInv, TypeOK, StoreTypeOK, Migration, Phases
<1>2. \/ Stage(sm[m]) = "new" /\ Stage(t) \in {"gone", "fading"}
      \/ Stage(sm[m]) = "held" /\ Stage(t) = "leaving"
  BY <1>1, StageIs DEF Migration
<1>3. /\ Lifecycle!Move(m, Stage(t))
      /\ UNCHANGED [n \in Migrations |-> sm[n].uid]
      /\ UNCHANGED [n \in Migrations |-> {sm[n].spec.ref} \cap WorkloadRefs]
  BY <1>1, StageMoves DEF IInv
<1>4. Lifecycle!Delete(m)
  BY <1>1, <1>2, <1>3 DEF Lifecycle!Delete
<1> QED
  BY <1>4 DEF Lifecycle!Next

\* A pod target loses its label with the pod; no workload does.
LEMMA StopPodRefines ==
  ASSUME IInv, NEW place \in Places, StopPod(place)
  PROVE  [Lifecycle!Next]_(Lifecycle!vars)
<1>1. UNCHANGED <<sm, backups>>
  BY DEF StopPod, smVars, operatorVars
<1>2. \A r \in WorkloadRefs : <<Mgmt, r>> \in labelled' <=> <<Mgmt, r>> \in labelled
  BY DEF StopPod, WorkloadRefs, IsWorkload
<1> QED
  BY <1>1, <1>2 DEF Lifecycle!vars

LEMMA UsersRefine ==
  ASSUME IInv, Users
  PROVE  [Lifecycle!Next]_(Lifecycle!vars)
<1>1. CASE DeleteBackup
  BY <1>1, LoseRefines DEF DeleteBackup, smVars, operatorVars
<1>2. ASSUME NEW place \in Places, NEW image \in Images, StartPod(place, image)
      PROVE  [Lifecycle!Next]_(Lifecycle!vars)
  BY <1>2, NothingSeen DEF StartPod, storeVars, smVars
<1>3. ASSUME NEW r \in Refs, DeleteWorkload(r) PROVE [Lifecycle!Next]_(Lifecycle!vars)
  BY <1>3, UnmarkRefines DEF DeleteWorkload, smVars
<1>4. ASSUME NEW r \in Refs, CreateWorkload(r) PROVE [Lifecycle!Next]_(Lifecycle!vars)
  BY <1>4, NothingSeen DEF CreateWorkload, storeVars, smVars
<1>5. ASSUME NEW n \in Refusable, Refuse(n) PROVE [Lifecycle!Next]_(Lifecycle!vars)
  BY <1>5, NothingSeen DEF Refuse, storeVars, smVars
<1>6. CASE CreateNamespace
  BY <1>6, NothingSeen DEF CreateNamespace, smVars
<1> QED
  BY <1>1, <1>2, <1>3, <1>4, <1>5, <1>6, CreateRefines, EditRefines, DeleteRefines,
     StopPodRefines
  DEF Users

LEMMA NextLifecycle == IInv /\ [Next]_vars => [Lifecycle!Next]_(Lifecycle!vars)
<1> SUFFICES ASSUME IInv, [Next]_vars PROVE [Lifecycle!Next]_(Lifecycle!vars)
  OBVIOUS
<1>1. CASE Manager \/ RequestFails \/ Restart \/ UNCHANGED vars
  <2>1. UNCHANGED <<sm, backups, labelled>>
    BY <1>1 DEF Manager, ObserveBackups, ObserveMigration, Requeue, RequestFails, Restart,
       vars, storeVars, smVars
  <2> QED
    BY <2>1, NothingSeen
<1>2. CASE CollectBackup
  BY <1>2, LoseRefines DEF CollectBackup, smVars
<1> QED
  BY <1>1, <1>2, WorkerRefines, EndForegroundRefines, UsersRefine DEF Next, Collector

LEMMA InitLifecycle == Init => Lifecycle!Init
<1> SUFFICES ASSUME Init PROVE Lifecycle!Init
  OBVIOUS
<1>1. \A m \in Migrations : /\ sm[m].uid = 1 /\ Stage(sm[m]) = "new"
                            /\ sm[m].spec.ref \in Refs
  BY EnvironmentAssumption, WorkloadAssumption DEF Init, Stage, MigrationSpec
<1>2. \A m \in Migrations :
         {sm[m].spec.ref} \cap WorkloadRefs \in {{}} \cup {{t} : t \in WorkloadRefs}
  BY <1>1, AimsAt
<1>3. /\ DOMAIN backups = {} /\ labelled = {}
  BY DEF Init, EmptyStore
<1> QED
  BY <1>1, <1>2, <1>3 DEF Lifecycle!Init

(***************************************************************************)
(* Whatever the interleaving of the worker, its caches, users, other       *)
(* migrations, failures and restarts: a migration is adopted before a      *)
(* workload is labelled or a backup made for it, and let go only when the  *)
(* workload it targets is not labelled.                                    *)
(***************************************************************************)
THEOREM ImplementsLifecycleHolds == Spec => ImplementsLifecycle
<1>1. Spec => []IInv
  BY TypeCorrect, CopiesAlwaysLag, CleanExitHolds, PTL DEF IInv
<1> QED
  BY <1>1, InitLifecycle, NextLifecycle, PTL
  DEF Spec, ImplementsLifecycle, Lifecycle!Spec

-----------------------------------------------------------------------------
\* An object that loses the finalizer is stored without it.
LEMMA StoredWithout ==
  ASSUME IInv, NEW m \in Migrations, sm[m].finalizer, ~sm'[m].finalizer,
         NEW n \in Migrations, NEW t, Store(n, t)
  PROVE  n = m /\ ~t.finalizer
BY DEF Store, IInv, TypeOK, StoreTypeOK

\* The worker is the only one who takes the finalizer from an object.
LEMMA OnlyRemoveFinalizer ==
  ASSUME IInv, [Next]_vars, NEW m \in Migrations,
         sm[m].finalizer, ~sm'[m].finalizer
  PROVE  RemoveFinalizer
<1>1. ~ UNCHANGED sm
  OBVIOUS
<1>2. sm \in [Migrations -> Migration]
  BY DEF IInv, TypeOK, StoreTypeOK
<1>3. ~ AddFinalizer
  <2>1. AddFinalizer => key \in Migrations /\ [obj EXCEPT !.finalizer = TRUE].finalizer
    BY DEF AddFinalizer, IInv, TypeOK, JobTypeOK, Migration
  <2> QED
    BY <1>1, <2>1, StoredWithout DEF AddFinalizer, smVars
<1>4. ASSUME NEW n \in Migrations, EndForeground(n) PROVE FALSE
  <2>1. Store(n, IF sm[n].finalizer THEN [sm[n] EXCEPT !.held = FALSE]
                 ELSE [sm[n] EXCEPT !.held = FALSE, !.phase = "gone"])
    BY <1>4 DEF EndForeground
  <2> QED
    BY <1>2, <2>1, StoredWithout DEF Migration
<1>5. ASSUME NEW n \in Migrations, NEW spec \in Specs, CreateMigration(n, spec)
      PROVE  FALSE
  <2>1. n = m
    BY <1>5, StoredWithout DEF CreateMigration
  <2> QED
    BY <1>5, <2>1 DEF CreateMigration, IInv, CleanExit, NoFinalizerGone
<1>6. ASSUME NEW n \in Migrations, NEW spec \in Specs, EditMigration(n, spec)
      PROVE  FALSE
  <2>1. Store(n, [sm[n] EXCEPT !.spec = spec])
    BY <1>6 DEF EditMigration
  <2> QED
    BY <1>2, <2>1, StoredWithout DEF Migration
<1>7. ASSUME NEW n \in Migrations, NEW foreground \in BOOLEAN,
             DeleteMigration(n, foreground)
      PROVE  FALSE
  <2>1. Store(n, IF sm[n].finalizer \/ foreground
                 THEN [sm[n] EXCEPT !.phase = "deleting", !.held = foreground]
                 ELSE [sm[n] EXCEPT !.phase = "gone"])
    BY <1>7 DEF DeleteMigration
  <2>2. n = m /\ sm[n].finalizer /\ sm[m] \in Migration
    BY <1>2, <2>1, StoredWithout
  <2>3. ~[sm[m] EXCEPT !.phase = "deleting", !.held = foreground].finalizer
    BY <2>1, <2>2, StoredWithout
  <2> QED
    BY <2>2, <2>3 DEF Migration
<1>8. CASE Users
  BY <1>1, <1>5, <1>6, <1>7, <1>8
  DEF Users, DeleteBackup, StartPod, StopPod, DeleteWorkload, CreateWorkload,
      CreateNamespace, Refuse, storeVars, smVars
<1>9. CASE Worker
  BY <1>1, <1>3, <1>9
  DEF Worker, Reconcile, AddLabel, DiscoverPods, EnsureNamespace, EnsureNamespacePolicy,
      EnsureCRDs, WriteBackup, WritePolicy, ListOrphans, RemoveLabel, ListOwned, DeleteListed,
      FinishNormal, storeVars, smVars
<1>10. CASE Manager \/ RequestFails \/ Restart \/ UNCHANGED vars \/ CollectBackup
  BY <1>1, <1>10
  DEF Manager, ObserveBackups, ObserveMigration, Requeue, RequestFails, Restart, CollectBackup,
      vars, storeVars, smVars
<1> QED
  BY <1>4, <1>8, <1>9, <1>10 DEF Next, Collector

\* When it is taken, reconcileDelete has seen to the label of the target.
LEMMA ReleasedClean ==
  ASSUME IInv, [Next]_vars, NEW m \in Migrations,
         sm[m].finalizer, ~sm'[m].finalizer
  PROVE  TargetPlaces(sm[m].spec) \cap labelled' = {}
<1>1. RemoveFinalizer
  BY OnlyRemoveFinalizer
<1>2. /\ UNCHANGED labelled /\ pc = "delete" /\ obj.phase = "deleting"
      /\ key = m /\ sm[m] = obj
  BY <1>1 DEF RemoveFinalizer, Accepts, Store, smVars, IInv, TypeOK, StoreTypeOK
<1>3. TargetPlaces(obj.spec) \cap labelled = {}
  BY <1>2 DEF IInv, CleanExit, Unlabelled
<1> QED
  BY <1>2, <1>3

LEMMA InvariantHolds == Spec => []IInv
BY TypeCorrect, CopiesAlwaysLag, CleanExitHolds, PTL DEF IInv

(***************************************************************************)
(* The finalizer goes only when the target named by the stored spec is not *)
(* labelled, on the management cluster or on any listed member cluster.    *)
(***************************************************************************)
THEOREM FinalizerReleasedCleanHolds == Spec => FinalizerReleasedClean
<1>1. IInv /\ [Next]_vars =>
        [\A m \in Migrations : sm[m].finalizer /\ ~sm'[m].finalizer
             => TargetPlaces(sm[m].spec) \cap labelled' = {}]_vars
  BY ReleasedClean
<1> QED
  BY <1>1, InvariantHolds, PTL DEF Spec, FinalizerReleasedClean

=============================================================================
