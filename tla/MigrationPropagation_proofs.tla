--------------------- MODULE MigrationPropagation_proofs ---------------------
(***************************************************************************)
(* Theorems about the propagation of backups: a backup is sent to its      *)
(* cluster only once everything it needs there is set up, whichever jobs   *)
(* were cut short before.                                                  *)
(***************************************************************************)
EXTENDS MigrationBackup_proofs

\* What is set up on Karmada and on the member clusters, and sent there.
sentVars == <<policies, namespaces, nsPolicy, crds>>

\* The steps at which a job relies on what it has set up.
SetUpSteps == {"namespace", "nsPolicy", "crd", "backup", "policy"}

Sending == SetUp /\ PropagationPrepared

\* The next step of the worker relies on nothing.
LEMMA ElsewherePrepared ==
  ASSUME Sending, UNCHANGED sentVars, pc' \notin SetUpSteps
  PROVE  Sending'
BY DEF Sending, SetUp, PropagationPrepared, sentVars, SetUpSteps

\* Neither the worker nor what it relies on moves.
LEMMA QuietPrepared ==
  ASSUME Sending, UNCHANGED <<sentVars, jobVars, karmada>>
  PROVE  Sending'
BY DEF Sending, SetUp, PropagationPrepared, sentVars, jobVars

LEMMA FailPrepared ==
  ASSUME Sending, UNCHANGED sentVars, Fail
  PROVE  Sending'
BY ElsewherePrepared DEF Fail, EndJob, SetUpSteps

LEMMA DiscoverPodsPrepared ==
  ASSUME Sending, DiscoverPods
  PROVE  Sending'
<1>1. UNCHANGED sentVars
  BY DEF DiscoverPods, storeVars, sentVars
<1>2. CASE Fail
  BY <1>1, <1>2, FailPrepared
<1>3. CASE Goto("discover")
  BY <1>1, <1>3, ElsewherePrepared DEF Goto, SetUpSteps
<1>4. CASE todo' = obj.spec.clusters /\ Goto("namespace")
  BY <1>1, <1>4 DEF Goto, Sending, SetUp, PropagationPrepared, sentVars
<1> QED
  BY <1>2, <1>3, <1>4 DEF DiscoverPods

LEMMA EnsureNamespacePrepared ==
  ASSUME Sending, EnsureNamespace
  PROVE  Sending'
<1>1. /\ pc = "namespace" /\ namespaces' = namespaces \cup {Mgmt}
      /\ todo = obj.spec.clusters
      /\ UNCHANGED <<policies, nsPolicy, crds, obj, todo, karmada>>
      /\ pc' = IF karmada THEN "nsPolicy" ELSE "crd"
  BY DEF EnsureNamespace, Goto, Sending, SetUp
<1> QED
  BY <1>1 DEF Sending, SetUp, PropagationPrepared

LEMMA EnsureNamespacePolicyPrepared ==
  ASSUME TypeOK, Sending, EnsureNamespacePolicy
  PROVE  Sending'
<1>1. /\ pc = "nsPolicy" /\ Mgmt \in namespaces /\ todo = obj.spec.clusters
      /\ nsPolicy # Nil => KarmadaServer \in namespaces
      /\ UNCHANGED <<policies, namespaces, crds>>
  BY DEF EnsureNamespacePolicy, Sending, SetUp
<1>2. CASE nsPolicy = Nil /\ KarmadaServer \notin namespaces
  <2>1. Fail /\ UNCHANGED sentVars
    BY <1>1, <1>2 DEF EnsureNamespacePolicy, sentVars
  <2> QED
    BY <2>1, FailPrepared
<1>3. CASE nsPolicy # Nil \/ KarmadaServer \in namespaces
  <2>1. obj.spec.clusters \in Seq(Clusters)
    BY <1>1 DEF TypeOK, JobTypeOK, Migration, MigrationSpec
  <2>2. /\ nsPolicy' # Nil /\ KarmadaServer \in namespaces
        /\ pc' = "crd" /\ UNCHANGED <<obj, todo, karmada>>
    BY <1>1, <1>3, <2>1, RangeOfLoop, NamesAssumption DEF EnsureNamespacePolicy, Goto
  <2> QED
    BY <1>1, <2>2 DEF Sending, SetUp, PropagationPrepared
<1> QED
  BY <1>2, <1>3

LEMMA EnsureCRDsPrepared ==
  ASSUME TypeOK, Sending, EnsureCRDs
  PROVE  Sending'
<1>1. /\ pc = "crd" /\ Mgmt \in namespaces /\ (karmada => nsPolicy # Nil)
      /\ nsPolicy # Nil => KarmadaServer \in namespaces
      /\ karmada => Range(obj.spec.clusters) \subseteq crds \cup Range(todo)
      /\ UNCHANGED <<policies, namespaces, nsPolicy>>
      /\ todo \in Seq(Clusters)
  BY DEF EnsureCRDs, Sending, SetUp, TypeOK, JobTypeOK
<1>2. CASE /\ karmada /\ todo # <<>> /\ Goto("crd")
           /\ crds' = crds \cup {Head(todo)} /\ todo' = Tail(todo)
  <2>1. pc' = "crd" /\ UNCHANGED <<obj, karmada>>
    BY <1>2 DEF Goto
  <2>2. Range(todo) = {Head(todo)} \cup Range(Tail(todo))
    BY <1>1, <1>2, RangeOfLoop
  <2>3. Range(obj.spec.clusters) \subseteq crds' \cup Range(todo')
    BY <1>1, <1>2, <2>2
  <2> QED
    BY <1>1, <1>2, <2>1, <2>3 DEF Sending, SetUp, PropagationPrepared
<1>3. CASE /\ ~karmada \/ todo = <<>>
           /\ todo' = obj.spec.clusters /\ Goto("backup") /\ UNCHANGED crds
  <2>1. pc' = "backup" /\ UNCHANGED <<obj, karmada>>
    BY <1>3 DEF Goto
  <2>2. todo = <<>> => Range(todo) = {}
    BY <1>1, RangeOfLoop
  <2> QED
    BY <1>1, <1>3, <2>1, <2>2 DEF Sending, SetUp, PropagationPrepared
<1>4. CASE Goto("listOrphans") /\ UNCHANGED crds
  BY <1>1, <1>4, ElsewherePrepared DEF Goto, SetUpSteps, sentVars
<1> QED
  BY <1>2, <1>3, <1>4 DEF EnsureCRDs

LEMMA WriteBackupPrepared ==
  ASSUME Sending, WriteBackup
  PROVE  Sending'
<1>1. pc = "backup" /\ UNCHANGED sentVars
  BY DEF WriteBackup, sentVars
<1>2. CASE Fail
  BY <1>1, <1>2, FailPrepared
<1>3. CASE Goto("policy") /\ UNCHANGED todo
  BY <1>1, <1>3 DEF Goto, Sending, SetUp, PropagationPrepared, sentVars
<1> QED
  BY <1>2, <1>3 DEF WriteBackup

LEMMA WritePolicyPrepared ==
  ASSUME TypeOK, Sending, WritePolicy
  PROVE  Sending'
<1>1. /\ pc = "policy" /\ Mgmt \in namespaces /\ (karmada => nsPolicy # Nil)
      /\ nsPolicy # Nil => KarmadaServer \in namespaces
      /\ karmada => Range(todo) \subseteq crds
      /\ UNCHANGED <<namespaces, nsPolicy, crds>>
      /\ todo \in Seq(Clusters) /\ todo # <<>>
  BY DEF WritePolicy, Sending, SetUp, TypeOK, JobTypeOK
<1>2. Range(todo) = {Head(todo)} \cup Range(Tail(todo))
  BY <1>1, RangeOfLoop
<1>3. PropagationPrepared'
  <2>1. CASE karmada
    BY <1>1, <1>2, <2>1 DEF WritePolicy, Put, Sending, PropagationPrepared
  <2>2. CASE ~karmada
    BY <1>1, <2>2 DEF WritePolicy, Sending, PropagationPrepared
  <2> QED
    BY <2>1, <2>2
<1>4. SetUp'
  <2>1. CASE Goto("backup") /\ (todo' = todo \/ todo' = Tail(todo))
    BY <1>1, <1>2, <2>1 DEF Goto, SetUp
  <2>2. CASE Goto("listOrphans")
    BY <1>1, <2>2 DEF Goto, SetUp
  <2> QED
    BY <2>1, <2>2 DEF WritePolicy, NextItem
<1> QED
  BY <1>3, <1>4 DEF Sending

LEMMA WorkerPrepared ==
  ASSUME TypeOK, Sending, Worker
  PROVE  Sending'
<1>1. ASSUME UNCHANGED sentVars, pc' \notin SetUpSteps \/ Fail
      PROVE  Sending'
  BY <1>1, ElsewherePrepared, FailPrepared
<1>2. ASSUME NEW m \in Migrations, Reconcile(m)
      PROVE  Sending'
  <2>1. pc' \notin SetUpSteps
    <3>1. CASE UNCHANGED jobVars
      BY <1>2, <3>1 DEF Reconcile, jobVars, SetUpSteps
    <3>2. CASE pc' = FirstStep(smCache[m]) /\ smCache[m].phase # "gone"
      <4>1. smCache[m].phase \in {"live", "deleting"} /\ smCache[m].finalizer \in BOOLEAN
        BY <3>2 DEF TypeOK, CacheTypeOK, Migration, Phases
      <4> QED
        BY <3>2, <4>1 DEF FirstStep, SetUpSteps
    <3> QED
      BY <1>2, <3>1, <3>2 DEF Reconcile
  <2> QED
    BY <1>1, <1>2, <2>1 DEF Reconcile, storeVars, sentVars
<1>3. CASE AddFinalizer
  BY <1>1, <1>3 DEF AddFinalizer, sentVars, SetUpSteps
<1>4. CASE AddLabel
  BY <1>1, <1>4 DEF AddLabel, Goto, sentVars, SetUpSteps
<1>5. CASE ListOrphans \/ ListOwned
  BY <1>1, <1>5 DEF ListOrphans, ListOwned, Goto, storeVars, sentVars, SetUpSteps
<1>6. CASE RemoveLabel
  BY <1>1, <1>6 DEF RemoveLabel, Goto, sentVars, SetUpSteps
<1>7. CASE DeleteListed
  BY <1>1, <1>7 DEF DeleteListed, Goto, sentVars, SetUpSteps
<1>8. CASE FinishNormal
  BY <1>1, <1>8 DEF FinishNormal, EndJob, storeVars, sentVars, SetUpSteps
<1>9. CASE RemoveFinalizer
  BY <1>1, <1>9 DEF RemoveFinalizer, EndJob, sentVars, SetUpSteps
<1> QED
  BY <1>2, <1>3, <1>4, <1>5, <1>6, <1>7, <1>8, <1>9, DiscoverPodsPrepared,
     EnsureNamespacePrepared, EnsureNamespacePolicyPrepared, EnsureCRDsPrepared,
     WriteBackupPrepared, WritePolicyPrepared DEF Worker

LEMMA OthersPrepared ==
  ASSUME Sending, Manager \/ Collector \/ Users \/ RequestFails \/ Restart
  PROVE  Sending'
<1>1. ASSUME UNCHANGED <<sentVars, jobVars, karmada>>
      PROVE  Sending'
  BY <1>1, QuietPrepared
<1>2. CASE ObserveBackups
  BY <1>1, <1>2 DEF ObserveBackups, storeVars, sentVars
<1>3. ASSUME NEW m \in Migrations, ObserveMigration(m) \/ Requeue(m) PROVE Sending'
  BY <1>1, <1>3 DEF ObserveMigration, Requeue, storeVars, sentVars
<1>4. CASE CollectBackup
  BY <1>1, <1>4 DEF CollectBackup, sentVars
<1>5. ASSUME NEW m \in Migrations, EndForeground(m) PROVE Sending'
  BY <1>1, <1>5 DEF EndForeground, sentVars
<1>6. CASE Users
  <2>1. CASE CreateNamespace
    <3>1. /\ namespaces' = namespaces \cup {KarmadaServer}
          /\ UNCHANGED <<policies, nsPolicy, crds, jobVars, karmada>>
      BY <2>1 DEF CreateNamespace, operatorVars
    <3> QED
      BY <3>1 DEF Sending, SetUp, PropagationPrepared, jobVars
  <2>2. CASE ~CreateNamespace
    <3>1. UNCHANGED <<sentVars, operatorVars>>
      BY <1>6, <2>2 DEF Users, CreateMigration, EditMigration, DeleteMigration,
         DeleteBackup, StartPod, StopPod, DeleteWorkload, CreateWorkload, Refuse,
         storeVars, sentVars
    <3> QED
      BY <1>1, <3>1 DEF operatorVars
  <2> QED
    BY <2>1, <2>2
<1>7. CASE RequestFails
  BY <1>7, FailPrepared DEF RequestFails, storeVars, sentVars
<1>8. CASE Restart
  BY <1>8, ElsewherePrepared DEF Restart, EndJob, sentVars, SetUpSteps
<1> QED
  BY <1>2, <1>3, <1>4, <1>5, <1>6, <1>7, <1>8 DEF Manager, Collector

LEMMA NextPrepared == TypeOK /\ Sending /\ [Next]_vars => Sending'
<1> SUFFICES ASSUME TypeOK, Sending, [Next]_vars PROVE Sending'
  OBVIOUS
<1>1. CASE Next
  BY <1>1, WorkerPrepared, OthersPrepared DEF Next
<1>2. CASE UNCHANGED vars
  BY <1>2, QuietPrepared DEF vars, storeVars, sentVars
<1> QED
  BY <1>1, <1>2

LEMMA SendingHolds == Spec => []Sending
<1>1. Init => Sending
  BY DEF Init, Sending, SetUp, PropagationPrepared, EmptyStore
<1> QED
  BY <1>1, InitType, NextType, NextPrepared, PTL DEF Spec

(***************************************************************************)
(* A backup is sent to a cluster only after the cluster has the CRD, and   *)
(* Karmada's API server, be it the manager's or another, has the namespace *)
(* and a policy for it: by whatever job that found part of it done, for    *)
(* any number of clusters, with and without a Karmada client.              *)
(***************************************************************************)
THEOREM PropagationPreparedHolds == Spec => []PropagationPrepared
BY SendingHolds, PTL DEF Sending

=============================================================================
