------------------------ MODULE BackupContents_proofs ------------------------
(***************************************************************************)
(* Theorems about what CheckpointBackups say: where names are unique, a    *)
(* backup describes one pod and one cluster, and the worker deletes only   *)
(* backups of the migration it works on.                                   *)
(***************************************************************************)
EXTENDS MigrationLifecycle_proofs, MigrationPropagation_proofs

-----------------------------------------------------------------------------
(***************************************************************************)
(* Names.                                                                  *)
(***************************************************************************)

LEMMA NameParts ==
  ASSUME NEW m \in Migrations, NEW p \in Pods, NEW c \in Clusters
  PROVE  /\ m \in Seq(STRING) /\ p \in Seq(STRING) /\ c \in Seq(STRING)
         /\ m \o p \in Seq(STRING)
         /\ BackupName(m, p, c) \in Seq(STRING)
BY NamesAssumption, ConcatProperties DEF BackupName

\* The dashes of two names are at the same places if their parts are as long.
LEMMA NamesCut ==
  ASSUME NEW S, Migrations \cup Pods \cup Clusters \subseteq Seq(S),
         \A m1, m2 \in Migrations : Len(m1) = Len(m2),
         \A p1, p2 \in Pods : Len(p1) = Len(p2)
  PROVE  UniqueNames
<1> SUFFICES ASSUME NEW m1 \in Migrations, NEW m2 \in Migrations,
                    NEW p1 \in Pods, NEW p2 \in Pods,
                    NEW c1 \in Clusters, NEW c2 \in Clusters,
                    BackupName(m1, p1, c1) = BackupName(m2, p2, c2)
             PROVE  m1 = m2 /\ p1 = p2 /\ c1 = c2
  BY DEF UniqueNames
<1>1. /\ m1 \in Seq(S) /\ p1 \in Seq(S) /\ c1 \in Seq(S)
      /\ m2 \in Seq(S) /\ p2 \in Seq(S) /\ c2 \in Seq(S)
  OBVIOUS
<1>2. Len(m1) = Len(m2) /\ Len(p1) = Len(p2)
  OBVIOUS
<1>3. (m1 \o p1) \o c1 = (m2 \o p2) \o c2
  BY DEF BackupName
<1>4. SameCut(m1, p1, c1, m2, p2, c2)
  BY <1>1, CutTwice
<1> QED
  BY <1>2, <1>3, <1>4 DEF SameCut

(***************************************************************************)
(* Names are unique where migrations are named by as many dash-free parts  *)
(* as each other, and so are pods: dashes are then at the same places.     *)
(***************************************************************************)
THEOREM EqualPartsUniqueNames ==
  ASSUME \A m1, m2 \in Migrations : Len(m1) = Len(m2),
         \A p1, p2 \in Pods : Len(p1) = Len(p2)
  PROVE  UniqueNames
BY NamesCut, NamesAssumption, Zenon

\* Two backups do not share a policy.
LEMMA PolicyOfOne ==
  ASSUME NEW n1 \in BackupNames, NEW n2 \in BackupNames,
         PolicyName(n1) = PolicyName(n2)
  PROVE  n1 = n2
<1>1. n1 \in Seq(STRING) /\ n2 \in Seq(STRING)
  BY NameParts DEF BackupNames
<1> QED
  BY <1>1, AppendInjective DEF PolicyName

-----------------------------------------------------------------------------
(***************************************************************************)
(* Pods.  A job finds pods of its target only.                             *)
(***************************************************************************)
LEMMA ListSelected ==
  ASSUME NEW l, NEW ref, NEW list \in PodLists(l, ref), NEW q \in Range(list)
  PROVE  q.pod \in Selects[ref]
<1> DEFINE S == {[pod |-> p, image |-> pods[<<l, p>>]] : p \in PodsAt(l, ref)}
<1>1. list \in [1..Cardinality(S) -> S]
  BY DEF PodLists, SetToSeqs
<1>2. q \in S
  BY <1>1 DEF Range
<1>3. PICK p \in PodsAt(l, ref) : q = [pod |-> p, image |-> pods[<<l, p>>]]
  BY <1>2
<1> QED
  BY <1>3 DEF PodsAt

\* The worker moves on to another step of the same job, or to the first.
LEMMA GoOnSelected ==
  ASSUME PodsSelected, pc # "idle", pc' # "idle", obj'.spec = obj.spec,
         \A q \in Range(found') \cup Range(items') :
            q \in Range(found) \cup Range(items) \/ q.pod \in Selects[obj.spec.ref]
  PROVE  PodsSelected'
BY DEF PodsSelected

LEMMA EndJobSelected ==
  ASSUME EndJob
  PROVE  PodsSelected'
BY DEF EndJob, PodsSelected

LEMMA FailSelected ==
  ASSUME Fail
  PROVE  PodsSelected'
BY EndJobSelected DEF Fail

LEMMA ReconcileSelected ==
  ASSUME PodsSelected, NEW m \in Migrations, Reconcile(m)
  PROVE  PodsSelected'
<1>1. found = <<>> /\ items = <<>> /\ found' = <<>> /\ items' = <<>>
  BY DEF Reconcile, PodsSelected, jobVars
<1>2. Range(<<>>) = {}
  BY DEF Range
<1> QED
  BY <1>1, <1>2 DEF PodsSelected

LEMMA DiscoverPodsSelected ==
  ASSUME TypeOK, PodsSelected, DiscoverPods
  PROVE  PodsSelected'
<1> DEFINE ref == obj.spec.ref
<1>1. pc = "discover" /\ found \in Seq(PodInfo) /\ ref \in Refs
  BY DEF DiscoverPods, TypeOK, JobTypeOK, Migration, MigrationSpec
<1>2. CASE Fail
  BY <1>2, FailSelected
<1>3. CASE found' \in PodLists(Mgmt, ref) /\ Goto("namespace") /\ UNCHANGED items
  <2>1. \A q \in Range(found') : q.pod \in Selects[ref]
    BY <1>3, ListSelected
  <2> QED
    BY <1>1, <1>3, <2>1, GoOnSelected DEF Goto
<1>4. ASSUME NEW s \in PodLists(Head(todo), ref), found' = found \o s,
             Goto("discover"), UNCHANGED items
      PROVE  PodsSelected'
  <2>1. s \in Seq(PodInfo)
    BY <1>1, PodListsType DEF TypeOK
  <2>2. Range(found') = Range(found) \cup Range(s)
    BY <1>1, <1>4, <2>1, RangeOfConcat
  <2>3. \A q \in Range(s) : q.pod \in Selects[ref]
    BY ListSelected
  <2> QED
    BY <1>1, <1>4, <2>2, <2>3, GoOnSelected DEF Goto
<1>5. CASE Goto("namespace") /\ UNCHANGED <<found, items>>
  BY <1>1, <1>5, GoOnSelected DEF Goto
<1> QED
  BY <1>2, <1>3, <1>4, <1>5 DEF DiscoverPods

LEMMA WorkerSelected ==
  ASSUME TypeOK, PodsSelected, Worker
  PROVE  PodsSelected'
<1>1. ASSUME pc # "idle", Fail \/ EndJob \/ \E s \in Steps \ {"idle"} : Goto(s),
             ~(Fail \/ EndJob) => Range(found') \cup Range(items')
                                     \subseteq Range(found) \cup Range(items)
      PROVE  PodsSelected'
  <2>1. CASE Fail \/ EndJob
    BY <2>1, FailSelected, EndJobSelected
  <2>2. CASE ~(Fail \/ EndJob)
    <3>1. pc' # "idle" /\ obj' = obj
      BY <1>1, <2>2 DEF Goto
    <3> QED
      BY <1>1, <2>2, <3>1, GoOnSelected
  <2> QED
    BY <2>1, <2>2
<1>2. CASE AddFinalizer
  <2>1. CASE Fail
    BY <2>1, FailSelected
  <2>2. CASE obj' = [obj EXCEPT !.finalizer = TRUE] /\ pc' = "label"
             /\ UNCHANGED <<found, items>>
    <3>1. pc # "idle" /\ obj'.spec = obj.spec
      BY <1>2, <2>2 DEF AddFinalizer, TypeOK, JobTypeOK, Migration
    <3> QED
      BY <2>2, <3>1, GoOnSelected
  <2> QED
    BY <1>2, <2>1, <2>2 DEF AddFinalizer
<1>3. CASE AddLabel
  BY <1>1, <1>3 DEF AddLabel, Steps, NormalSteps
<1>4. CASE EnsureNamespace
  BY <1>1, <1>4 DEF EnsureNamespace, Steps, NormalSteps
<1>5. CASE EnsureNamespacePolicy
  BY <1>1, <1>5 DEF EnsureNamespacePolicy, Steps, NormalSteps
<1>6. CASE EnsureCRDs
  BY <1>1, <1>6 DEF EnsureCRDs, Steps, NormalSteps
<1>7. CASE WriteBackup
  BY <1>1, <1>7 DEF WriteBackup, Steps, NormalSteps
<1>8. CASE WritePolicy
  <2>1. pc = "policy" /\ items \in Seq(PodInfo) /\ items # <<>> /\ found' = found
    BY <1>8 DEF WritePolicy, TypeOK, JobTypeOK
  <2>2. Range(items) = {Head(items)} \cup Range(Tail(items))
    BY <2>1, RangeOfLoop
  <2>3. Range(<<>>) = {}
    BY DEF Range
  <2>4. \/ items' = Tail(items) /\ Goto("backup")
        \/ items' = found /\ Goto("backup")
        \/ items' = <<>> /\ Goto("listOrphans")
    BY <1>8 DEF WritePolicy, NextItem
  <2>5. Range(items') \subseteq Range(found) \cup Range(items)
    BY <2>2, <2>3, <2>4
  <2> QED
    BY <1>1, <2>1, <2>4, <2>5 DEF Steps, NormalSteps
<1>9. CASE ListOrphans \/ ListOwned \/ DeleteListed
  BY <1>1, <1>9 DEF ListOrphans, ListOwned, DeleteListed, Steps
<1>10. CASE RemoveLabel
  BY <1>1, <1>10 DEF RemoveLabel, Steps, DeleteSteps
<1>11. CASE FinishNormal \/ RemoveFinalizer
  BY <1>1, <1>11 DEF FinishNormal, RemoveFinalizer
<1> QED
  BY <1>2, <1>3, <1>4, <1>5, <1>6, <1>7, <1>8, <1>9, <1>10, <1>11,
     ReconcileSelected, DiscoverPodsSelected DEF Worker

LEMMA NextSelected == TypeOK /\ PodsSelected /\ [Next]_vars => PodsSelected'
<1> SUFFICES ASSUME TypeOK, PodsSelected, [Next]_vars PROVE PodsSelected'
  OBVIOUS
<1>1. ASSUME UNCHANGED jobVars PROVE PodsSelected'
  BY <1>1 DEF PodsSelected, jobVars
<1>2. CASE Manager
  BY <1>1, <1>2 DEF Manager, ObserveBackups, ObserveMigration, Requeue
<1>3. CASE Collector
  BY <1>1, <1>3 DEF Collector, CollectBackup, EndForeground
<1>4. CASE Users
  BY <1>1, <1>4 DEF Users, CreateMigration, EditMigration, DeleteMigration,
     DeleteBackup, StartPod, StopPod, DeleteWorkload, CreateWorkload, CreateNamespace, Refuse, operatorVars
<1>5. CASE RequestFails \/ Restart
  BY <1>5, FailSelected, EndJobSelected DEF RequestFails, Restart
<1>6. CASE UNCHANGED vars
  BY <1>1, <1>6 DEF vars
<1> QED
  BY <1>2, <1>3, <1>4, <1>5, <1>6, WorkerSelected DEF Next

LEMMA SelectedHolds == Spec => []PodsSelected
<1>1. Init => PodsSelected
  BY DEF Init, PodsSelected
<1> QED
  BY <1>1, InitType, NextType, NextSelected, PTL DEF Spec

-----------------------------------------------------------------------------
(***************************************************************************)
(* Backups.  Only WriteBackup writes one, only WritePolicy a policy, and   *)
(* the cache takes over what is stored.                                    *)
(***************************************************************************)
Described ==
  \A n \in DOMAIN backups :
     /\ n = BackupName(backups[n].migration, backups[n].pod, backups[n].cluster)
     /\ backups[n].spec.podRef = backups[n].pod
     /\ backups[n].pod \in Selects[backups[n].spec.ref]

LEMMA WorkerWritesBackups ==
  ASSUME Worker
  PROVE  WriteBackup \/ DeleteListed \/ UNCHANGED backups
BY DEF Worker, Reconcile, AddFinalizer, AddLabel, DiscoverPods, EnsureNamespace,
   EnsureNamespacePolicy, EnsureCRDs, WritePolicy, ListOrphans, RemoveLabel,
   ListOwned, FinishNormal, RemoveFinalizer, storeVars

LEMMA BackupsWritten ==
  ASSUME [Next]_vars
  PROVE  \/ UNCHANGED backups
         \/ WriteBackup
         \/ \E n \in DOMAIN backups \cup victims : backups' = Without(backups, {n})
<1>1. CASE Manager \/ RequestFails \/ Restart
  BY <1>1 DEF Manager, ObserveBackups, ObserveMigration, Requeue, RequestFails,
     Restart, storeVars
<1>2. CASE Collector
  BY <1>2 DEF Collector, CollectBackup, EndForeground
<1>3. CASE Users
  BY <1>3 DEF Users, CreateMigration, EditMigration, DeleteMigration, DeleteBackup,
     StartPod, StopPod, DeleteWorkload, CreateWorkload, CreateNamespace, Refuse, storeVars
<1>4. CASE UNCHANGED vars
  BY <1>4 DEF vars, storeVars
<1> QED
  BY <1>1, <1>2, <1>3, <1>4, WorkerWritesBackups DEF Next, DeleteListed

LEMMA PoliciesWritten ==
  ASSUME [Next]_vars
  PROVE  WritePolicy \/ UNCHANGED policies
<1>1. CASE Worker
  BY <1>1 DEF Worker, Reconcile, AddFinalizer, AddLabel, DiscoverPods, EnsureNamespace,
     EnsureNamespacePolicy, EnsureCRDs, WriteBackup, ListOrphans, RemoveLabel,
     ListOwned, DeleteListed, FinishNormal, RemoveFinalizer, storeVars
<1>2. CASE Manager \/ Collector \/ RequestFails \/ Restart
  BY <1>2 DEF Manager, ObserveBackups, ObserveMigration, Requeue, Collector,
     CollectBackup, EndForeground, RequestFails, Restart, storeVars
<1>3. CASE Users
  BY <1>3 DEF Users, CreateMigration, EditMigration, DeleteMigration, DeleteBackup,
     StartPod, StopPod, DeleteWorkload, CreateWorkload, CreateNamespace, Refuse, storeVars
<1>4. CASE UNCHANGED vars
  BY <1>4 DEF vars, storeVars
<1> QED
  BY <1>1, <1>2, <1>3, <1>4 DEF Next

LEMMA CacheWritten ==
  ASSUME [Next]_vars
  PROVE  UNCHANGED backupCache \/ backupCache' = backups
<1>1. CASE Worker
  BY <1>1 DEF Worker, Reconcile, AddFinalizer, AddLabel, DiscoverPods, EnsureNamespace,
     EnsureNamespacePolicy, EnsureCRDs, WriteBackup, WritePolicy, ListOrphans,
     RemoveLabel, ListOwned, DeleteListed, FinishNormal, RemoveFinalizer, cacheVars
<1>2. CASE Manager \/ Collector \/ RequestFails \/ Restart
  BY <1>2 DEF Manager, ObserveBackups, ObserveMigration, Requeue, Collector,
     CollectBackup, EndForeground, RequestFails, Restart, StartManager, cacheVars
<1>3. CASE Users
  BY <1>3 DEF Users, CreateMigration, EditMigration, DeleteMigration, DeleteBackup,
     StartPod, StopPod, DeleteWorkload, CreateWorkload, CreateNamespace, Refuse, operatorVars, cacheVars
<1>4. CASE UNCHANGED vars
  BY <1>4 DEF vars, cacheVars
<1> QED
  BY <1>1, <1>2, <1>3, <1>4 DEF Next

\* What a job has in hand while it writes a backup and its policy.
LEMMA ItemInHand ==
  ASSUME TypeOK, PodsSelected, pc \in {"backup", "policy"}
  PROVE  /\ key \in Migrations /\ obj \in Migration
         /\ Head(items).pod \in Pods /\ Head(todo) \in Clusters
         /\ Head(items).pod \in Selects[obj.spec.ref]
<1>1. /\ key \in Migrations /\ obj \in Migration
      /\ items \in Seq(PodInfo) /\ items # <<>> /\ todo \in Seq(Clusters) /\ todo # <<>>
  BY DEF TypeOK, JobTypeOK
<1>2. Head(items) \in PodInfo /\ Head(items) \in Range(items) /\ Head(todo) \in Clusters
  BY <1>1, RangeOfLoop
<1> QED
  BY <1>1, <1>2 DEF PodsSelected, PodInfo

LEMMA WriteBackupDescribes ==
  ASSUME UniqueNames, TypeOK, PodsSelected, Described, WriteBackup
  PROVE  Described'
<1>1. /\ key \in Migrations /\ Head(items).pod \in Pods /\ Head(todo) \in Clusters
      /\ Head(items).pod \in Selects[obj.spec.ref]
  BY ItemInHand DEF WriteBackup
<1>2. CASE UNCHANGED backups
  BY <1>2 DEF Described
<1>3. CASE backups' = Put(backups, ItemName,
             [migration |-> key, pod |-> Head(items).pod,
              cluster |-> Head(todo), owner |-> OwnerUid(obj),
              spec |-> DesiredSpec])
  BY <1>1, <1>3 DEF Described, Put, ItemName, DesiredSpec
<1>4. CASE /\ ItemName \in DOMAIN backups
           /\ backups' = [backups EXCEPT ![ItemName].spec = DesiredSpec]
  <2> DEFINE b == backups[ItemName]
  <2>1. /\ b.migration \in Migrations /\ b.pod \in Pods /\ b.cluster \in Clusters
        /\ b \in Backup
    BY <1>4 DEF TypeOK, StoreTypeOK, Backup
  <2>2. BackupName(b.migration, b.pod, b.cluster)
           = BackupName(key, Head(items).pod, Head(todo))
    BY <1>4 DEF Described, ItemName
  <2>3. b.pod = Head(items).pod
    BY <1>1, <2>1, <2>2 DEF UniqueNames
  <2>4. /\ DOMAIN backups' = DOMAIN backups
        /\ \A n \in DOMAIN backups : n # ItemName => backups'[n] = backups[n]
        /\ backups'[ItemName] = [b EXCEPT !.spec = DesiredSpec]
    BY <1>4
  <2>5. /\ backups'[ItemName].migration = b.migration
        /\ backups'[ItemName].pod = b.pod
        /\ backups'[ItemName].cluster = b.cluster
        /\ backups'[ItemName].spec.podRef = Head(items).pod
        /\ backups'[ItemName].spec.ref = obj.spec.ref
    BY <2>1, <2>4 DEF Backup, DesiredSpec
  <2>6. ItemName = BackupName(b.migration, b.pod, b.cluster)
    BY <1>4 DEF Described
  <2> SUFFICES ASSUME NEW n \in DOMAIN backups
               PROVE  /\ n = BackupName(backups'[n].migration, backups'[n].pod,
                                        backups'[n].cluster)
                      /\ backups'[n].spec.podRef = backups'[n].pod
                      /\ backups'[n].pod \in Selects[backups'[n].spec.ref]
    BY <2>4 DEF Described
  <2>7. CASE n # ItemName
    BY <2>4, <2>7 DEF Described
  <2>8. CASE n = ItemName
    <3>1. n = BackupName(backups'[n].migration, backups'[n].pod, backups'[n].cluster)
      BY <2>5, <2>6, <2>8
    <3> QED
      BY <1>1, <2>3, <2>5, <2>8, <3>1
  <2> QED
    BY <2>7, <2>8
<1> QED
  BY <1>2, <1>3, <1>4 DEF WriteBackup

LEMMA WritePolicyNames ==
  ASSUME UniqueNames, TypeOK, PodsSelected, PoliciesNamed, WritePolicy
  PROVE  PoliciesNamed'
<1>1. key \in Migrations /\ Head(items).pod \in Pods /\ Head(todo) \in Clusters
  BY ItemInHand DEF WritePolicy
<1>2. CASE policies' = policies
  BY <1>2 DEF PoliciesNamed
<1>3. CASE policies' = Put(policies, PolicyName(ItemName), Head(todo))
  <2> SUFFICES ASSUME NEW m \in Migrations, NEW p \in Pods, NEW c \in Clusters,
                      PolicyName(BackupName(m, p, c)) \in DOMAIN policies'
               PROVE  policies'[PolicyName(BackupName(m, p, c))] = c
    BY DEF PoliciesNamed
  <2>1. CASE PolicyName(BackupName(m, p, c)) = PolicyName(ItemName)
    <3>1. BackupName(m, p, c) = BackupName(key, Head(items).pod, Head(todo))
      BY <1>1, <2>1, PolicyOfOne DEF ItemName, BackupNames
    <3>2. c = Head(todo)
      BY <1>1, <3>1 DEF UniqueNames
    <3> QED
      BY <1>3, <2>1, <3>2 DEF Put
  <2>2. CASE PolicyName(BackupName(m, p, c)) # PolicyName(ItemName)
    BY <1>3, <2>2 DEF Put, PoliciesNamed
  <2> QED
    BY <2>1, <2>2
<1> QED
  BY <1>2, <1>3 DEF WritePolicy

Contents == Described /\ PoliciesNamed /\ CachedNamed

LEMMA NextContents ==
  ASSUME UniqueNames, TypeOK, PodsSelected, Contents, [Next]_vars
  PROVE  Contents'
<1>1. Described'
  <2>1. CASE UNCHANGED backups
    BY <2>1 DEF Described, Contents
  <2>2. CASE WriteBackup
    BY <2>2, WriteBackupDescribes DEF Contents
  <2>3. ASSUME NEW n, backups' = Without(backups, {n}) PROVE Described'
    BY <2>3 DEF Without, Restrict, Described, Contents
  <2> QED
    BY <2>1, <2>2, <2>3, BackupsWritten
<1>2. PoliciesNamed'
  <2>1. CASE UNCHANGED policies
    BY <2>1 DEF PoliciesNamed, Contents
  <2> QED
    BY <2>1, WritePolicyNames, PoliciesWritten DEF Contents
<1>3. CachedNamed'
  BY CacheWritten DEF CachedNamed, Described, Contents
<1> QED
  BY <1>1, <1>2, <1>3 DEF Contents

LEMMA ContentsHold ==
  ASSUME UniqueNames
  PROVE  Spec => []Contents
<1>1. Init => Contents
  BY DEF Init, Contents, Described, PoliciesNamed, CachedNamed, EmptyStore
<1>2. TypeOK /\ PodsSelected /\ Contents /\ [Next]_vars => Contents'
  BY NextContents
<1> QED
  BY <1>1, <1>2, TypeCorrect, SelectedHolds, PTL DEF Spec

(***************************************************************************)
(* The name, the labels, the spec and the policy of a backup agree, for    *)
(* all names, numbers of pods and clusters and orders of steps, as long as *)
(* names are unique.                                                       *)
(***************************************************************************)
THEOREM BackupDescribesItsPodHolds ==
  ASSUME UniqueNames
  PROVE  Spec => []BackupDescribesItsPod
<1>1. TypeOK /\ Contents => BackupDescribesItsPod
  <2> SUFFICES ASSUME TypeOK, Contents, NEW n \in DOMAIN backups
               PROVE  Coherent(n, backups[n])
    BY DEF BackupDescribesItsPod
  <2>1. /\ backups[n].migration \in Migrations /\ backups[n].pod \in Pods
        /\ backups[n].cluster \in Clusters
    BY DEF TypeOK, StoreTypeOK, Backup
  <2>2. n = BackupName(backups[n].migration, backups[n].pod, backups[n].cluster)
    BY DEF Contents, Described
  <2>3. PolicyName(n) \in DOMAIN policies => policies[PolicyName(n)] = backups[n].cluster
    BY <2>1, <2>2 DEF Contents, PoliciesNamed
  <2> QED
    BY <2>2, <2>3 DEF Contents, Described, Coherent
<1> QED
  BY <1>1, TypeCorrect, ContentsHold, PTL

-----------------------------------------------------------------------------
(***************************************************************************)
(* Deletions.  The list a job deletes from has been read out of the cache  *)
(* under the job's key; its names say whose backups they are.              *)
(***************************************************************************)
LEMMA ListOrphansOwn ==
  ASSUME TypeOK, Contents, ListOrphans
  PROVE  VictimsOwn'
<1>1. key' = key /\ obj' = obj /\ found' = found /\ victims' = Orphans
  BY DEF ListOrphans, Goto
<1> SUFFICES ASSUME NEW n \in Orphans
             PROVE  \E p \in Pods, c \in Clusters :
                       n = BackupName(key, p, c) /\ p \notin FoundPods
  BY <1>1 DEF VictimsOwn, FoundPods
<1> DEFINE b == backupCache[n]
<1>2. n \in DOMAIN backupCache /\ b.migration = key /\ b.pod \notin FoundPods
  BY DEF Orphans, Listed
<1>3. b.pod \in Pods /\ b.cluster \in Clusters
  BY <1>2 DEF TypeOK, CacheTypeOK, Backup
<1>4. n = BackupName(key, b.pod, b.cluster)
  BY <1>2 DEF Contents, CachedNamed
<1> QED
  BY <1>2, <1>3, <1>4

LEMMA ListOwnedOwn ==
  ASSUME TypeOK, JobPhase, Contents, ListOwned
  PROVE  VictimsOwn'
<1>1. /\ key' = key /\ obj' = obj /\ found' = found /\ victims' = Listed(key)
      /\ obj.phase = "deleting"
  BY DEF ListOwned, Goto, JobPhase, DeleteSteps
<1> SUFFICES ASSUME NEW n \in Listed(key)
             PROVE  \E p \in Pods, c \in Clusters : n = BackupName(key, p, c)
  BY <1>1 DEF VictimsOwn
<1> DEFINE b == backupCache[n]
<1>2. n \in DOMAIN backupCache /\ b.migration = key
  BY DEF Listed
<1>3. b.pod \in Pods /\ b.cluster \in Clusters
  BY <1>2 DEF TypeOK, CacheTypeOK, Backup
<1>4. n = BackupName(key, b.pod, b.cluster)
  BY <1>2 DEF Contents, CachedNamed
<1> QED
  BY <1>3, <1>4

LEMMA WorkerVictims ==
  ASSUME TypeOK, JobPhase, Contents, VictimsOwn, Worker
  PROVE  VictimsOwn'
<1>1. ASSUME pc' # "delete" PROVE VictimsOwn'
  BY <1>1 DEF VictimsOwn
<1>2. ASSUME EndJob \/ Fail PROVE pc' # "delete"
  BY <1>2 DEF EndJob, Fail
<1>3. ASSUME NEW m \in Migrations, Reconcile(m) PROVE VictimsOwn'
  <2>1. smCache[m].phase # "gone" => FirstStep(smCache[m]) # "delete"
    BY DEF TypeOK, CacheTypeOK, Migration, Phases, FirstStep
  <2> QED
    BY <1>1, <1>3, <2>1 DEF Reconcile, jobVars
<1>4. CASE AddFinalizer \/ AddLabel \/ DiscoverPods \/ EnsureNamespace
  BY <1>1, <1>2, <1>4 DEF AddFinalizer, AddLabel, DiscoverPods, EnsureNamespace, Goto
<1>5. CASE EnsureNamespacePolicy \/ EnsureCRDs \/ WriteBackup \/ WritePolicy
  BY <1>1, <1>2, <1>5 DEF EnsureNamespacePolicy, EnsureCRDs, WriteBackup, WritePolicy,
     NextItem, Goto
<1>6. CASE RemoveLabel
  BY <1>1, <1>2, <1>6 DEF RemoveLabel, Goto
<1>7. CASE DeleteListed
  BY <1>7 DEF DeleteListed, Goto, VictimsOwn, FoundPods
<1>8. CASE FinishNormal \/ RemoveFinalizer
  BY <1>1, <1>2, <1>8 DEF FinishNormal, RemoveFinalizer
<1> QED
  BY <1>3, <1>4, <1>5, <1>6, <1>7, <1>8, ListOrphansOwn, ListOwnedOwn DEF Worker

LEMMA NextVictims ==
  ASSUME TypeOK, JobPhase, Contents, VictimsOwn, [Next]_vars
  PROVE  VictimsOwn'
<1>1. ASSUME UNCHANGED jobVars PROVE VictimsOwn'
  BY <1>1 DEF VictimsOwn, FoundPods, jobVars
<1>2. CASE Manager \/ Collector
  BY <1>1, <1>2 DEF Manager, ObserveBackups, ObserveMigration, Requeue, Collector,
     CollectBackup, EndForeground
<1>3. CASE Users
  BY <1>1, <1>3 DEF Users, CreateMigration, EditMigration, DeleteMigration,
     DeleteBackup, StartPod, StopPod, DeleteWorkload, CreateWorkload, CreateNamespace, Refuse, operatorVars
<1>4. CASE RequestFails \/ Restart
  BY <1>4 DEF RequestFails, Restart, Fail, EndJob, VictimsOwn
<1>5. CASE UNCHANGED vars
  BY <1>1, <1>5 DEF vars
<1> QED
  BY <1>2, <1>3, <1>4, <1>5, WorkerVictims DEF Next

(***************************************************************************)
(* Owners.  An owner reference is written from the job's copy, the copy is *)
(* taken from the cache, and uids in the cache only grow.                  *)
(***************************************************************************)
LEMMA CacheGrows ==
  ASSUME TypeOK, CopiesLag, [Next]_vars, NEW m \in Migrations
  PROVE  smCache[m].uid <= smCache'[m].uid
<1>0. smCache[m].uid \in Nat
  BY DEF TypeOK, CacheTypeOK, Migration
<1>1. ASSUME UNCHANGED smCache PROVE smCache[m].uid <= smCache'[m].uid
  BY <1>0, <1>1
<1>2. ASSUME NEW n \in Migrations, ObserveMigration(n)
      PROVE  smCache[m].uid <= smCache'[m].uid
  <2>1. /\ events[n] \in Seq(Migration) /\ events[n] # <<>>
        /\ smCache \in [Migrations -> Migration]
        /\ smCache' = [smCache EXCEPT ![n] = Head(events[n])]
    BY <1>2 DEF ObserveMigration, TypeOK, StoreTypeOK, CacheTypeOK
  <2>2. Len(events[n]) \in Nat /\ 1 \in 1..Len(events[n]) /\ Head(events[n]) = events[n][1]
    BY <2>1, HeadTailProperties, LenProperties, EmptySeq
  <2>3. smCache[n].uid <= Head(events[n]).uid
    BY <2>2 DEF CopiesLag, CacheLags, Behind
  <2> QED
    BY <1>0, <2>1, <2>3
<1>3. CASE Restart
  <2>1. smCache' = sm /\ Behind(smCache[m], sm[m])
    BY <1>3 DEF Restart, StartManager, CopiesLag, CacheLags
  <2> QED
    BY <2>1 DEF Behind
<1>4. CASE Worker
  BY <1>1, <1>4 DEF Worker, Reconcile, AddFinalizer, AddLabel, DiscoverPods,
     EnsureNamespace, EnsureNamespacePolicy, EnsureCRDs, WriteBackup, WritePolicy,
     ListOrphans, RemoveLabel, ListOwned, DeleteListed, FinishNormal, RemoveFinalizer,
     cacheVars
<1>5. CASE Collector \/ RequestFails
  BY <1>1, <1>5 DEF Collector, CollectBackup, EndForeground, RequestFails, cacheVars
<1>6. CASE Users
  BY <1>1, <1>6 DEF Users, CreateMigration, EditMigration, DeleteMigration, DeleteBackup,
     StartPod, StopPod, DeleteWorkload, CreateWorkload, CreateNamespace, Refuse, operatorVars, cacheVars
<1>7. CASE Manager
  <2>1. CASE ObserveBackups
    BY <1>1, <2>1 DEF ObserveBackups
  <2>2. ASSUME NEW n \in Migrations, Requeue(n) PROVE UNCHANGED smCache
    BY <2>2 DEF Requeue, cacheVars
  <2> QED
    BY <1>1, <1>2, <1>7, <2>1, <2>2 DEF Manager
<1>8. CASE UNCHANGED vars
  BY <1>1, <1>8 DEF vars, cacheVars
<1> QED
  BY <1>3, <1>4, <1>5, <1>6, <1>7, <1>8 DEF Next

\* A backup has the owner it had, or the object of the job that makes it.
LEMMA OwnersWritten ==
  ASSUME TypeOK, [Next]_vars, NEW n \in DOMAIN backups'
  PROVE  \/ /\ n \in DOMAIN backups
            /\ backups'[n].migration = backups[n].migration
            /\ backups'[n].owner = backups[n].owner
         \/ /\ pc = "backup"
            /\ backups'[n].migration = key /\ backups'[n].owner = obj.uid
<1>1. CASE WriteBackup
  <2>1. CASE UNCHANGED backups
    BY <2>1
  <2>2. CASE backups' = Put(backups, ItemName,
             [migration |-> key, pod |-> Head(items).pod,
              cluster |-> Head(todo), owner |-> OwnerUid(obj),
              spec |-> DesiredSpec])
    BY <1>1, <2>2 DEF WriteBackup, Put, OwnerUid
  <2>3. CASE backups' = [backups EXCEPT ![ItemName].spec = DesiredSpec]
    <3>1. n \in DOMAIN backups /\ backups[n] \in Backup
      BY <2>3 DEF TypeOK, StoreTypeOK
    <3>2. backups'[n] = IF n = ItemName THEN [backups[n] EXCEPT !.spec = DesiredSpec]
                        ELSE backups[n]
      BY <2>3, <3>1
    <3> QED
      BY <3>1, <3>2 DEF Backup
  <2> QED
    BY <1>1, <2>1, <2>2, <2>3 DEF WriteBackup
<1>2. ASSUME NEW x, backups' = Without(backups, {x})
      PROVE  n \in DOMAIN backups /\ backups'[n] = backups[n]
  BY <1>2 DEF Without, Restrict
<1> QED
  BY <1>1, <1>2, BackupsWritten

\* A job keeps the object it is about; another takes its object from the cache.
LEMMA JobMoves ==
  ASSUME TypeOK, [Next]_vars, pc' # "idle"
  PROVE  \/ pc # "idle" /\ key' = key /\ obj'.uid = obj.uid
         \/ pc = "idle" /\ key' \in Migrations /\ obj' = smCache[key'] /\ smCache' = smCache
<1>1. ASSUME UNCHANGED <<pc, key, obj>> PROVE pc # "idle" /\ key' = key /\ obj'.uid = obj.uid
  BY <1>1
<1>2. ASSUME EndJob \/ Fail PROVE FALSE
  BY <1>2 DEF EndJob, Fail
<1>3. ASSUME NEW m \in Migrations, Reconcile(m)
      PROVE  pc = "idle" /\ key' \in Migrations /\ obj' = smCache[key'] /\ smCache' = smCache
  BY <1>3 DEF Reconcile, jobVars, cacheVars
<1>4. CASE AddFinalizer
  BY <1>2, <1>4 DEF AddFinalizer, TypeOK, JobTypeOK, Migration
<1>5. CASE AddLabel \/ DiscoverPods \/ EnsureNamespace \/ EnsureNamespacePolicy
  BY <1>2, <1>5 DEF AddLabel, DiscoverPods, EnsureNamespace, EnsureNamespacePolicy, Goto
<1>6. CASE EnsureCRDs \/ WriteBackup \/ WritePolicy
  BY <1>2, <1>6 DEF EnsureCRDs, WriteBackup, WritePolicy, NextItem, Goto
<1>7. CASE ListOrphans \/ RemoveLabel \/ ListOwned \/ DeleteListed
  BY <1>2, <1>7 DEF ListOrphans, RemoveLabel, ListOwned, DeleteListed, Goto
<1>8. CASE FinishNormal \/ RemoveFinalizer \/ RequestFails \/ Restart
  BY <1>2, <1>8 DEF FinishNormal, RemoveFinalizer, RequestFails, Restart
<1>9. CASE Manager \/ Collector
  BY <1>1, <1>9 DEF Manager, ObserveBackups, ObserveMigration, Requeue, Collector,
     CollectBackup, EndForeground, jobVars
<1>10. CASE Users
  BY <1>1, <1>10 DEF Users, CreateMigration, EditMigration, DeleteMigration,
     DeleteBackup, StartPod, StopPod, DeleteWorkload, CreateWorkload, CreateNamespace, Refuse,
     operatorVars, jobVars
<1>11. CASE UNCHANGED vars
  BY <1>1, <1>11 DEF vars, jobVars
<1> QED
  BY <1>3, <1>4, <1>5, <1>6, <1>7, <1>8, <1>9, <1>10, <1>11 DEF Next, Worker

LEMMA NextOwners ==
  ASSUME TypeOK, TypeOK', CopiesLag, OwnersKnown, [Next]_vars
  PROVE  OwnersKnown'
<1>1. /\ \A m \in Migrations : smCache[m].uid \in Nat /\ smCache'[m].uid \in Nat
      /\ \A n \in DOMAIN backups : backups[n].migration \in Migrations
                                   /\ backups[n].owner \in Nat
      /\ pc # "idle" => key \in Migrations /\ obj.uid \in Nat
  BY DEF TypeOK, StoreTypeOK, CacheTypeOK, JobTypeOK, Migration, Backup
<1>2. \A m \in Migrations : smCache[m].uid <= smCache'[m].uid
  BY CacheGrows
<1>3. ASSUME NEW n \in DOMAIN backups'
      PROVE  backups'[n].owner <= smCache'[backups'[n].migration].uid
  <2>1. CASE /\ n \in DOMAIN backups
             /\ backups'[n].migration = backups[n].migration
             /\ backups'[n].owner = backups[n].owner
    <3>1. backups[n].owner <= smCache[backups[n].migration].uid
      BY <2>1 DEF OwnersKnown
    <3> QED
      BY <1>1, <1>2, <2>1, <3>1
  <2>2. CASE /\ pc = "backup"
             /\ backups'[n].migration = key /\ backups'[n].owner = obj.uid
    <3>1. obj.uid <= smCache[key].uid
      BY <2>2 DEF OwnersKnown
    <3> QED
      BY <1>1, <1>2, <2>2, <3>1
  <2> QED
    BY <2>1, <2>2, OwnersWritten
<1>4. ASSUME pc' # "idle"
      PROVE  /\ obj'.uid <= smCache'[key'].uid
             /\ \A n \in DOMAIN backups' :
                   backups'[n].migration = key' => backups'[n].owner <= obj'.uid
  <2>1. CASE pc # "idle" /\ key' = key /\ obj'.uid = obj.uid
    <3>1. obj.uid <= smCache[key].uid
      BY <2>1 DEF OwnersKnown
    <3>2. obj'.uid <= smCache'[key'].uid
      BY <1>1, <1>2, <2>1, <3>1
    <3>3. ASSUME NEW n \in DOMAIN backups', backups'[n].migration = key'
          PROVE  backups'[n].owner <= obj'.uid
      <4>1. CASE n \in DOMAIN backups /\ backups[n].migration = key
                 /\ backups'[n].owner = backups[n].owner
        BY <2>1, <4>1 DEF OwnersKnown
      <4>2. CASE backups'[n].owner = obj.uid
        BY <1>1, <2>1, <4>2
      <4> QED
        BY <2>1, <3>3, <4>1, <4>2, OwnersWritten
    <3> QED
      BY <3>2, <3>3
  <2>2. CASE pc = "idle" /\ key' \in Migrations /\ obj' = smCache[key'] /\ smCache' = smCache
    BY <1>1, <1>3, <2>2
  <2> QED
    BY <1>4, <2>1, <2>2, JobMoves
<1> QED
  BY <1>3, <1>4 DEF OwnersKnown

LEMMA OwnersHold == Spec => []OwnersKnown
<1>1. Init => OwnersKnown
  BY DEF Init, OwnersKnown, EmptyStore
<1> QED
  BY <1>1, InitType, NextType, CopiesLagInit, NextLags, NextOwners, PTL DEF Spec

LEMMA VictimsHold ==
  ASSUME UniqueNames
  PROVE  Spec => [](Contents /\ VictimsOwn)
<1>1. Init => VictimsOwn
  BY DEF Init, VictimsOwn
<1>2. TypeOK /\ CleanExit /\ Contents /\ VictimsOwn /\ [Next]_vars => VictimsOwn'
  BY NextVictims DEF CleanExit
<1> QED
  BY <1>1, <1>2, TypeCorrect, CleanExitHolds, ContentsHold, PTL DEF Spec

(***************************************************************************)
(* What a job has behind it at each step, and what names and owners say of *)
(* the objects that carry them: the invariant the theorems here rest on.   *)
(***************************************************************************)
THEOREM BackupsAccountedHolds ==
  ASSUME UniqueNames
  PROVE  Spec => []BackupsAccounted
<1>1. /\ Sending /\ PodsSelected /\ (Contents /\ VictimsOwn) /\ OwnersKnown
         => BackupsAccounted
  BY DEF Sending, Contents, BackupsAccounted
<1> QED
  BY <1>1, SendingHolds, SelectedHolds, VictimsHold, OwnersHold, PTL

\* Where the worker's list changes and backups go, the worker deletes one.
LEMMA OnlyDeleteListed ==
  ASSUME [Next]_vars, victims' # victims
  PROVE  UNCHANGED backups \/ DeleteListed
<1>1. CASE Worker
  BY <1>1, WorkerWritesBackups DEF WriteBackup
<1>2. CASE Manager \/ Collector
  BY <1>2 DEF Manager, ObserveBackups, ObserveMigration, Requeue, Collector,
     CollectBackup, EndForeground, jobVars
<1>3. CASE Users
  BY <1>3 DEF Users, CreateMigration, EditMigration, DeleteMigration, DeleteBackup,
     StartPod, StopPod, DeleteWorkload, CreateWorkload, CreateNamespace, Refuse, operatorVars, jobVars
<1>4. CASE RequestFails \/ Restart
  BY <1>4 DEF RequestFails, Restart, storeVars
<1>5. CASE UNCHANGED vars
  BY <1>5 DEF vars, jobVars
<1> QED
  BY <1>1, <1>2, <1>3, <1>4, <1>5 DEF Next

(***************************************************************************)
(* The worker deletes backups of its own migration only, of this object of *)
(* that name or an earlier one, and no backup of a pod its job has found:  *)
(* however old the cache is that its list was read from.                   *)
(***************************************************************************)
THEOREM WorkerDeletesOwnHolds ==
  ASSUME UniqueNames
  PROVE  Spec => WorkerDeletesOwn
<1> DEFINE Own ==
      victims' # victims =>
         \A n \in DOMAIN backups \ DOMAIN backups' :
            /\ backups[n].migration = key
            /\ backups[n].owner <= obj.uid
            /\ obj.phase = "live" => backups[n].pod \notin FoundPods
<1>1. TypeOK /\ Contents /\ VictimsOwn /\ OwnersKnown /\ [Next]_vars => Own
  <2> SUFFICES ASSUME TypeOK, Contents, VictimsOwn, OwnersKnown, [Next]_vars,
                      victims' # victims, NEW n \in DOMAIN backups \ DOMAIN backups'
               PROVE  /\ backups[n].migration = key
                      /\ backups[n].owner <= obj.uid
                      /\ obj.phase = "live" => backups[n].pod \notin FoundPods
    OBVIOUS
  <2>1. DeleteListed
    BY OnlyDeleteListed
  <2>2. pc = "delete" /\ n \in victims
    BY <2>1 DEF DeleteListed, Without, Restrict
  <2>3. PICK p \in Pods, c \in Clusters :
           /\ n = BackupName(key, p, c)
           /\ obj.phase = "live" => p \notin FoundPods
    BY <2>2 DEF VictimsOwn
  <2>4. /\ key \in Migrations /\ backups[n].migration \in Migrations
        /\ backups[n].pod \in Pods /\ backups[n].cluster \in Clusters
    BY <2>2 DEF TypeOK, StoreTypeOK, JobTypeOK, Backup
  <2>5. n = BackupName(backups[n].migration, backups[n].pod, backups[n].cluster)
    BY DEF Contents, Described
  <2>6. backups[n].migration = key /\ backups[n].pod = p
    BY <2>3, <2>4, <2>5 DEF UniqueNames
  <2>7. backups[n].owner <= obj.uid
    BY <2>2, <2>6 DEF OwnersKnown
  <2> QED
    BY <2>3, <2>6, <2>7
<1>2. Own => [Own]_vars
  OBVIOUS
<1> QED
  BY <1>1, TypeCorrect, VictimsHold, OwnersHold, PTL DEF Spec, WorkerDeletesOwn

-----------------------------------------------------------------------------
(***************************************************************************)
(* The refinement of KarmadaPlane.                                         *)
(***************************************************************************)
LEMMA OneCluster ==
  ASSUME UniqueNames, NEW m \in Migrations, NEW p \in Pods, NEW c \in Clusters
  PROVE  /\ PolicyName(BackupName(m, p, c)) \in PolicyNames
         /\ ClustersOf(PolicyName(BackupName(m, p, c))) = {c}
<1>1. BackupName(m, p, c) \in BackupNames
  BY DEF BackupNames
<1>2. ASSUME NEW d \in ClustersOf(PolicyName(BackupName(m, p, c))) PROVE d = c
  <2>1. PICK n \in Migrations, q \in Pods :
           d \in Clusters /\ PolicyName(BackupName(m, p, c)) = PolicyName(BackupName(n, q, d))
    BY DEF ClustersOf
  <2>2. BackupName(m, p, c) = BackupName(n, q, d)
    BY <2>1, PolicyOfOne DEF BackupNames
  <2> QED
    BY <2>1, <2>2 DEF UniqueNames
<1>3. c \in ClustersOf(PolicyName(BackupName(m, p, c)))
  BY DEF ClustersOf
<1> QED
  BY <1>1, <1>2, <1>3 DEF PolicyNames

LEMMA CrdsWritten ==
  ASSUME [Next]_vars
  PROVE  WritePolicy \/ EnsureCRDs \/ UNCHANGED <<crds, policies>>
<1>1. CASE Worker
  BY <1>1 DEF Worker, Reconcile, AddFinalizer, AddLabel, DiscoverPods, EnsureNamespace,
     EnsureNamespacePolicy, WriteBackup, ListOrphans, RemoveLabel, ListOwned,
     DeleteListed, FinishNormal, RemoveFinalizer, storeVars
<1>2. CASE Manager \/ Collector \/ RequestFails \/ Restart
  BY <1>2 DEF Manager, ObserveBackups, ObserveMigration, Requeue, Collector,
     CollectBackup, EndForeground, RequestFails, Restart, storeVars
<1>3. CASE Users
  BY <1>3 DEF Users, CreateMigration, EditMigration, DeleteMigration, DeleteBackup,
     StartPod, StopPod, DeleteWorkload, CreateWorkload, CreateNamespace, Refuse, storeVars
<1>4. CASE UNCHANGED vars
  BY <1>4 DEF vars, storeVars
<1> QED
  BY <1>1, <1>2, <1>3, <1>4 DEF Next

\* Where neither CRDs nor policies change, nothing is seen.
LEMMA PlaneQuiet ==
  ASSUME UNCHANGED <<crds, policies>>
  PROVE  UNCHANGED Plane!vars
BY DEF Plane!vars

LEMMA EnsureCRDsRefines ==
  ASSUME TypeOK, EnsureCRDs
  PROVE  [Plane!Next]_(Plane!vars)
<1>1. CASE UNCHANGED crds
  BY <1>1, PlaneQuiet DEF EnsureCRDs
<1>2. CASE todo # <<>> /\ crds' = crds \cup {Head(todo)}
  <2>1. Head(todo) \in Clusters
    BY <1>2, SeqHead DEF TypeOK, JobTypeOK
  <2>2. Plane!Install(Head(todo))
    BY <1>2 DEF EnsureCRDs, Plane!Install
  <2> QED
    BY <2>1, <2>2 DEF Plane!Next
<1> QED
  BY <1>1, <1>2 DEF EnsureCRDs

LEMMA WritePolicyRefines ==
  ASSUME UniqueNames, TypeOK, Sending, PodsSelected, WritePolicy
  PROVE  [Plane!Next]_(Plane!vars)
<1> DEFINE x == PolicyName(ItemName)
           c == Head(todo)
<1>1. key \in Migrations /\ Head(items).pod \in Pods /\ c \in Clusters
  BY ItemInHand DEF WritePolicy
<1>2. x \in PolicyNames /\ ClustersOf(x) = {c}
  BY <1>1, OneCluster DEF ItemName
<1>3. CASE UNCHANGED policies
  BY <1>3, PlaneQuiet DEF WritePolicy
<1>4. CASE karmada /\ policies' = Put(policies, x, c)
  <2>1. c \in crds
    <3>1. todo \in Seq(Clusters) /\ todo # <<>> /\ Range(todo) \subseteq crds
      BY <1>4 DEF WritePolicy, Sending, SetUp, TypeOK, JobTypeOK
    <3> QED
      BY <3>1, RangeOfLoop
  <2> DEFINE seen == [y \in DOMAIN policies |-> [clusters |-> {policies[y]}, stamped |-> FALSE]]
  <2>2. [y \in DOMAIN policies' |-> [clusters |-> {policies'[y]}, stamped |-> FALSE]]
           = [y \in DOMAIN seen \cup {x} |->
                IF y # x THEN seen[y]
                ELSE IF x \in DOMAIN seen THEN [seen[x] EXCEPT !.clusters = {c}]
                ELSE [clusters |-> {c}, stamped |-> FALSE]]
    <3> HIDE DEF x, c
    <3>1. DOMAIN policies' = DOMAIN policies \cup {x}
      BY <1>4 DEF Put
    <3>2. policies'[x] = c
      BY <1>4 DEF Put
    <3>3. \A y \in DOMAIN policies \ {x} : policies'[y] = policies[y]
      BY <1>4 DEF Put
    <3> QED
      BY <3>1, <3>2, <3>3
  <2>3. UNCHANGED crds
    BY DEF WritePolicy
  <2>4. PICK y \in PolicyNames, d \in Clusters : y = x /\ d = c
    BY <1>1, <1>2
  <2>5. Plane!Write(y, {d})
    <3> HIDE DEF x, c
    <3> QED
      BY <1>2, <2>1, <2>2, <2>3, <2>4 DEF Plane!Write
  <2> HIDE DEF x, c
  <2>6. {d} \in [z \in PolicyNames |-> {{e} : e \in ClustersOf(z)}][y]
    BY <1>2, <2>4
  <2> QED
    BY <2>5, <2>6 DEF Plane!Next
<1> QED
  BY <1>3, <1>4 DEF WritePolicy

(***************************************************************************)
(* The policies and CRDs the controller writes go through the steps of     *)
(* KarmadaPlane only, as those of the clients do: a policy is written with *)
(* the cluster its name says, and after the CRD of that cluster.           *)
(***************************************************************************)
THEOREM ImplementsPlaneHolds ==
  ASSUME UniqueNames
  PROVE  Spec => ImplementsPlane
<1>1. Init => Plane!Init
  BY DEF Init, EmptyStore, Plane!Init
<1>2. TypeOK /\ Sending /\ PodsSelected /\ [Next]_vars => [Plane!Next]_(Plane!vars)
  BY CrdsWritten, PlaneQuiet, EnsureCRDsRefines, WritePolicyRefines
<1> QED
  BY <1>1, <1>2, TypeCorrect, SendingHolds, SelectedHolds, PTL
  DEF Spec, ImplementsPlane, Plane!Spec

=============================================================================
