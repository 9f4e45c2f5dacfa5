----------------------- MODULE MigrationBackup_proofs -----------------------
(***************************************************************************)
(* Theorems about the MigrationBackup controller, for every value of the   *)
(* constants that satisfies the assumptions of MigrationTypes and          *)
(* MigrationBackup.                                                        *)
(***************************************************************************)
EXTENDS MigrationBackupProperties, SequenceFacts, FiniteSetTheorems

(***************************************************************************)
(* Facts about stores: adding or replacing an entry of the right type, and *)
(* dropping entries, keeps a store within its types.                       *)
(***************************************************************************)
LEMMA PutType ==
  ASSUME NEW D, NEW V, NEW f, NEW k \in D, NEW v \in V,
         DOMAIN f \subseteq D, \A x \in DOMAIN f : f[x] \in V
  PROVE  /\ DOMAIN Put(f, k, v) \subseteq D
         /\ \A x \in DOMAIN Put(f, k, v) : Put(f, k, v)[x] \in V
BY DEF Put

LEMMA WithoutType ==
  ASSUME NEW D, NEW V, NEW f, NEW S,
         DOMAIN f \subseteq D, \A x \in DOMAIN f : f[x] \in V
  PROVE  /\ DOMAIN Without(f, S) \subseteq D
         /\ \A x \in DOMAIN Without(f, S) : Without(f, S)[x] \in V
BY DEF Without, Restrict

LEMMA SeqType ==
  ASSUME NEW V, NEW n \in Nat, NEW s \in [1..n -> V]
  PROVE  s \in Seq(V)
BY SeqDef

(***************************************************************************)
(* Every list of pods the controller can be given is a sequence of pods.   *)
(***************************************************************************)
LEMMA PodListsType ==
  ASSUME WorldTypeOK, NEW l, NEW ref \in Refs, NEW list \in PodLists(l, ref)
  PROVE  list \in Seq(PodInfo)
<1> DEFINE Q == {q \in Selects[ref] : <<l, q>> \in DOMAIN pods}
           S == {[pod |-> p, image |-> pods[<<l, p>>]] : p \in Q}
           f == [p \in Q |-> [pod |-> p, image |-> pods[<<l, p>>]]]
<1>1. Q \in SUBSET Pods
  BY WorkloadAssumption
<1>2. IsFiniteSet(Q)
  BY <1>1, NamesAssumption, FS_Subset
<1>3. f \in Surjection(Q, S)
  BY DEF Surjection
<1>4. Cardinality(S) \in Nat
  <2>1. IsFiniteSet(S)
    BY <1>2, <1>3, FS_Surjection
  <2> QED
    BY <2>1, FS_CardinalityType
<1>5. S \subseteq PodInfo
  <2>1. \A p \in Q : pods[<<l, p>>] \in Images
    BY DEF WorldTypeOK
  <2>2. \A p \in Q : [pod |-> p, image |-> pods[<<l, p>>]] \in PodInfo
    BY <1>1, <2>1 DEF PodInfo
  <2> QED
    BY <2>2
<1>6. list \in [1..Cardinality(S) -> S]
  BY DEF PodLists, PodsAt, SetToSeqs
<1>7. list \in [1..Cardinality(S) -> PodInfo]
  BY <1>5, <1>6
<1> HIDE DEF S
<1> QED
  BY <1>4, <1>7, SeqType

-----------------------------------------------------------------------------
(***************************************************************************)
(* Type correctness.                                                       *)
(***************************************************************************)

\* Storing a StatefulMigration, and telling the watchers.
LEMMA StoreType ==
  ASSUME StoreTypeOK, NEW m \in Migrations, NEW o \in Migration, Store(m, o)
  PROVE  sm' \in [Migrations -> Migration] /\ events' \in [Migrations -> Seq(Migration)]
<1>1. Append(events[m], o) \in Seq(Migration)
  BY AppendProperties DEF StoreTypeOK
<1> QED
  BY <1>1 DEF Store, StoreTypeOK

\* An aborted or finished job leaves the worker idle with nothing in hand.
LEMMA EndJobType ==
  ASSUME EndJob
  PROVE  JobTypeOK'
BY NamesAssumption DEF EndJob, JobTypeOK, Steps

LEMMA FailType ==
  ASSUME QueueTypeOK, JobTypeOK, pc # "idle", Fail
  PROVE  QueueTypeOK' /\ JobTypeOK'
<1>1. JobTypeOK'
  BY EndJobType DEF Fail
<1>2. key \in Migrations
  BY DEF JobTypeOK
<1> QED
  BY <1>1, <1>2 DEF Fail, QueueTypeOK

\* A job that goes on keeps its object.
LEMMA GotoType ==
  ASSUME QueueTypeOK, JobTypeOK, pc # "idle",
         NEW step \in Steps \ {"idle"}, Goto(step),
         found' \in Seq(PodInfo), todo' \in Seq(Clusters), items' \in Seq(PodInfo),
         step \in {"backup", "policy"} => found' # <<>> /\ todo' # <<>> /\ items' # <<>>,
         victims' \subseteq BackupNames
  PROVE  QueueTypeOK' /\ JobTypeOK'
BY DEF Goto, QueueTypeOK, JobTypeOK, queueVars

LEMMA InitType == Init => TypeOK
<1> SUFFICES ASSUME Init PROVE TypeOK
  OBVIOUS
<1>1. \A m \in Migrations : InitSpec[m] \in MigrationSpec
  BY EnvironmentAssumption, WorkloadAssumption
<1>2. sm \in [Migrations -> Migration]
  BY <1>1 DEF Init, Migration, Phases
<1>3. DOMAIN EmptyStore = {}
  BY DEF EmptyStore
<1>4. StoreTypeOK
  <2>1. <<>> \in Seq(Migration)
    OBVIOUS
  <2> QED
    BY <1>2, <1>3, <2>1 DEF Init, StoreTypeOK
<1>5. WorldTypeOK
  BY DEF Init, WorldTypeOK
<1>6. CacheTypeOK
  BY <1>2, <1>3 DEF Init, CacheTypeOK
<1>7. QueueTypeOK /\ JobTypeOK
  <2>1. <<>> \in Seq(PodInfo) /\ <<>> \in Seq(Clusters)
    OBVIOUS
  <2> QED
    BY <2>1 DEF Init, QueueTypeOK, JobTypeOK, Steps
<1> QED
  BY <1>4, <1>5, <1>6, <1>7, EnvironmentAssumption DEF Init, TypeOK

\* The worker's own requests.
LEMMA WorkerType == ASSUME TypeOK, Worker PROVE TypeOK'
<1> USE DEF TypeOK, smVars
<1> USE EnvironmentAssumption
<1>0. /\ UNCHANGED <<worldVars, cacheVars>> => WorldTypeOK' /\ CacheTypeOK'
      /\ UNCHANGED <<worldVars, faults>> => edits' \in 0..MaxEdits /\ faults' \in 0..MaxFaults
  BY DEF worldVars, cacheVars, WorldTypeOK, CacheTypeOK
<1>o. pc # "idle" => /\ key \in Migrations /\ obj \in Migration
                     /\ obj.spec \in MigrationSpec /\ obj.spec.clusters \in Seq(Clusters)
                     /\ obj.spec.ref \in Refs
  BY DEF JobTypeOK, Migration, MigrationSpec
<1>1. ASSUME NEW m \in Migrations, Reconcile(m) PROVE TypeOK'
  <2>1. smCache[m] \in Migration /\ smCache[m].spec.clusters \in Seq(Clusters)
    BY DEF CacheTypeOK, Migration, MigrationSpec
  <2>2. FirstStep(smCache[m]) \in {"finalizer", "unlabel", "label"}
        \/ smCache[m].phase = "gone"
    BY <2>1 DEF FirstStep, Migration, Phases
  <2>3. StoreTypeOK' /\ WorldTypeOK' /\ CacheTypeOK'
    BY <1>1 DEF Reconcile, storeVars, worldVars, cacheVars, StoreTypeOK, WorldTypeOK, CacheTypeOK
  <2>4. QueueTypeOK'
    BY <1>1 DEF Reconcile, NewKarmadaClient, QueueTypeOK
  <2>5. JobTypeOK'
    BY <1>1, <2>1, <2>2, NamesAssumption DEF Reconcile, JobTypeOK, jobVars, Steps, NormalSteps, DeleteSteps
  <2>6. edits' \in 0..MaxEdits /\ faults' \in 0..MaxFaults
    BY <1>1 DEF Reconcile, NewKarmadaClient, worldVars
  <2> QED
    BY <2>3, <2>4, <2>5, <2>6
<1>2. CASE AddFinalizer
  <2>1. StoreTypeOK' /\ QueueTypeOK' /\ JobTypeOK'
    <3>1. CASE Accepts /\ obj.phase = "live" /\ UNCHANGED queueVars
      <4>1. /\ Store(key, [obj EXCEPT !.finalizer = TRUE])
            /\ obj' = [obj EXCEPT !.finalizer = TRUE]
            /\ pc' = "label" /\ UNCHANGED <<key, found, todo, items, victims, queueVars, karmada>>
        BY <1>2, <3>1 DEF AddFinalizer
      <4>2. [obj EXCEPT !.finalizer = TRUE] \in Migration /\ obj' \in Migration
        BY <1>2, <1>o, <4>1 DEF AddFinalizer, Migration
      <4>3. StoreTypeOK'
        BY <1>2, <1>o, <4>1, <4>2, StoreType DEF AddFinalizer, StoreTypeOK
      <4>4. JobTypeOK'
        BY <1>2, <1>o, <4>1, <4>2 DEF AddFinalizer, JobTypeOK, Steps, NormalSteps
      <4> QED
        BY <4>1, <4>3, <4>4 DEF QueueTypeOK, queueVars
    <3>2. CASE Fail /\ UNCHANGED smVars
      BY <1>2, <3>2, FailType DEF AddFinalizer, StoreTypeOK
    <3> QED
      BY <1>2, <3>1, <3>2 DEF AddFinalizer
  <2> QED
    BY <1>0, <1>2, <2>1 DEF AddFinalizer
<1>3. CASE AddLabel
  <2>1. LabelTarget(obj.spec) \subseteq Locations
    BY <1>3, <1>o, SeqHead DEF AddLabel, LabelTarget, Locations, MigrationSpec
  <2>2. StoreTypeOK'
    BY <1>3, <1>o, <2>1 DEF AddLabel, StoreTypeOK
  <2>3. QueueTypeOK' /\ JobTypeOK'
    <3>1. CASE Goto("discover") /\ UNCHANGED <<found, todo, items, victims>>
      BY <1>3, <3>1, GotoType DEF AddLabel, JobTypeOK, Steps, NormalSteps
    <3>2. CASE Fail
      BY <1>3, <3>2, FailType DEF AddLabel
    <3> QED
      BY <1>3, <3>1, <3>2 DEF AddLabel
  <2> QED
    BY <1>0, <1>3, <2>2, <2>3 DEF AddLabel
<1>4. CASE DiscoverPods
  <2>1. StoreTypeOK'
    BY <1>4 DEF DiscoverPods, storeVars, StoreTypeOK
  <2>2. QueueTypeOK' /\ JobTypeOK'
    <3>1. CASE Goto("namespace") /\ found' \in PodLists(Mgmt, obj.spec.ref)
               /\ todo' = obj.spec.clusters /\ UNCHANGED <<items, victims>>
      BY <1>4, <1>o, <3>1, GotoType, PodListsType DEF DiscoverPods, JobTypeOK, Steps, NormalSteps
    <3>2. CASE Fail
      BY <1>4, <3>2, FailType DEF DiscoverPods
    <3>3. CASE /\ todo # <<>>
               /\ \E s \in PodLists(Head(todo), obj.spec.ref) : found' = found \o s
               /\ todo' = Tail(todo) /\ Goto("discover") /\ UNCHANGED <<items, victims>>
      <4>1. found' \in Seq(PodInfo)
        BY <1>4, <1>o, <3>3, PodListsType, ConcatProperties DEF DiscoverPods, JobTypeOK
      <4> QED
        BY <1>4, <3>3, <4>1, GotoType, HeadTailProperties DEF DiscoverPods, JobTypeOK, Steps, NormalSteps
    <3>4. CASE /\ todo' = obj.spec.clusters /\ Goto("namespace")
               /\ UNCHANGED <<found, items, victims>>
      BY <1>4, <1>o, <3>4, GotoType DEF DiscoverPods, JobTypeOK, Steps, NormalSteps
    <3> QED
      BY <1>4, <3>1, <3>2, <3>3, <3>4 DEF DiscoverPods
  <2> QED
    BY <1>0, <1>4, <2>1, <2>2 DEF DiscoverPods
<1>5. CASE EnsureNamespace
  <2>1. StoreTypeOK'
    BY <1>5 DEF EnsureNamespace, StoreTypeOK
  <2>2. QueueTypeOK' /\ JobTypeOK'
    BY <1>5, GotoType DEF EnsureNamespace, JobTypeOK, Steps, NormalSteps
  <2> QED
    BY <1>0, <1>5, <2>1, <2>2 DEF EnsureNamespace
<1>6. CASE EnsureNamespacePolicy
  <2>1. Range(obj.spec.clusters) \subseteq Clusters
    BY <1>6, <1>o, LenProperties, ElementOfSeq DEF EnsureNamespacePolicy, Range
  <2>2. StoreTypeOK'
    BY <1>6, <2>1 DEF EnsureNamespacePolicy, StoreTypeOK
  <2>3. QueueTypeOK' /\ JobTypeOK'
    <3>1. CASE Goto("crd") /\ UNCHANGED <<found, todo, items, victims>>
      BY <1>6, <3>1, GotoType DEF EnsureNamespacePolicy, JobTypeOK, Steps, NormalSteps
    <3>2. CASE Fail
      BY <1>6, <3>2, FailType DEF EnsureNamespacePolicy
    <3> QED
      BY <1>6, <3>1, <3>2 DEF EnsureNamespacePolicy
  <2> QED
    BY <1>0, <1>6, <2>2, <2>3 DEF EnsureNamespacePolicy
<1>7. CASE EnsureCRDs
  <2>1. todo # <<>> => Head(todo) \in Clusters /\ Tail(todo) \in Seq(Clusters)
    BY HeadTailProperties DEF JobTypeOK
  <2>2. StoreTypeOK'
    BY <1>7, <2>1 DEF EnsureCRDs, StoreTypeOK
  <2>3. QueueTypeOK' /\ JobTypeOK'
    <3>1. CASE Goto("crd") /\ todo # <<>> /\ todo' = Tail(todo) /\ UNCHANGED items
      BY <1>7, <2>1, <3>1, GotoType DEF EnsureCRDs, JobTypeOK, Steps, NormalSteps
    <3>2. CASE /\ Goto("backup") /\ obj.spec.clusters # <<>> /\ found # <<>>
               /\ todo' = obj.spec.clusters /\ items' = found
      BY <1>7, <1>o, <3>2, GotoType DEF EnsureCRDs, JobTypeOK, Steps, NormalSteps
    <3>3. CASE Goto("listOrphans") /\ todo' = <<>> /\ UNCHANGED items
      <4>1. <<>> \in Seq(Clusters)
        OBVIOUS
      <4> QED
        BY <1>7, <3>3, <4>1, GotoType DEF EnsureCRDs, JobTypeOK, Steps, NormalSteps
    <3> QED
      BY <1>7, <3>1, <3>2, <3>3 DEF EnsureCRDs
  <2> QED
    BY <1>0, <1>7, <2>2, <2>3 DEF EnsureCRDs
<1>8. pc \in {"backup", "policy"} =>
         /\ Head(items) \in PodInfo /\ Tail(items) \in Seq(PodInfo)
         /\ Head(todo) \in Clusters /\ Tail(todo) \in Seq(Clusters)
         /\ ItemName \in BackupNames
  <2>1. SUFFICES ASSUME pc \in {"backup", "policy"}
                 PROVE  /\ Head(items) \in PodInfo /\ Tail(items) \in Seq(PodInfo)
                        /\ Head(todo) \in Clusters /\ Tail(todo) \in Seq(Clusters)
                        /\ ItemName \in BackupNames
    OBVIOUS
  <2>2. Head(items) \in PodInfo /\ Tail(items) \in Seq(PodInfo)
    BY <2>1, HeadTailProperties DEF JobTypeOK
  <2>3. Head(todo) \in Clusters /\ Tail(todo) \in Seq(Clusters)
    BY <2>1, HeadTailProperties DEF JobTypeOK
  <2>4. ItemName \in BackupNames
    BY <2>1, <2>2, <2>3, <1>o DEF ItemName, BackupNames, PodInfo
  <2> QED
    BY <2>2, <2>3, <2>4
<1>9. CASE WriteBackup
  <2> DEFINE new == [migration |-> key, pod |-> Head(items).pod,
                     cluster |-> Head(todo), owner |-> OwnerUid(obj),
                     spec |-> DesiredSpec]
  <2>1. DesiredSpec \in BackupSpec
    BY <1>8, <1>9, <1>o DEF WriteBackup, DesiredSpec, BackupSpec, PodInfo, MigrationSpec
  <2>2. new \in Backup
    BY <1>8, <1>9, <1>o, <2>1 DEF WriteBackup, Backup, OwnerUid, Migration, PodInfo
  <2>3. StoreTypeOK'
    <3>1. /\ DOMAIN backups' \subseteq BackupNames
          /\ \A n \in DOMAIN backups' : backups'[n] \in Backup
      <4>1. CASE backups' = Put(backups, ItemName, new)
        <5>1. ItemName \in BackupNames
          BY <1>8, <1>9 DEF WriteBackup
        <5> HIDE DEF new
        <5>2. /\ DOMAIN Put(backups, ItemName, new) \subseteq BackupNames
              /\ \A n \in DOMAIN Put(backups, ItemName, new) :
                    Put(backups, ItemName, new)[n] \in Backup
          BY <2>2, <5>1, PutType DEF StoreTypeOK
        <5> QED
          BY <4>1, <5>2
      <4>2. CASE /\ ItemName \in DOMAIN backups
                 /\ backups' = [backups EXCEPT ![ItemName].spec = DesiredSpec]
        BY <2>1, <4>2 DEF StoreTypeOK, Backup
      <4>3. CASE UNCHANGED backups
        BY <4>3 DEF StoreTypeOK
      <4> QED
        BY <1>9, <4>1, <4>2, <4>3 DEF WriteBackup
    <3> QED
      BY <1>9, <3>1 DEF WriteBackup, StoreTypeOK
  <2>4. QueueTypeOK' /\ JobTypeOK'
    <3>1. CASE Goto("policy") /\ UNCHANGED <<found, todo, items, victims>>
      BY <1>9, <3>1, GotoType DEF WriteBackup, JobTypeOK, Steps, NormalSteps
    <3>2. CASE Fail
      BY <1>9, <3>2, FailType DEF WriteBackup
    <3> QED
      BY <1>9, <3>1, <3>2 DEF WriteBackup
  <2> QED
    BY <1>0, <1>9, <2>3, <2>4 DEF WriteBackup
<1>10. CASE WritePolicy
  <2>1. StoreTypeOK'
    <3>1. PolicyName(ItemName) \in {PolicyName(n) : n \in BackupNames}
      BY <1>8, <1>10 DEF WritePolicy
    <3>2. /\ DOMAIN policies' \subseteq {PolicyName(n) : n \in BackupNames}
          /\ \A n \in DOMAIN policies' : policies'[n] \in Clusters
      <4>1. CASE policies' = Put(policies, PolicyName(ItemName), Head(todo))
        <5> DEFINE D == {PolicyName(n) : n \in BackupNames}
        <5>1. Head(todo) \in Clusters
          BY <1>8, <1>10 DEF WritePolicy
        <5>2. /\ PolicyName(ItemName) \in D /\ DOMAIN policies \subseteq D
              /\ \A n \in DOMAIN policies : policies[n] \in Clusters
          BY <3>1 DEF StoreTypeOK
        <5> HIDE DEF D
        <5>3. /\ DOMAIN policies' \subseteq D
              /\ \A n \in DOMAIN policies' : policies'[n] \in Clusters
          BY <4>1, <5>1, <5>2 DEF Put
        <5> QED
          BY <5>3 DEF D
      <4>2. CASE UNCHANGED policies
        BY <4>2 DEF StoreTypeOK
      <4> QED
        BY <1>10, <4>1, <4>2 DEF WritePolicy
    <3> QED
      BY <1>10, <3>2 DEF WritePolicy, StoreTypeOK
  <2>2. QueueTypeOK' /\ JobTypeOK'
    <3>0. pc = "policy" /\ found' = found /\ found # <<>> /\ todo # <<>>
          /\ found \in Seq(PodInfo) /\ todo \in Seq(Clusters)
          /\ victims' \subseteq BackupNames
      BY <1>10 DEF WritePolicy, JobTypeOK
    <3>1. CASE /\ Len(items) > 1 /\ items' = Tail(items)
               /\ Goto("backup") /\ UNCHANGED todo
      <4>1. Tail(items) # <<>>
        BY <3>1, TailNotEmpty DEF JobTypeOK
      <4> QED
        <5>1. found' # <<>> /\ todo' # <<>> /\ items' # <<>>
          BY <3>0, <3>1, <4>1
        <5>2. found' \in Seq(PodInfo) /\ todo' \in Seq(Clusters) /\ items' \in Seq(PodInfo)
          BY <1>8, <3>0, <3>1
        <5>3. "backup" \in Steps \ {"idle"}
          BY DEF Steps, NormalSteps
        <5> QED
          BY <3>0, <3>1, <5>1, <5>2, <5>3, GotoType
    <3>2. CASE /\ Len(todo) > 1 /\ items' = found /\ todo' = Tail(todo)
               /\ Goto("backup")
      <4>1. Tail(todo) # <<>>
        BY <3>0, <3>2, TailNotEmpty
      <4> QED
        <5>1. found' # <<>> /\ todo' # <<>> /\ items' # <<>>
          BY <3>0, <3>2, <4>1
        <5>2. found' \in Seq(PodInfo) /\ todo' \in Seq(Clusters) /\ items' \in Seq(PodInfo)
          BY <1>8, <3>0, <3>2
        <5>3. "backup" \in Steps \ {"idle"}
          BY DEF Steps, NormalSteps
        <5> QED
          BY <3>0, <3>2, <5>1, <5>2, <5>3, GotoType
    <3>3. CASE items' = <<>> /\ todo' = <<>> /\ Goto("listOrphans")
      <4>1. <<>> \in Seq(PodInfo) /\ <<>> \in Seq(Clusters)
        OBVIOUS
      <4> QED
        BY <1>10, <3>3, <4>1, GotoType DEF WritePolicy, JobTypeOK, Steps, NormalSteps
    <3> QED
      BY <1>10, <3>1, <3>2, <3>3 DEF WritePolicy, NextItem
  <2> QED
    BY <1>0, <1>10, <2>1, <2>2 DEF WritePolicy
<1>11. CASE ListOrphans
  <2>1. StoreTypeOK'
    BY <1>11 DEF ListOrphans, storeVars, StoreTypeOK
  <2>2. victims' \subseteq BackupNames
    BY <1>11 DEF ListOrphans, Orphans, Listed, CacheTypeOK
  <2>3. QueueTypeOK' /\ JobTypeOK'
    BY <1>11, <2>2, GotoType DEF ListOrphans, JobTypeOK, Steps
  <2> QED
    BY <1>0, <1>11, <2>1, <2>3 DEF ListOrphans
<1>12. CASE RemoveLabel
  <2>1. StoreTypeOK'
    BY <1>12 DEF RemoveLabel, StoreTypeOK
  <2>2. <<>> \in Seq(Clusters) /\ (todo # <<>> => Tail(todo) \in Seq(Clusters))
    BY HeadTailProperties DEF JobTypeOK
  <2>3. QueueTypeOK' /\ JobTypeOK'
    <3>1. CASE todo' = <<>> /\ Goto("listOwned") /\ UNCHANGED <<found, items, victims>>
      BY <1>12, <2>2, <3>1, GotoType DEF RemoveLabel, JobTypeOK, Steps, DeleteSteps
    <3>2. CASE /\ todo # <<>> /\ todo' = Tail(todo) /\ Goto("unlabel")
               /\ UNCHANGED <<found, items, victims>>
      BY <1>12, <2>2, <3>2, GotoType DEF RemoveLabel, JobTypeOK, Steps, DeleteSteps
    <3>3. CASE Fail
      BY <1>12, <3>3, FailType DEF RemoveLabel
    <3> QED
      BY <1>12, <3>1, <3>2, <3>3 DEF RemoveLabel
  <2> QED
    BY <1>0, <1>12, <2>1, <2>3 DEF RemoveLabel
<1>13. CASE ListOwned
  <2>1. StoreTypeOK'
    BY <1>13 DEF ListOwned, storeVars, StoreTypeOK
  <2>2. victims' \subseteq BackupNames
    BY <1>13 DEF ListOwned, Listed, CacheTypeOK
  <2>3. QueueTypeOK' /\ JobTypeOK'
    BY <1>13, <2>2, GotoType DEF ListOwned, JobTypeOK, Steps
  <2> QED
    BY <1>0, <1>13, <2>1, <2>3 DEF ListOwned
<1>14. CASE DeleteListed
  <2>1. PICK n \in victims : /\ backups' = Without(backups, {n})
                            /\ victims' = victims \ {n}
    BY <1>14 DEF DeleteListed
  <2>2. StoreTypeOK'
    BY <1>14, <2>1, WithoutType DEF DeleteListed, StoreTypeOK
  <2>3. QueueTypeOK' /\ JobTypeOK'
    BY <1>14, <2>1, GotoType DEF DeleteListed, JobTypeOK, Steps
  <2> QED
    BY <1>0, <1>14, <2>2, <2>3 DEF DeleteListed
<1>15. CASE FinishNormal
  <2>1. key \in Migrations
    BY <1>15, <1>o DEF FinishNormal
  <2>2. StoreTypeOK' /\ QueueTypeOK'
    BY <1>15, <2>1 DEF FinishNormal, storeVars, StoreTypeOK, QueueTypeOK
  <2>3. JobTypeOK'
    BY <1>15, EndJobType DEF FinishNormal
  <2> QED
    BY <1>0, <1>15, <2>2, <2>3 DEF FinishNormal
<1>16. CASE RemoveFinalizer
  <2>1. Released(obj) \in Migration
    BY <1>16, <1>o DEF RemoveFinalizer, Released, Migration, Phases
  <2>2. StoreTypeOK'
    <3>1. CASE Store(key, Released(obj))
      BY <1>16, <1>o, <2>1, <3>1, StoreType DEF RemoveFinalizer, StoreTypeOK
    <3>2. CASE UNCHANGED smVars
      BY <1>16, <3>2 DEF RemoveFinalizer, StoreTypeOK
    <3> QED
      BY <1>16, <3>1, <3>2 DEF RemoveFinalizer
  <2>3. QueueTypeOK' /\ JobTypeOK'
    <3>1. CASE EndJob /\ UNCHANGED <<queueVars, karmada>>
      BY <3>1, EndJobType DEF QueueTypeOK, queueVars
    <3>2. CASE Fail
      BY <1>16, <3>2, FailType DEF RemoveFinalizer
    <3> QED
      BY <1>16, <3>1, <3>2 DEF RemoveFinalizer
  <2> QED
    BY <1>0, <1>16, <2>2, <2>3 DEF RemoveFinalizer
<1> QED
  BY <1>1, <1>2, <1>3, <1>4, <1>5, <1>6, <1>7, <1>9, <1>10, <1>11, <1>12, <1>13,
     <1>14, <1>15, <1>16 DEF Worker

\* Faults and restarts, the manager, the garbage collector and the users.
LEMMA OthersType ==
  ASSUME TypeOK, Manager \/ Collector \/ Users \/ RequestFails \/ Restart
  PROVE  TypeOK'
<1> USE DEF TypeOK, smVars
<1> USE EnvironmentAssumption
<1>0. \A S : /\ DOMAIN Without(backups, S) \subseteq BackupNames
             /\ \A n \in DOMAIN Without(backups, S) : Without(backups, S)[n] \in Backup
  BY WithoutType DEF StoreTypeOK
<1>1. CASE RequestFails
  <2>1. QueueTypeOK' /\ JobTypeOK'
    BY <1>1, FailType DEF RequestFails
  <2> QED
    BY <1>1, <2>1 DEF RequestFails, storeVars, worldVars, cacheVars, StoreTypeOK,
                      WorldTypeOK, CacheTypeOK
<1>2. CASE Restart
  <2>1. JobTypeOK'
    BY <1>2, EndJobType DEF Restart
  <2>2. {m \in Migrations : sm[m].phase # "gone"}
          \cup {backups[n].migration : n \in DOMAIN backups} \subseteq Migrations
    BY DEF StoreTypeOK, Backup
  <2>3. \A m \in Migrations : <<>> \in Seq(Migration)
    OBVIOUS
  <2>4. StoreTypeOK' /\ WorldTypeOK' /\ CacheTypeOK' /\ QueueTypeOK'
    BY <1>2, <2>2, <2>3 DEF Restart, StartManager, worldVars, StoreTypeOK, WorldTypeOK, CacheTypeOK,
                      QueueTypeOK
  <2> QED
    BY <1>2, <2>1, <2>4 DEF Restart, worldVars
<1>3. ASSUME NEW m \in Migrations, ObserveMigration(m) PROVE TypeOK'
  <2>1. Head(events[m]) \in Migration /\ Tail(events[m]) \in Seq(Migration)
    BY <1>3, HeadTailProperties DEF ObserveMigration, StoreTypeOK
  <2>2. StoreTypeOK' /\ CacheTypeOK'
    BY <1>3, <2>1 DEF ObserveMigration, StoreTypeOK, CacheTypeOK
  <2> QED
    BY <1>3, <2>2 DEF ObserveMigration, worldVars, jobVars, WorldTypeOK, QueueTypeOK, JobTypeOK
<1>4. CASE ObserveBackups
  <2>1. \A n \in DOMAIN backups : backups[n].migration \in Migrations
    BY DEF StoreTypeOK, Backup
  <2>2. \A n \in DOMAIN backupCache : backupCache[n].migration \in Migrations
    BY DEF CacheTypeOK, Backup
  <2>3. QueueTypeOK'
    BY <1>4, <2>1, <2>2 DEF ObserveBackups, OwnersOf, QueueTypeOK
  <2> QED
    BY <1>4, <2>3 DEF ObserveBackups, storeVars, worldVars, jobVars, StoreTypeOK,
                      WorldTypeOK, CacheTypeOK, JobTypeOK
<1>5. ASSUME NEW m \in Migrations, Requeue(m) PROVE TypeOK'
  BY <1>5 DEF Requeue, storeVars, worldVars, cacheVars, jobVars, StoreTypeOK, WorldTypeOK,
              CacheTypeOK, QueueTypeOK, JobTypeOK
<1>6. CASE CollectBackup
  <2>1. StoreTypeOK'
    BY <1>0, <1>6 DEF CollectBackup, StoreTypeOK
  <2> QED
    BY <1>6, <2>1 DEF CollectBackup, worldVars, cacheVars, queueVars, jobVars, WorldTypeOK,
                      CacheTypeOK, QueueTypeOK, JobTypeOK
<1>7. ASSUME NEW m \in Migrations, EndForeground(m) PROVE TypeOK'
  <2> DEFINE t == IF sm[m].finalizer THEN [sm[m] EXCEPT !.held = FALSE]
                  ELSE [sm[m] EXCEPT !.held = FALSE, !.phase = "gone"]
  <2>1. Store(m, t) /\ t \in Migration
    BY <1>7 DEF EndForeground, StoreTypeOK, Migration, Phases
  <2>2. StoreTypeOK'
    BY <1>7, <2>1, StoreType DEF EndForeground, StoreTypeOK
  <2> QED
    BY <1>7, <2>2 DEF EndForeground, worldVars, cacheVars, queueVars, jobVars, WorldTypeOK,
                      CacheTypeOK, QueueTypeOK, JobTypeOK
<1>8. ASSUME Edit, UNCHANGED operatorVars, StoreTypeOK', WorldTypeOK' PROVE TypeOK'
  BY <1>8 DEF Edit, operatorVars, cacheVars, queueVars, jobVars, CacheTypeOK, QueueTypeOK,
              JobTypeOK
<1>9. ASSUME NEW m \in Migrations, NEW spec \in Specs,
             CreateMigration(m, spec) \/ EditMigration(m, spec)
      PROVE  TypeOK'
  <2>1. spec \in MigrationSpec
    BY WorkloadAssumption
  <2>2. \E o \in Migration : Store(m, o)
    <3>1. CASE CreateMigration(m, spec)
      <4> DEFINE t == [uid |-> sm[m].uid + 1, phase |-> "live", finalizer |-> FALSE,
                       held |-> FALSE, spec |-> spec]
      <4>1. Store(m, t) /\ t \in Migration
        BY <2>1, <3>1 DEF CreateMigration, StoreTypeOK, Migration, Phases
      <4> QED
        BY <4>1
    <3>2. CASE EditMigration(m, spec)
      BY <2>1, <3>2 DEF EditMigration, StoreTypeOK, Migration
    <3> QED
      BY <1>9, <3>1, <3>2
  <2>3. StoreTypeOK' /\ WorldTypeOK'
    BY <1>9, <2>2, StoreType DEF CreateMigration, EditMigration, StoreTypeOK, WorldTypeOK
  <2> QED
    BY <1>8, <1>9, <2>3 DEF CreateMigration, EditMigration
<1>10. ASSUME NEW m \in Migrations, NEW foreground \in BOOLEAN,
              DeleteMigration(m, foreground)
       PROVE  TypeOK'
  <2> DEFINE t == IF sm[m].finalizer \/ foreground
                  THEN [sm[m] EXCEPT !.phase = "deleting", !.held = foreground]
                  ELSE [sm[m] EXCEPT !.phase = "gone"]
  <2>1. Store(m, t) /\ t \in Migration
    BY <1>10 DEF DeleteMigration, StoreTypeOK, Migration, Phases
  <2>2. StoreTypeOK' /\ WorldTypeOK'
    BY <1>10, <2>1, StoreType DEF DeleteMigration, StoreTypeOK, WorldTypeOK
  <2> QED
    BY <1>8, <1>10, <2>2 DEF DeleteMigration
<1>11. CASE DeleteBackup
  <2>1. StoreTypeOK' /\ WorldTypeOK'
    BY <1>0, <1>11 DEF DeleteBackup, StoreTypeOK, WorldTypeOK
  <2> QED
    BY <1>8, <1>11, <2>1 DEF DeleteBackup
<1>12. ASSUME NEW place \in Places, NEW image \in Images, StartPod(place, image)
       PROVE  TypeOK'
  <2>1. StoreTypeOK'
    BY <1>12 DEF StartPod, storeVars, StoreTypeOK
  <2>2. WorldTypeOK'
    BY <1>12, PutType DEF StartPod, WorldTypeOK
  <2> QED
    BY <1>8, <1>12, <2>1, <2>2 DEF StartPod
<1>13. ASSUME NEW place \in Places, StopPod(place) PROVE TypeOK'
  <2>1. StoreTypeOK'
    BY <1>13 DEF StopPod, StoreTypeOK
  <2>2. WorldTypeOK'
    BY <1>13, WithoutType DEF StopPod, WorldTypeOK
  <2> QED
    BY <1>8, <1>13, <2>1, <2>2 DEF StopPod
<1>14. ASSUME NEW r \in Refs, DeleteWorkload(r) \/ CreateWorkload(r) PROVE TypeOK'
  <2>1. StoreTypeOK' /\ WorldTypeOK'
    BY <1>14 DEF DeleteWorkload, CreateWorkload, storeVars, StoreTypeOK, WorldTypeOK
  <2> QED
    BY <1>8, <1>14, <2>1 DEF DeleteWorkload, CreateWorkload
<1>15. ASSUME NEW n \in Refusable, Refuse(n) PROVE TypeOK'
  <2>1. StoreTypeOK' /\ WorldTypeOK'
    BY <1>15 DEF Refuse, storeVars, StoreTypeOK, WorldTypeOK
  <2> QED
    BY <1>8, <1>15, <2>1 DEF Refuse
<1>16. CASE CreateNamespace
  <2>1. StoreTypeOK'
    BY <1>16 DEF CreateNamespace, StoreTypeOK
  <2> QED
    BY <1>16, <2>1 DEF CreateNamespace, worldVars, operatorVars, cacheVars, queueVars,
       jobVars, WorldTypeOK, CacheTypeOK, QueueTypeOK, JobTypeOK
<1> QED
  BY <1>1, <1>2, <1>3, <1>4, <1>5, <1>6, <1>7, <1>9, <1>10, <1>11, <1>12, <1>13, <1>14,
     <1>15, <1>16
  DEF Manager, Collector, Users

LEMMA NextType == TypeOK /\ [Next]_vars => TypeOK'
<1> SUFFICES ASSUME TypeOK, [Next]_vars PROVE TypeOK'
  OBVIOUS
<1>1. CASE Next
  BY <1>1, WorkerType, OthersType DEF Next
<1>2. CASE UNCHANGED vars
  BY <1>2 DEF vars, smVars, storeVars, worldVars, cacheVars, queueVars, jobVars, TypeOK, StoreTypeOK,
              WorldTypeOK, CacheTypeOK, QueueTypeOK, JobTypeOK
<1> QED
  BY <1>1, <1>2

(***************************************************************************)
(* Every object, cache, queue and job of the controller keeps its type.    *)
(***************************************************************************)
THEOREM TypeCorrect == Spec => []TypeOK
BY InitType, NextType, PTL DEF Spec

-----------------------------------------------------------------------------
(***************************************************************************)
(* The copies of a StatefulMigration lag behind it.                        *)
(***************************************************************************)

\* What anybody but the worker's last step may do to a stored object.
Later(s, t) ==
  \/ s.phase = "gone" /\ s.uid < t.uid
  \/ /\ t.uid = s.uid
     /\ s.phase # "live" => t.phase # "live"
     /\ s.phase = "gone" => t.phase = "gone"
     /\ t.finalizer => s.finalizer \/ s.phase = "live"
     /\ s.finalizer => t.finalizer /\ t.phase # "gone"

LEMMA BehindItself == ASSUME NEW o \in Migration PROVE Behind(o, o)
BY DEF Behind, Migration

LEMMA BehindLater ==
  ASSUME NEW o \in Migration, NEW s \in Migration, NEW t \in Migration,
         Behind(o, s), Later(s, t)
  PROVE  Behind(o, t)
BY DEF Behind, Later, Migration, Phases

LEMMA CopiesLagInit == Init => CopiesLag
<1> SUFFICES ASSUME Init PROVE CopiesLag
  OBVIOUS
<1>1. TypeOK
  BY InitType
<1>2. \A m \in Migrations : Behind(sm[m], sm[m])
  BY <1>1, BehindItself DEF TypeOK, StoreTypeOK
<1>3. \A m \in Migrations : smCache[m] = sm[m] /\ events[m] = <<>> /\ Len(events[m]) = 0
  BY DEF Init
<1>4. CacheLags /\ CacheCatchesUp
  BY <1>2, <1>3 DEF CacheLags, CacheCatchesUp
<1>5. JobLags /\ NeverForgotten
  BY DEF Init, JobLags, NeverForgotten
<1> QED
  BY <1>4, <1>5 DEF CopiesLag

\* A step that leaves objects, caches, queue and the job's object alone.
LEMMA QuietStep ==
  ASSUME CopiesLag, UNCHANGED <<smVars, smCache, queue, delayed, key, obj>>,
         pc' = pc \/ (pc \notin {"idle", "finalizer"} /\ pc' # "idle")
  PROVE  CopiesLag'
BY DEF smVars, CopiesLag, CacheLags, CacheCatchesUp, JobLags, NeverForgotten, Exists

\* A job that ends and asks to be run again.
LEMMA AgainStep ==
  ASSUME CopiesLag, UNCHANGED <<smVars, smCache, queue>>, EndJob,
         delayed' = delayed \cup {key}
  PROVE  CopiesLag'
<1>1. CacheLags' /\ CacheCatchesUp' /\ JobLags'
  BY DEF smVars, CopiesLag, CacheLags, CacheCatchesUp, JobLags, EndJob
<1>2. NeverForgotten'
  BY DEF smVars, CopiesLag, NeverForgotten, Exists
<1> QED
  BY <1>1, <1>2 DEF CopiesLag

(***************************************************************************)
(* The indices of a sequence that has grown by one.                        *)
(***************************************************************************)
LEMMA Indices ==
  ASSUME NEW n \in Nat, NEW i \in 1..(n + 1)
  PROVE  i \in 1..n \/ i = n + 1
OBVIOUS

LEMMA EarlierIndex ==
  ASSUME NEW n \in Nat, NEW i \in 1..(n + 1), NEW j \in 1..(n + 1), i < j
  PROVE  i \in 1..n
OBVIOUS

(***************************************************************************)
(* An object is stored that the cached copy and those on their way to the  *)
(* cache are behind.                                                       *)
(***************************************************************************)
LEMMA NewEvent ==
  ASSUME TypeOK, CopiesLag, UNCHANGED smCache,
         NEW m \in Migrations, NEW t \in Migration, Store(m, t),
         Behind(smCache[m], t), \A i \in 1..Len(events[m]) : Behind(events[m][i], t)
  PROVE  CacheLags' /\ CacheCatchesUp' /\ events'[m] # <<>>
<1> USE DEF TypeOK, StoreTypeOK
<1> DEFINE e == events[m]
<1>1. /\ e \in Seq(Migration) /\ Len(e) \in Nat
      /\ sm' = [sm EXCEPT ![m] = t] /\ events' = [events EXCEPT ![m] = Append(e, t)]
  BY LenProperties DEF Store
<1>2. /\ Append(e, t) # <<>> /\ Len(Append(e, t)) = Len(e) + 1
      /\ \A i \in 1..Len(e) : Append(e, t)[i] = e[i]
      /\ Append(e, t)[Len(e) + 1] = t
  BY <1>1, AppendProperties
<1>3. sm'[m] = t /\ events'[m] = Append(e, t)
  BY <1>1
<1>4. Behind(t, t)
  BY BehindItself
<1>5. \A i \in 1..Len(Append(e, t)) : /\ Behind(smCache[m], Append(e, t)[i])
                                      /\ Behind(Append(e, t)[i], t)
  <2> SUFFICES ASSUME NEW i \in 1..Len(Append(e, t))
               PROVE  Behind(smCache[m], Append(e, t)[i]) /\ Behind(Append(e, t)[i], t)
    OBVIOUS
  <2>1. CASE i \in 1..Len(e)
    BY <1>2, <2>1 DEF CopiesLag, CacheLags
  <2>2. CASE i = Len(e) + 1
    BY <1>2, <1>4, <2>2
  <2>3. i \in 1..Len(e) \/ i = Len(e) + 1
    BY <1>1, <1>2, Indices
  <2> QED
    BY <2>1, <2>2, <2>3
<1>6. \A i, j \in 1..Len(Append(e, t)) :
         i < j => Behind(Append(e, t)[i], Append(e, t)[j])
  <2> SUFFICES ASSUME NEW i \in 1..Len(Append(e, t)), NEW j \in 1..Len(Append(e, t)),
                      i < j
               PROVE  Behind(Append(e, t)[i], Append(e, t)[j])
    OBVIOUS
  <2>1. i \in 1..Len(e)
    BY <1>1, <1>2, EarlierIndex
  <2>2. CASE j \in 1..Len(e)
    BY <1>2, <2>1, <2>2 DEF CopiesLag, CacheLags
  <2>3. CASE j = Len(e) + 1
    BY <1>2, <2>1, <2>3
  <2>4. j \in 1..Len(e) \/ j = Len(e) + 1
    BY <1>1, <1>2, Indices
  <2> QED
    BY <2>2, <2>3, <2>4
<1>7. CacheLags'
  <2> SUFFICES ASSUME NEW n \in Migrations
               PROVE  /\ Behind(smCache[n], sm'[n])
                      /\ \A i \in 1..Len(events'[n]) : /\ Behind(smCache[n], events'[n][i])
                                                       /\ Behind(events'[n][i], sm'[n])
                      /\ \A i, j \in 1..Len(events'[n]) :
                            i < j => Behind(events'[n][i], events'[n][j])
    BY DEF CacheLags
  <2>1. CASE n = m
    BY <1>3, <1>5, <1>6, <2>1
  <2>2. CASE n # m
    <3>1. sm'[n] = sm[n] /\ events'[n] = events[n]
      BY <1>1, <2>2
    <3> QED
      BY <3>1 DEF CopiesLag, CacheLags
  <2> QED
    BY <2>1, <2>2
<1>8. CacheCatchesUp'
  <2> SUFFICES ASSUME NEW n \in Migrations
               PROVE  sm'[n] = IF events'[n] = <<>> THEN smCache[n]
                               ELSE events'[n][Len(events'[n])]
    BY DEF CacheCatchesUp
  <2>1. CASE n = m
    BY <1>2, <1>3, <2>1
  <2>2. CASE n # m
    <3>1. sm'[n] = sm[n] /\ events'[n] = events[n]
      BY <1>1, <2>2
    <3> QED
      BY <3>1 DEF CopiesLag, CacheCatchesUp
  <2> QED
    BY <2>1, <2>2
<1> QED
  BY <1>2, <1>3, <1>7, <1>8

\* Whatever exists is queued, delayed or worked on, or has an event to come:
\* storing an object makes one.
LEMMA NewEventTracked ==
  ASSUME TypeOK, CopiesLag, NEW m \in Migrations, NEW t, Store(m, t),
         events'[m] # <<>>, UNCHANGED <<queue, delayed, key>>
  PROVE  NeverForgotten'
<1> SUFFICES ASSUME NEW n \in Migrations, sm'[n].phase # "gone"
             PROVE  n \in queue' \cup delayed' \cup {key'} \/ events'[n] # <<>>
  BY DEF NeverForgotten, Exists
<1>1. CASE n = m
  BY <1>1
<1>2. CASE n # m
  <2>1. sm'[n] = sm[n] /\ events'[n] = events[n]
    BY <1>2 DEF Store, TypeOK, StoreTypeOK
  <2> QED
    BY <1>2, <2>1 DEF CopiesLag, NeverForgotten, Exists
<1> QED
  BY <1>1, <1>2

\* A change of one stored object behind the worker's back.
LEMMA StoreStep ==
  ASSUME TypeOK, CopiesLag, UNCHANGED <<smCache, queue, delayed, pc, key, obj>>,
         NEW m \in Migrations, NEW t \in Migration, Later(sm[m], t), Store(m, t)
  PROVE  CopiesLag'
<1> USE DEF TypeOK, StoreTypeOK, CacheTypeOK, JobTypeOK
<1>1. Behind(smCache[m], t)
  BY BehindLater DEF CopiesLag, CacheLags
<1>2. ASSUME NEW i \in 1..Len(events[m]) PROVE events[m][i] \in Migration
  BY <1>2, ElementOfSeq, LenProperties
<1>3. \A i \in 1..Len(events[m]) : Behind(events[m][i], t)
  BY <1>2, BehindLater DEF CopiesLag, CacheLags
<1>4. CacheLags' /\ CacheCatchesUp' /\ events'[m] # <<>>
  BY <1>1, <1>3, NewEvent
<1>5. NeverForgotten'
  BY <1>4, NewEventTracked
<1>6. JobLags'
  <2> SUFFICES ASSUME pc # "idle"
               PROVE  /\ Behind(obj, sm'[key])
                      /\ obj.phase # "gone"
                      /\ pc # "finalizer" => obj.finalizer
                      /\ obj.phase = "deleting" =>
                            /\ ~(smCache[key].phase = "live" /\ smCache[key].uid = obj.uid)
                            /\ \A i \in 1..Len(events'[key]) :
                                  ~(events'[key][i].phase = "live" /\ events'[key][i].uid = obj.uid)
    BY DEF JobLags
  <2>1. /\ Behind(obj, sm[key]) /\ key \in Migrations /\ obj \in Migration
        /\ obj.phase # "gone" /\ (pc # "finalizer" => obj.finalizer)
        /\ obj.phase = "deleting" =>
               ~(smCache[key].phase = "live" /\ smCache[key].uid = obj.uid)
    BY DEF CopiesLag, JobLags
  <2>2. CASE key # m
    <3>1. sm'[key] = sm[key] /\ events'[key] = events[key]
      BY <2>1, <2>2 DEF Store
    <3> QED
      BY <2>1, <3>1 DEF CopiesLag, JobLags
  <2>3. CASE key = m
    <3>1. Behind(obj, t) /\ sm'[key] = t
      BY <2>1, <2>3, BehindLater DEF Store
    <3>2. obj.phase = "deleting" => ~(t.phase = "live" /\ t.uid = obj.uid)
      BY <2>1, <3>1 DEF Behind, Migration
    <3>3. ASSUME NEW i \in 1..Len(events'[key]), obj.phase = "deleting"
          PROVE  ~(events'[key][i].phase = "live" /\ events'[key][i].uid = obj.uid)
      <4>1. /\ events'[key] = Append(events[key], t) /\ events[key] \in Seq(Migration)
            /\ Len(events[key]) \in Nat
        BY <2>1, <2>3, LenProperties DEF Store
      <4>2. /\ Len(events'[key]) = Len(events[key]) + 1
            /\ \A k \in 1..Len(events[key]) : events'[key][k] = events[key][k]
            /\ events'[key][Len(events[key]) + 1] = t
        BY <4>1, AppendProperties
      <4>3. CASE i \in 1..Len(events[key])
        BY <3>3, <4>2, <4>3 DEF CopiesLag, JobLags
      <4>4. CASE i = Len(events[key]) + 1
        BY <3>2, <3>3, <4>2, <4>4
      <4> QED
        BY <3>3, <4>1, <4>2, <4>3, <4>4
    <3> QED
      BY <2>1, <3>1, <3>3
  <2> QED
    BY <2>2, <2>3
<1> QED
  BY <1>4, <1>5, <1>6 DEF CopiesLag

\* Taking an object out of the cache.
LEMMA ReconcileLags ==
  ASSUME TypeOK, CopiesLag, NEW m \in Migrations, Reconcile(m)
  PROVE  CopiesLag'
<1> USE DEF TypeOK, StoreTypeOK, CacheTypeOK, JobTypeOK
<1>0. /\ pc = "idle" /\ key = Nil /\ Nil \notin Migrations
      /\ queue' = queue \ {m} /\ UNCHANGED <<sm, events, smCache, delayed>>
      /\ smCache[m] \in Migration /\ sm[m] \in Migration
      /\ Behind(smCache[m], sm[m])
  BY NamesAssumption DEF Reconcile, storeVars, smVars, cacheVars, CopiesLag, CacheLags
<1>1. CacheLags' /\ CacheCatchesUp'
  BY <1>0 DEF CopiesLag, CacheLags, CacheCatchesUp
<1>2. CASE smCache[m].phase = "gone" /\ UNCHANGED jobVars
  <2>1. JobLags'
    BY <1>0, <1>2 DEF jobVars, JobLags
  <2>2. Exists(m) => events[m] # <<>>
    BY <1>2 DEF Exists, CopiesLag, CacheCatchesUp
  <2>3. NeverForgotten'
    BY <1>0, <1>2, <2>2 DEF CopiesLag, NeverForgotten, Exists, jobVars
  <2> QED
    BY <1>1, <2>1, <2>3 DEF CopiesLag
<1>3. CASE /\ smCache[m].phase # "gone"
           /\ key' = m /\ obj' = smCache[m] /\ pc' = FirstStep(smCache[m])
  <2>1. pc' # "finalizer" => obj'.finalizer
    BY <1>0, <1>3 DEF FirstStep, Migration
  <2>2. ASSUME smCache[m].phase = "deleting", NEW i \in 1..Len(events[m])
        PROVE  ~(events[m][i].phase = "live" /\ events[m][i].uid = smCache[m].uid)
    <3>1. Behind(smCache[m], events[m][i])
      BY <2>2 DEF CopiesLag, CacheLags
    <3> QED
      BY <2>2, <3>1 DEF Behind
  <2>3. JobLags'
    BY <1>0, <1>3, <2>1, <2>2 DEF JobLags
  <2>4. NeverForgotten'
    BY <1>0, <1>3 DEF CopiesLag, NeverForgotten, Exists
  <2> QED
    BY <1>1, <2>3, <2>4 DEF CopiesLag
<1> QED
  BY <1>2, <1>3 DEF Reconcile

\* The job goes on with the object it has made.
LEMMA AddFinalizerLags ==
  ASSUME TypeOK, CopiesLag, AddFinalizer
  PROVE  CopiesLag'
<1> USE DEF TypeOK, StoreTypeOK, CacheTypeOK, JobTypeOK
<1>1. CASE Fail /\ UNCHANGED smVars
  BY <1>1, AgainStep DEF AddFinalizer, Fail, cacheVars
<1>2. CASE /\ Accepts /\ obj.phase = "live"
           /\ Store(key, [obj EXCEPT !.finalizer = TRUE])
           /\ obj' = [obj EXCEPT !.finalizer = TRUE]
           /\ pc' = "label" /\ UNCHANGED <<key, queueVars>>
  <2> DEFINE t == [obj EXCEPT !.finalizer = TRUE]
  <2>1. /\ key \in Migrations /\ obj \in Migration /\ obj = sm[key]
        /\ t \in Migration /\ t.phase = "live" /\ t.finalizer
    BY <1>2 DEF AddFinalizer, Accepts, Migration
  <2>2. Store(key, t) /\ sm'[key] = t /\ UNCHANGED <<smCache, queue, delayed, key>>
    BY <1>2, <2>1 DEF AddFinalizer, cacheVars, queueVars, Store
  <2>3. Later(sm[key], t)
    BY <1>2, <2>1 DEF Later, Migration
  <2>4. /\ Behind(smCache[key], t)
        /\ \A i \in 1..Len(events[key]) : Behind(events[key][i], t)
    <3>1. ASSUME NEW i \in 1..Len(events[key]) PROVE events[key][i] \in Migration
      BY <2>1, <3>1, ElementOfSeq, LenProperties
    <3>2. /\ Behind(smCache[key], sm[key]) /\ smCache[key] \in Migration
          /\ \A i \in 1..Len(events[key]) : Behind(events[key][i], sm[key])
      BY <2>1 DEF CopiesLag, CacheLags
    <3> HIDE DEF t
    <3> QED
      BY <2>1, <2>3, <3>1, <3>2, BehindLater
  <2>5. CacheLags' /\ CacheCatchesUp' /\ events'[key] # <<>>
    BY <2>1, <2>2, <2>4, NewEvent
  <2>6. Behind(t, t)
    BY <2>1, BehindItself
  <2>7. JobLags'
    BY <1>2, <2>1, <2>2, <2>6 DEF JobLags
  <2>8. NeverForgotten'
    BY <2>1, <2>2, <2>5, NewEventTracked
  <2> QED
    BY <2>5, <2>7, <2>8 DEF CopiesLag
<1> QED
  BY <1>1, <1>2 DEF AddFinalizer

(***************************************************************************)
(* Letting an object go.  Neither the cache nor an event on its way there  *)
(* must hold a live copy that carries the finalizer: none does, since the  *)
(* job has read the deletion out of the cache, and events come in order.   *)
(***************************************************************************)
LEMMA RemoveFinalizerLags ==
  ASSUME TypeOK, CopiesLag, RemoveFinalizer
  PROVE  CopiesLag'
<1> USE DEF TypeOK, StoreTypeOK, CacheTypeOK, JobTypeOK
<1>1. CASE Fail /\ UNCHANGED smVars
  BY <1>1, AgainStep DEF RemoveFinalizer, Fail, cacheVars
<1>2. CASE /\ Accepts /\ Store(key, Released(obj))
           /\ EndJob /\ UNCHANGED <<queueVars, karmada>>
  <2> DEFINE t == Released(obj)
  <2>1. /\ key \in Migrations /\ obj \in Migration /\ obj = sm[key]
        /\ obj.phase = "deleting" /\ obj.finalizer
        /\ smCache[key] \in Migration
    BY <1>2 DEF RemoveFinalizer, Accepts, CopiesLag, JobLags
  <2>2. /\ t \in Migration /\ t.uid = obj.uid /\ t.phase # "live"
        /\ ~t.finalizer
    BY <2>1 DEF Released, Migration, Phases
  <2>3. /\ Store(key, t) /\ pc' = "idle" /\ key' = Nil
        /\ UNCHANGED <<smCache, queue, delayed>>
    BY <1>2 DEF RemoveFinalizer, EndJob, queueVars, cacheVars
  <2>4. ASSUME NEW c \in Migration, Behind(c, obj),
               ~(c.phase = "live" /\ c.uid = obj.uid)
        PROVE  Behind(c, t)
    BY <2>1, <2>2, <2>4 DEF Behind
  <2>5. Behind(smCache[key], t)
    BY <1>2, <2>1, <2>4 DEF RemoveFinalizer, CopiesLag, CacheLags, JobLags
  <2>6. \A i \in 1..Len(events[key]) : Behind(events[key][i], t)
    <3> SUFFICES ASSUME NEW i \in 1..Len(events[key]) PROVE Behind(events[key][i], t)
      OBVIOUS
    <3>1. events[key][i] \in Migration
      BY <2>1, ElementOfSeq, LenProperties
    <3>2. /\ Behind(events[key][i], obj)
          /\ ~(events[key][i].phase = "live" /\ events[key][i].uid = obj.uid)
      BY <1>2, <2>1 DEF RemoveFinalizer, CopiesLag, CacheLags, JobLags
    <3> QED
      BY <2>4, <3>1, <3>2
  <2>7. CacheLags' /\ CacheCatchesUp' /\ events'[key] # <<>>
    BY <2>1, <2>2, <2>3, <2>5, <2>6, NewEvent
  <2>8. JobLags'
    BY <2>3 DEF JobLags
  <2>9. NeverForgotten'
    <3> SUFFICES ASSUME NEW n \in Migrations, sm'[n].phase # "gone"
                 PROVE  n \in queue' \cup delayed' \cup {key'} \/ events'[n] # <<>>
      BY DEF NeverForgotten, Exists
    <3>1. CASE n = key
      BY <2>7, <3>1
    <3>2. CASE n # key
      <4>1. sm'[n] = sm[n] /\ events'[n] = events[n]
        BY <2>3, <3>2 DEF Store
      <4> QED
        BY <2>3, <3>2, <4>1 DEF CopiesLag, NeverForgotten, Exists
    <3> QED
      BY <3>1, <3>2
  <2> QED
    BY <2>7, <2>8, <2>9 DEF CopiesLag
<1> QED
  BY <1>1, <1>2 DEF RemoveFinalizer

LEMMA WorkerLags ==
  ASSUME TypeOK, CopiesLag, Worker
  PROVE  CopiesLag'
<1>1. CASE \E m \in Migrations : Reconcile(m)
  BY <1>1, ReconcileLags
<1>2. CASE AddFinalizer
  BY <1>2, AddFinalizerLags
<1>3. CASE RemoveFinalizer
  BY <1>3, RemoveFinalizerLags
<1>4. CASE FinishNormal
  BY <1>4, AgainStep DEF FinishNormal, storeVars, cacheVars
<1>5. ASSUME UNCHANGED <<smVars, cacheVars>>, Fail PROVE CopiesLag'
  BY <1>5, AgainStep DEF Fail, cacheVars
<1>6. ASSUME UNCHANGED <<smVars, cacheVars>>, pc \notin {"idle", "finalizer"},
             NEW step \in Steps \ {"idle"}, Goto(step)
      PROVE  CopiesLag'
  BY <1>6, QuietStep DEF Goto, queueVars, cacheVars
<1>7. CASE AddLabel \/ DiscoverPods
  BY <1>5, <1>6, <1>7 DEF AddLabel, DiscoverPods, storeVars, Steps, NormalSteps
<1>8. CASE EnsureNamespace
  <2>1. \E step \in Steps \ {"idle"} : Goto(step)
    BY <1>8 DEF EnsureNamespace, Steps, NormalSteps
  <2> QED
    BY <1>6, <1>8, <2>1 DEF EnsureNamespace
<1>9. CASE EnsureNamespacePolicy \/ EnsureCRDs
  BY <1>5, <1>6, <1>9 DEF EnsureNamespacePolicy, EnsureCRDs, Steps, NormalSteps
<1>10. CASE WriteBackup
  BY <1>5, <1>6, <1>10 DEF WriteBackup, Steps, NormalSteps
<1>11. CASE WritePolicy
  BY <1>6, <1>11 DEF WritePolicy, NextItem, Steps, NormalSteps
<1>12. CASE ListOrphans \/ ListOwned \/ DeleteListed
  BY <1>6, <1>12 DEF ListOrphans, ListOwned, DeleteListed, storeVars, Steps
<1>13. CASE RemoveLabel
  BY <1>5, <1>6, <1>13 DEF RemoveLabel, Steps, DeleteSteps
<1> QED
  BY <1>1, <1>2, <1>3, <1>4, <1>7, <1>8, <1>9, <1>10, <1>11, <1>12, <1>13 DEF Worker

LEMMA ManagerLags ==
  ASSUME TypeOK, CopiesLag, Manager \/ RequestFails \/ Restart
  PROVE  CopiesLag'
<1> USE DEF TypeOK, StoreTypeOK, CacheTypeOK, QueueTypeOK, JobTypeOK
<1>1. CASE RequestFails
  BY <1>1, AgainStep DEF RequestFails, Fail, storeVars, cacheVars
<1>2. CASE Restart
  <2>1. /\ pc' = "idle" /\ smCache' = sm /\ sm' = sm
        /\ \A m \in Migrations : /\ events'[m] = <<>> /\ Len(events'[m]) = 0
                                 /\ sm[m].phase # "gone" => m \in queue'
    BY <1>2 DEF Restart, StartManager, EndJob
  <2>2. \A m \in Migrations : Behind(sm[m], sm[m])
    BY BehindItself
  <2>3. CacheLags'
    <3> SUFFICES ASSUME NEW m \in Migrations
                 PROVE  /\ Behind(smCache'[m], sm'[m])
                        /\ \A i \in 1..Len(events'[m]) : FALSE
      BY DEF CacheLags
    <3>1. Len(events'[m]) = 0
      BY <2>1
    <3> QED
      BY <2>1, <2>2, <3>1
  <2>4. CacheCatchesUp'
    BY <2>1 DEF CacheCatchesUp
  <2> QED
    BY <2>1, <2>3, <2>4 DEF CopiesLag, JobLags, NeverForgotten, Exists
<1>3. ASSUME NEW m \in Migrations, ObserveMigration(m) PROVE CopiesLag'
  <2> DEFINE e == events[m]
  <2>1. /\ e \in Seq(Migration) /\ e # <<>> /\ Len(e) \in Nat /\ Len(e) # 0
        /\ smCache' = [smCache EXCEPT ![m] = Head(e)]
        /\ events' = [events EXCEPT ![m] = Tail(e)]
        /\ queue' = queue \cup {m}
        /\ UNCHANGED <<sm, delayed, pc, key, obj>>
    BY <1>3, LenProperties, EmptySeq DEF ObserveMigration, jobVars
  <2>2. /\ Head(e) = e[1] /\ Len(Tail(e)) = Len(e) - 1
        /\ \A i \in 1..Len(Tail(e)) : Tail(e)[i] = e[i + 1]
        /\ (Tail(e) = <<>>) <=> (Len(e) = 1)
    <3>1. Tail(e) \in Seq(Migration) /\ Len(Tail(e)) = Len(e) - 1
      BY <2>1, HeadTailProperties
    <3>2. (Tail(e) = <<>>) <=> (Len(Tail(e)) = 0)
      BY <3>1, EmptySeq
    <3> QED
      BY <2>1, <3>1, <3>2, HeadTailProperties
  <2>3. CacheLags'
    <3> SUFFICES ASSUME NEW n \in Migrations
                 PROVE  /\ Behind(smCache'[n], sm'[n])
                        /\ \A i \in 1..Len(events'[n]) : /\ Behind(smCache'[n], events'[n][i])
                                                         /\ Behind(events'[n][i], sm'[n])
                        /\ \A i, j \in 1..Len(events'[n]) :
                              i < j => Behind(events'[n][i], events'[n][j])
      BY DEF CacheLags
    <3>1. CASE n = m
      <4>1. smCache'[n] = e[1] /\ events'[n] = Tail(e) /\ sm'[n] = sm[m]
        BY <2>1, <2>2, <3>1
      <4>2. \A i \in 1..Len(Tail(e)) : /\ i + 1 \in 1..Len(e) /\ 1 < i + 1
                                       /\ Tail(e)[i] = e[i + 1]
        BY <2>1, <2>2
      <4>3. 1 \in 1..Len(e)
        BY <2>1
      <4>4. Behind(e[1], sm[m])
        BY <4>3 DEF CopiesLag, CacheLags
      <4>5. ASSUME NEW i \in 1..Len(Tail(e))
            PROVE  Behind(e[1], Tail(e)[i]) /\ Behind(Tail(e)[i], sm[m])
        BY <4>2, <4>3, <4>5 DEF CopiesLag, CacheLags
      <4>6. ASSUME NEW i \in 1..Len(Tail(e)), NEW j \in 1..Len(Tail(e)), i < j
            PROVE  Behind(Tail(e)[i], Tail(e)[j])
        <5>1. i + 1 < j + 1
          BY <4>6, <2>1, <2>2
        <5> QED
          BY <4>2, <4>6, <5>1 DEF CopiesLag, CacheLags
      <4> QED
        BY <4>1, <4>4, <4>5, <4>6
    <3>2. CASE n # m
      <4>1. smCache'[n] = smCache[n] /\ events'[n] = events[n] /\ sm'[n] = sm[n]
        BY <2>1, <3>2
      <4> QED
        BY <4>1 DEF CopiesLag, CacheLags
    <3> QED
      BY <3>1, <3>2
  <2>4. CacheCatchesUp'
    <3> SUFFICES ASSUME NEW n \in Migrations
                 PROVE  sm'[n] = IF events'[n] = <<>> THEN smCache'[n]
                                 ELSE events'[n][Len(events'[n])]
      BY DEF CacheCatchesUp
    <3>1. CASE n = m
      <4>1. sm[m] = e[Len(e)]
        BY <2>1 DEF CopiesLag, CacheCatchesUp
      <4> QED
        BY <2>1, <2>2, <3>1, <4>1
    <3>2. CASE n # m
      BY <2>1, <3>2 DEF CopiesLag, CacheCatchesUp
    <3> QED
      BY <3>1, <3>2
  <2>5. JobLags'
    <3> SUFFICES ASSUME pc # "idle", obj.phase = "deleting", key = m
                 PROVE  /\ ~(e[1].phase = "live" /\ e[1].uid = obj.uid)
                        /\ \A i \in 1..Len(Tail(e)) :
                              ~(Tail(e)[i].phase = "live" /\ Tail(e)[i].uid = obj.uid)
      BY <2>1, <2>2 DEF CopiesLag, JobLags
    <3>1. \A i \in 1..Len(e) : ~(e[i].phase = "live" /\ e[i].uid = obj.uid)
      BY DEF CopiesLag, JobLags
    <3> QED
      BY <2>1, <2>2, <3>1
  <2>6. NeverForgotten'
    BY <2>1 DEF CopiesLag, NeverForgotten, Exists
  <2> QED
    BY <2>3, <2>4, <2>5, <2>6 DEF CopiesLag
<1>4. ASSUME UNCHANGED <<smVars, smCache, pc, key, obj>>,
             queue \cup delayed \subseteq queue' \cup delayed'
      PROVE  CopiesLag'
  BY <1>4 DEF smVars, CopiesLag, CacheLags, CacheCatchesUp, JobLags, NeverForgotten, Exists
<1>5. CASE ObserveBackups
  BY <1>4, <1>5 DEF ObserveBackups, storeVars, jobVars
<1>6. ASSUME NEW m \in Migrations, Requeue(m) PROVE CopiesLag'
  BY <1>4, <1>6 DEF Requeue, storeVars, cacheVars, jobVars
<1> QED
  BY <1>1, <1>2, <1>3, <1>5, <1>6 DEF Manager

LEMMA OthersLag ==
  ASSUME TypeOK, CopiesLag, Collector \/ Users
  PROVE  CopiesLag'
<1> USE DEF TypeOK, StoreTypeOK
<1>1. ASSUME UNCHANGED <<smVars, operatorVars>> PROVE CopiesLag'
  BY <1>1, QuietStep DEF operatorVars, cacheVars, queueVars, jobVars
<1>2. ASSUME NEW m \in Migrations, NEW t \in Migration, Later(sm[m], t),
             Store(m, t), UNCHANGED operatorVars
      PROVE  CopiesLag'
  BY <1>2, StoreStep DEF operatorVars, cacheVars, queueVars, jobVars
<1>3. CASE CollectBackup
  BY <1>1, <1>3 DEF CollectBackup, operatorVars
<1>4. ASSUME NEW m \in Migrations, EndForeground(m) PROVE CopiesLag'
  <2> DEFINE t == IF sm[m].finalizer THEN [sm[m] EXCEPT !.held = FALSE]
                  ELSE [sm[m] EXCEPT !.held = FALSE, !.phase = "gone"]
  <2>1. t \in Migration /\ Later(sm[m], t) /\ Store(m, t)
    BY <1>4 DEF EndForeground, Later, Migration, Phases
  <2> QED
    BY <1>2, <1>4, <2>1 DEF EndForeground, operatorVars
<1>5. ASSUME NEW m \in Migrations, NEW spec \in Specs, CreateMigration(m, spec)
      PROVE  CopiesLag'
  <2> DEFINE t == [uid |-> sm[m].uid + 1, phase |-> "live", finalizer |-> FALSE,
                   held |-> FALSE, spec |-> spec]
  <2>1. t \in Migration /\ Later(sm[m], t) /\ Store(m, t)
    BY <1>5, WorkloadAssumption DEF CreateMigration, Later, Migration, Phases
  <2> QED
    BY <1>2, <1>5, <2>1 DEF CreateMigration
<1>6. ASSUME NEW m \in Migrations, NEW spec \in Specs, EditMigration(m, spec)
      PROVE  CopiesLag'
  <2> DEFINE t == [sm[m] EXCEPT !.spec = spec]
  <2>1. t \in Migration /\ Later(sm[m], t) /\ Store(m, t)
    BY <1>6, WorkloadAssumption DEF EditMigration, Later, Migration, Phases
  <2> QED
    BY <1>2, <1>6, <2>1 DEF EditMigration
<1>7. ASSUME NEW m \in Migrations, NEW foreground \in BOOLEAN,
             DeleteMigration(m, foreground)
      PROVE  CopiesLag'
  <2> DEFINE t == IF sm[m].finalizer \/ foreground
                  THEN [sm[m] EXCEPT !.phase = "deleting", !.held = foreground]
                  ELSE [sm[m] EXCEPT !.phase = "gone"]
  <2>1. t \in Migration /\ Later(sm[m], t) /\ Store(m, t)
    BY <1>7 DEF DeleteMigration, Later, Migration, Phases
  <2> QED
    BY <1>2, <1>7, <2>1 DEF DeleteMigration
<1>8. CASE DeleteBackup
  BY <1>1, <1>8 DEF DeleteBackup
<1>9. ASSUME NEW place \in Places, NEW image \in Images,
             StartPod(place, image)
      PROVE  CopiesLag'
  BY <1>1, <1>9 DEF StartPod, storeVars
<1>10. ASSUME NEW r \in Refs, DeleteWorkload(r) \/ CreateWorkload(r)
       PROVE  CopiesLag'
  BY <1>1, <1>10 DEF DeleteWorkload, CreateWorkload, storeVars
<1>11. ASSUME NEW place \in Places, StopPod(place) PROVE CopiesLag'
  BY <1>1, <1>11 DEF StopPod
<1>12. ASSUME NEW n \in Refusable, Refuse(n) PROVE CopiesLag'
  BY <1>1, <1>12 DEF Refuse, storeVars
<1>13. CASE CreateNamespace
  BY <1>1, <1>13 DEF CreateNamespace
<1> QED
  BY <1>3, <1>4, <1>5, <1>6, <1>7, <1>8, <1>9, <1>10, <1>11, <1>12, <1>13
  DEF Collector, Users

LEMMA NextLags == TypeOK /\ CopiesLag /\ [Next]_vars => CopiesLag'
<1> SUFFICES ASSUME TypeOK, CopiesLag, [Next]_vars PROVE CopiesLag'
  OBVIOUS
<1>1. CASE Next
  BY <1>1, WorkerLags, ManagerLags, OthersLag DEF Next
<1>2. CASE UNCHANGED vars
  BY <1>2, QuietStep DEF vars, smVars, storeVars, cacheVars, queueVars, jobVars
<1> QED
  BY <1>1, <1>2

(***************************************************************************)
(* Every copy of a StatefulMigration, in the cache or in the worker's      *)
(* hands, is an earlier state of the stored object in the sense of Behind, *)
(* and every object that exists is tracked: whatever the interleaving of   *)
(* Reconcile with users, informers, faults and restarts.                   *)
(***************************************************************************)
THEOREM CopiesAlwaysLag == Spec => []CopiesLag
BY InitType, NextType, CopiesLagInit, NextLags, PTL DEF Spec

(***************************************************************************)
(* No StatefulMigration that exists is forgotten by the queue, the worker  *)
(* and the informer.                                                       *)
(***************************************************************************)
THEOREM NeverForgottenHolds == Spec => []NeverForgotten
<1>1. CopiesLag => NeverForgotten
  BY DEF CopiesLag
<1> QED
  BY <1>1, CopiesAlwaysLag, PTL

(***************************************************************************)
(* While reconcileNormal runs, its object exists, is the same object, and  *)
(* carries the finalizer.                                                  *)
(***************************************************************************)
THEOREM HeldWhileReconcilingHolds == Spec => []HeldWhileReconciling
<1>1. CopiesLag => HeldWhileReconciling
  BY DEF CopiesLag, JobLags, Behind, HeldWhileReconciling, Reconciling, Exists
<1> QED
  BY <1>1, CopiesAlwaysLag, PTL

=============================================================================
