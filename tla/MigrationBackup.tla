--------------------------- MODULE MigrationBackup --------------------------
(***************************************************************************)
(* The MigrationBackup controller (internal/controller/                    *)
(* migrationbackup_controller.go) with everything one Reconcile touches:   *)
(* StatefulMigrations and CheckpointBackups on the management cluster, the *)
(* labels of the target workload or pod, Karmada PropagationPolicies, the  *)
(* stateful-migration namespace and the CRD on the member clusters.        *)
(* Karmada's API server is reached through a kubeconfig of its own: it may *)
(* be the one the manager runs against, or another.                        *)
(*                                                                         *)
(* One step is one request to an API server.  Between two of them users    *)
(* edit and delete objects, pods come and go, informer caches catch up or  *)
(* stay behind, the garbage collector runs, requests fail and the operator *)
(* is restarted.  The manager runs one worker for the controller, so there *)
(* is one job at a time.                                                   *)
(***************************************************************************)
EXTENDS MigrationTypes, Functions, SequencesExt

CONSTANTS
  InitSpec,        \* the spec each migration is first created with
  Places,          \* the <<location, pod>> pairs where a pod can run
  Refusable,       \* backups the API server may come to refuse for good
  KarmadaMounted,  \* is there a Karmada kubeconfig in the operator's pod?
  KarmadaServer,   \* the API server it is for: Mgmt, the manager's, or another
  MaxUid,          \* bound: objects ever created under one migration name
  MaxEdits,        \* bound: changes made by users and workload controllers
  MaxFaults        \* bound: failed requests and operator restarts

ASSUME EnvironmentAssumption ==
  /\ InitSpec \in [Migrations -> Specs]
  /\ Places \subseteq Locations \X Pods
  /\ Refusable \subseteq BackupNames
  /\ KarmadaMounted \in BOOLEAN
  /\ MaxUid \in Nat /\ MaxEdits \in Nat /\ MaxFaults \in Nat

VARIABLES
  \* The API servers
  sm,           \* StatefulMigrations, by name
  events,       \* their changes the informer has not yet handled, oldest first
  backups,      \* CheckpointBackups, by name: a function on the existing ones
  policies,     \* PropagationPolicies of backups, by name: the target cluster
  labelled,     \* <<location, ref>> pairs whose object carries the label
  namespaces,   \* API servers that have the stateful-migration namespace
  nsPolicy,     \* clusters in the placement of its PropagationPolicy, or Nil
  crds,         \* member clusters that have the CheckpointBackup CRD
  workloads,    \* StatefulSets and Deployments that exist
  pods,         \* running pods: a function from places to images
  refused,      \* backups the API server refuses: a quota, a webhook, a name or
                \* a label that is too long
  \* The manager: informer caches, work queue, lazily created Karmada client
  smCache, backupCache,
  queue,        \* keys ready for the worker
  delayed,      \* keys to be added again: RequeueAfter and error back-off
  karmada,      \* are KarmadaClient and MemberClusterClient initialised?
  \* The worker's job
  pc, key,
  obj,          \* the StatefulMigration this Reconcile works on
  found,        \* the pods discovered
  todo,         \* clusters a loop has still to visit
  items,        \* pods still to be backed up for the first of these
  victims,      \* names listed for deletion
  \* Budgets of the environment
  edits, faults

smVars    == <<sm, events>>
storeVars == <<smVars, backups, policies, labelled, namespaces, nsPolicy, crds>>
worldVars == <<workloads, pods, refused, edits>>
cacheVars == <<smCache, backupCache>>
queueVars == <<queue, delayed>>
jobVars   == <<pc, key, obj, found, todo, items, victims>>
vars == <<storeVars, worldVars, cacheVars, queueVars, karmada, jobVars, faults>>

NormalSteps == {"label", "discover", "namespace", "nsPolicy", "crd",
                "backup", "policy", "listOrphans"}
DeleteSteps == {"unlabel", "listOwned"}
Steps == {"idle", "finalizer", "delete"} \cup NormalSteps \cup DeleteSteps

StoreTypeOK ==
  /\ sm \in [Migrations -> Migration]
  /\ events \in [Migrations -> Seq(Migration)]
  /\ DOMAIN backups \subseteq BackupNames
  /\ \A n \in DOMAIN backups : backups[n] \in Backup
  /\ DOMAIN policies \subseteq {PolicyName(n) : n \in BackupNames}
  /\ \A n \in DOMAIN policies : policies[n] \in Clusters
  /\ labelled \subseteq Locations \X Refs
  /\ namespaces \subseteq {Mgmt, KarmadaServer}
  /\ nsPolicy \in {Nil} \cup SUBSET Clusters
  /\ crds \subseteq Clusters

WorldTypeOK ==
  /\ workloads \subseteq Refs
  /\ DOMAIN pods \subseteq Places
  /\ \A pl \in DOMAIN pods : pods[pl] \in Images
  /\ refused \subseteq Refusable

CacheTypeOK ==
  /\ smCache \in [Migrations -> Migration]
  /\ DOMAIN backupCache \subseteq BackupNames
  /\ \A n \in DOMAIN backupCache : backupCache[n] \in Backup

QueueTypeOK ==
  /\ queue \subseteq Migrations /\ delayed \subseteq Migrations
  /\ karmada \in BOOLEAN

JobTypeOK ==
  /\ pc \in Steps
  /\ IF pc = "idle" THEN key = Nil /\ obj = Nil
                    ELSE key \in Migrations /\ obj \in Migration
  /\ found \in Seq(PodInfo)
  /\ todo \in Seq(Clusters)
  /\ items \in Seq(PodInfo)
  /\ pc \in {"backup", "policy"} => found # <<>> /\ todo # <<>> /\ items # <<>>
  /\ victims \subseteq BackupNames

TypeOK ==
  /\ StoreTypeOK /\ WorldTypeOK /\ CacheTypeOK /\ QueueTypeOK /\ JobTypeOK
  /\ edits \in 0..MaxEdits /\ faults \in 0..MaxFaults

\* A stored function with an entry added or replaced, and without some names.
Put(f, k, v) == [x \in DOMAIN f \cup {k} |-> IF x = k THEN v ELSE f[x]]
Without(f, S) == Restrict(f, DOMAIN f \ S)

\* The CheckpointBackups whose cached object differs from the stored one.
Stale ==
  {n \in DOMAIN backups \cup DOMAIN backupCache :
     \/ (n \in DOMAIN backups) # (n \in DOMAIN backupCache)
     \/ backups[n] # backupCache[n]}

EmptyStore == [n \in {} |-> Nil]

\* A StatefulMigration changes on the API server, which tells the watchers.
Store(m, o) ==
  /\ sm' = [sm EXCEPT ![m] = o]
  /\ events' = [events EXCEPT ![m] = Append(@, o)]

(***************************************************************************)
(* The operator starts with StatefulMigrations it has never seen.          *)
(***************************************************************************)
Init ==
  /\ sm = [m \in Migrations |->
             [uid |-> 1, phase |-> "live", finalizer |-> FALSE,
              held |-> FALSE, spec |-> InitSpec[m]]]
  /\ events = [m \in Migrations |-> <<>>]
  /\ backups = EmptyStore /\ policies = EmptyStore
  /\ labelled = {} /\ namespaces = {} /\ nsPolicy = Nil /\ crds = {}
  /\ workloads = {r \in Refs : IsWorkload(r)}
  /\ pods \in UNION {[S -> Images] : S \in SUBSET Places}
  /\ refused = {}
  /\ smCache = sm /\ backupCache = EmptyStore
  /\ queue = Migrations /\ delayed = {}
  /\ karmada = FALSE
  /\ pc = "idle" /\ key = Nil /\ obj = Nil
  /\ found = <<>> /\ todo = <<>> /\ items = <<>> /\ victims = {}
  /\ edits = 0 /\ faults = 0

-----------------------------------------------------------------------------
(***************************************************************************)
(* How a job ends.                                                         *)
(***************************************************************************)
EndJob ==
  /\ pc' = "idle" /\ key' = Nil /\ obj' = Nil
  /\ found' = <<>> /\ todo' = <<>> /\ items' = <<>> /\ victims' = {}

\* Mutant: the error is logged but not returned.
FailQuietly == EndJob /\ UNCHANGED <<queueVars, karmada>>

\* Reconcile returns an error: the key comes back after a back-off.
Fail ==
  /\ EndJob
  /\ delayed' = delayed \cup {key}
  /\ UNCHANGED <<queue, karmada>>

\* The worker goes on with the same object; nothing else of the job changes.
Goto(step) ==
  /\ pc' = step
  /\ UNCHANGED <<key, obj, queueVars, karmada>>

\* Mutants: no finalizer is added; a deletion leaves the label alone.
FirstStepUnheld(o) == IF o.phase = "deleting" THEN "unlabel" ELSE "label"
FirstStepLabelKept(o) ==
  IF ~o.finalizer THEN "finalizer"
  ELSE IF o.phase = "deleting" THEN "listOwned" ELSE "label"

\* What a Reconcile does with the object it has read.
FirstStep(o) ==
  CASE ~o.finalizer                       -> "finalizer"
    [] o.finalizer /\ o.phase = "deleting" -> "unlabel"
    [] o.finalizer /\ o.phase = "live"     -> "label"

(***************************************************************************)
(* NewKarmadaClient and NewMemberClusterClient: there are no clients       *)
(* without a mounted kubeconfig, and creating them can fail.               *)
(***************************************************************************)
NewKarmadaClient ==
  \/ /\ karmada' = KarmadaMounted
     /\ UNCHANGED faults
  \/ /\ KarmadaMounted /\ faults < MaxFaults
     /\ faults' = faults + 1
     /\ UNCHANGED karmada

(***************************************************************************)
(* Reconcile: initialise the Karmada client if there is none, read the     *)
(* StatefulMigration from the cache and decide what to do with it.  When   *)
(* the client cannot be created the job goes on without it.                *)
(***************************************************************************)
Reconcile(m) ==
  /\ pc = "idle" /\ m \in queue
  /\ queue' = queue \ {m}
  /\ IF karmada THEN UNCHANGED <<karmada, faults>> ELSE NewKarmadaClient
  /\ \/ /\ smCache[m].phase = "gone"
        /\ UNCHANGED jobVars
     \/ /\ smCache[m].phase # "gone"
        /\ key' = m /\ obj' = smCache[m]
        /\ pc' = FirstStep(smCache[m])
        /\ todo' = smCache[m].spec.clusters
        /\ UNCHANGED <<found, items, victims>>
  /\ UNCHANGED <<storeVars, worldVars, cacheVars, delayed>>

\* The API server accepts an Update of the job's object only while the object
\* is the one that was read.
Accepts == sm[key] = obj

(***************************************************************************)
(* The Update that adds the finalizer.  It is refused also when the object *)
(* is being deleted: no finalizer can be added then.                       *)
(***************************************************************************)
AddFinalizer ==
  /\ pc = "finalizer"
  /\ \/ /\ Accepts /\ obj.phase = "live"
        /\ Store(key, [obj EXCEPT !.finalizer = TRUE])
        /\ obj' = [obj EXCEPT !.finalizer = TRUE]
        /\ pc' = "label"
        /\ UNCHANGED <<key, found, todo, items, victims, queueVars, karmada>>
     \/ /\ ~(Accepts /\ obj.phase = "live")
        /\ Fail
        /\ UNCHANGED smVars
  /\ UNCHANGED <<backups, policies, labelled, namespaces, nsPolicy, crds,
                 worldVars, cacheVars, faults>>

-----------------------------------------------------------------------------
(***************************************************************************)
(* reconcileNormal                                                         *)
(***************************************************************************)

\* The pods of a target that run at a location.
PodsAt(l, ref) == {q \in Selects[ref] : <<l, q>> \in DOMAIN pods}

\* Where the label of a spec's target is put: on the workload, or on the pod
\* of the first source cluster.  {} when addLabelToTargetResource must fail.
LabelTarget(spec) ==
  IF IsWorkload(spec.ref)
  THEN {Mgmt : r \in workloads \cap {spec.ref}}
  ELSE IF Kind[spec.ref] = "pod" /\ karmada /\ spec.clusters # <<>>
       THEN {Head(spec.clusters) : p \in PodsAt(Head(spec.clusters), spec.ref)}
       ELSE {}

AddLabel ==
  /\ pc = "label"
  /\ \/ /\ LabelTarget(obj.spec) # {}
        /\ labelled' = labelled \cup (LabelTarget(obj.spec) \X {obj.spec.ref})
        /\ Goto("discover")
        /\ UNCHANGED <<found, todo, items, victims>>
     \/ /\ LabelTarget(obj.spec) = {}
        /\ Fail
        /\ UNCHANGED labelled
  /\ UNCHANGED <<smVars, backups, policies, namespaces, nsPolicy, crds,
                 worldVars, cacheVars, faults>>

\* The list a selector finds at a location, in any order.
PodLists(l, ref) ==
  SetToSeqs({[pod |-> p, image |-> pods[<<l, p>>]] :
               p \in PodsAt(l, ref)})

(***************************************************************************)
(* getPodsFromResourceRef: one List for a workload; for a pod one Get on   *)
(* each source cluster, where a cluster without the pod is skipped.        *)
(***************************************************************************)
DiscoverPods ==
  /\ pc = "discover"
  /\ LET ref == obj.spec.ref IN
     \/ /\ IsWorkload(ref) /\ ref \in workloads
        /\ found' \in PodLists(Mgmt, ref)
        /\ todo' = obj.spec.clusters
        /\ Goto("namespace")
        /\ UNCHANGED <<items, victims>>
     \/ /\ IsWorkload(ref) /\ ref \notin workloads
        /\ Fail
     \/ /\ ~IsWorkload(ref) /\ todo # <<>>
        /\ \E s \in PodLists(Head(todo), ref) : found' = found \o s
        /\ todo' = Tail(todo)
        /\ Goto("discover")
        /\ UNCHANGED <<items, victims>>
     \/ /\ ~IsWorkload(ref) /\ todo = <<>>
        /\ todo' = obj.spec.clusters
        /\ Goto("namespace")
        /\ UNCHANGED <<found, items, victims>>
  /\ UNCHANGED <<storeVars, worldVars, cacheVars, faults>>

(***************************************************************************)
(* ensureStatefulMigrationNamespace looks for the namespace and creates it *)
(* with the manager's client (:190, :207), "on Karmada" only where the two *)
(* API servers are one.                                                    *)
(***************************************************************************)
EnsureNamespace ==
  /\ pc = "namespace"
  /\ namespaces' = namespaces \cup {Mgmt}
  /\ Goto(IF karmada THEN "nsPolicy" ELSE "crd")
  /\ UNCHANGED <<smVars, backups, policies, labelled, nsPolicy, crds, worldVars,
                 cacheVars, faults, found, todo, items, victims>>

\* Mutant: the error of the Create is logged and not returned.
EnsureNamespacePolicyLogged ==
  /\ pc = "nsPolicy"
  /\ nsPolicy' = IF nsPolicy = Nil /\ KarmadaServer \in namespaces
                 THEN Range(obj.spec.clusters) ELSE nsPolicy
  /\ Goto("crd")
  /\ UNCHANGED <<smVars, backups, policies, labelled, namespaces, crds,
                 worldVars, cacheVars, faults, found, todo, items, victims>>

(***************************************************************************)
(* ensureNamespacePropagationPolicy, through Karmada's client: an existing *)
(* policy is left as it is, and the API server creates nothing in a        *)
(* namespace it does not have.                                             *)
(***************************************************************************)
EnsureNamespacePolicy ==
  /\ pc = "nsPolicy"
  /\ \/ /\ nsPolicy # Nil
        /\ Goto("crd")
        /\ UNCHANGED <<nsPolicy, found, todo, items, victims>>
     \/ /\ nsPolicy = Nil /\ KarmadaServer \in namespaces
        /\ nsPolicy' = Range(obj.spec.clusters)
        /\ Goto("crd")
        /\ UNCHANGED <<found, todo, items, victims>>
     \/ /\ nsPolicy = Nil /\ KarmadaServer \notin namespaces
        /\ Fail
        /\ UNCHANGED nsPolicy
  /\ UNCHANGED <<smVars, backups, policies, labelled, namespaces, crds,
                 worldVars, cacheVars, faults>>

\* EnsureCRD on each source cluster; skipped without a MemberClusterClient.
EnsureCRDs ==
  /\ pc = "crd"
  /\ \/ /\ karmada /\ todo # <<>>
        /\ crds' = crds \cup {Head(todo)}
        /\ todo' = Tail(todo)
        /\ Goto("crd")
        /\ UNCHANGED items
     \/ /\ ~karmada \/ todo = <<>>
        /\ obj.spec.clusters # <<>> /\ found # <<>>
        /\ todo' = obj.spec.clusters /\ items' = found
        /\ Goto("backup")
        /\ UNCHANGED crds
     \/ /\ ~karmada \/ todo = <<>>
        /\ obj.spec.clusters = <<>> \/ found = <<>>
        /\ todo' = <<>>
        /\ Goto("listOrphans")
        /\ UNCHANGED <<items, crds>>
  /\ UNCHANGED <<smVars, backups, policies, labelled, namespaces, nsPolicy,
                 worldVars, cacheVars, faults, found, victims>>

\* Mutants: the parts in another order; the loop's cluster forgotten.
ItemNameSwapped == BackupName(key, Head(todo), Head(items).pod)
ItemNameFixed == BackupName(key, Head(items).pod, Head(obj.spec.clusters))

ItemName == BackupName(key, Head(items).pod, Head(todo))

\* The spec this job writes for the pod.
DesiredSpec ==
  [podRef |-> Head(items).pod, ref |-> obj.spec.ref,
   schedule |-> obj.spec.schedule, image |-> Head(items).image]

\* Mutant: the owner reference is not set.
OwnerForgotten(o) == NoOwner

\* SetControllerReference
OwnerUid(o) == o.uid

(***************************************************************************)
(* reconcileCheckpointBackupForPod up to its PropagationPolicy.  Whether   *)
(* to create or to update is read from the cache; the API server refuses   *)
(* to create a name that exists, to update an object that is not the one   *)
(* that was read, and both for a refused name.  An update replaces the     *)
(* spec only: labels and owner stay.                                       *)
(***************************************************************************)
WriteBackup ==
  /\ pc = "backup"
  /\ \/ /\ ItemName \notin DOMAIN backupCache \cup DOMAIN backups \cup refused
        /\ backups' = Put(backups, ItemName,
             [migration |-> key, pod |-> Head(items).pod,
              cluster |-> Head(todo), owner |-> OwnerUid(obj),
              spec |-> DesiredSpec])
        /\ Goto("policy")
        /\ UNCHANGED <<found, todo, items, victims>>
     \/ /\ ItemName \in (DOMAIN backupCache \cap DOMAIN backups) \ refused
        /\ backupCache[ItemName] = backups[ItemName]
        /\ backups' = [backups EXCEPT ![ItemName].spec = DesiredSpec]
        /\ Goto("policy")
        /\ UNCHANGED <<found, todo, items, victims>>
     \/ /\ ItemName \in Stale \cup refused
        /\ Fail
        /\ UNCHANGED backups
  /\ UNCHANGED <<smVars, policies, labelled, namespaces, nsPolicy, crds,
                 worldVars, cacheVars, faults>>

\* The loop "for each source cluster, for each pod" goes on, or is over.
NextItem ==
  \/ /\ Len(items) > 1
     /\ items' = Tail(items)
     /\ Goto("backup")
     /\ UNCHANGED todo
  \/ /\ Len(items) = 1 /\ Len(todo) > 1
     /\ items' = found /\ todo' = Tail(todo)
     /\ Goto("backup")
  \/ /\ Len(items) = 1 /\ Len(todo) = 1
     /\ items' = <<>> /\ todo' = <<>>
     /\ Goto("listOrphans")

\* createOrUpdatePropagationPolicy; skipped without a Karmada client.
WritePolicy ==
  /\ pc = "policy"
  /\ policies' = IF karmada THEN Put(policies, PolicyName(ItemName), Head(todo))
                 ELSE policies
  /\ NextItem
  /\ UNCHANGED <<smVars, backups, labelled, namespaces, nsPolicy, crds,
                 worldVars, cacheVars, faults, found, victims>>

FoundPods == {found[i].pod : i \in DOMAIN found}

\* Mutant: the label selector is forgotten.
ListedAll(m) == DOMAIN backupCache

\* The names in the cache that carry the label of a migration.
Listed(m) == {n \in DOMAIN backupCache : backupCache[n].migration = m}

\* Mutant: nothing to clean up when there are no pods.
OrphansOfOthers ==
  {n \in Listed(key) : found # <<>> /\ backupCache[n].pod \notin FoundPods}

\* Mutant: the pods are not compared.
OrphansUnchecked == Listed(key)

\* The backups of pods that were not found.
Orphans == {n \in Listed(key) : backupCache[n].pod \notin FoundPods}

\* cleanupOrphanedCheckpointBackups: the list, taken from the cache.
ListOrphans ==
  /\ pc = "listOrphans"
  /\ victims' = Orphans
  /\ Goto("delete")
  /\ UNCHANGED <<storeVars, worldVars, cacheVars, faults, found, todo, items>>

-----------------------------------------------------------------------------
(***************************************************************************)
(* reconcileDelete                                                         *)
(***************************************************************************)

\* removeLabelFromTargetResource.  An object that is gone carries no label.
RemoveLabel ==
  /\ pc = "unlabel"
  /\ LET ref == obj.spec.ref IN
     \/ /\ IsWorkload(ref)
        /\ labelled' = labelled \ {<<Mgmt, ref>>}
        /\ todo' = <<>>
        /\ Goto("listOwned")
        /\ UNCHANGED <<found, items, victims>>
     \/ /\ Kind[ref] = "pod" /\ karmada /\ todo # <<>>
        /\ labelled' = labelled \ {<<Head(todo), ref>>}
        /\ todo' = Tail(todo)
        /\ Goto("unlabel")
        /\ UNCHANGED <<found, items, victims>>
     \/ /\ Kind[ref] = "pod" /\ (~karmada \/ todo = <<>>)
        /\ todo' = <<>>
        /\ Goto("listOwned")
        /\ UNCHANGED <<labelled, found, items, victims>>
     \/ /\ Kind[ref] = "other"
        /\ Fail
        /\ UNCHANGED labelled
  /\ UNCHANGED <<smVars, backups, policies, namespaces, nsPolicy, crds,
                 worldVars, cacheVars, faults>>

\* deleteAllCheckpointBackups: the list, taken from the cache.
ListOwned ==
  /\ pc = "listOwned"
  /\ victims' = Listed(key)
  /\ Goto("delete")
  /\ UNCHANGED <<storeVars, worldVars, cacheVars, faults, found, todo, items>>

\* One Delete of the loop over a list: by name, and NotFound is no error.
DeleteListed ==
  /\ pc = "delete"
  /\ \E n \in victims :
        /\ backups' = Without(backups, {n})
        /\ victims' = victims \ {n}
  /\ Goto("delete")
  /\ UNCHANGED <<smVars, policies, labelled, namespaces, nsPolicy, crds,
                 worldVars, cacheVars, faults, found, todo, items>>

\* Mutant: Result{} without RequeueAfter.
FinishForGood ==
  /\ pc = "delete" /\ victims = {} /\ obj.phase = "live"
  /\ EndJob
  /\ UNCHANGED <<storeVars, worldVars, cacheVars, faults, queueVars, karmada>>

\* A normal reconcile ends and asks to be run again in five minutes.
FinishNormal ==
  /\ pc = "delete" /\ victims = {} /\ obj.phase = "live"
  /\ EndJob
  /\ delayed' = delayed \cup {key}
  /\ UNCHANGED <<storeVars, worldVars, cacheVars, faults, queue, karmada>>

\* An object goes with its last finalizer.
Released(o) ==
  IF o.held THEN [o EXCEPT !.finalizer = FALSE]
  ELSE [o EXCEPT !.finalizer = FALSE, !.phase = "gone"]

\* Mutant: the finalizer is removed from a copy read anew for the Update.
RemoveFinalizerFresh ==
  /\ pc = "delete" /\ victims = {} /\ obj.phase = "deleting"
  /\ Store(key, Released(sm[key]))
  /\ EndJob
  /\ UNCHANGED <<queueVars, karmada>>
  /\ UNCHANGED <<backups, policies, labelled, namespaces, nsPolicy, crds,
                 worldVars, cacheVars, faults>>

\* The last step of a deletion: the Update that removes the finalizer, refused
\* when the object has changed since it was read.
RemoveFinalizer ==
  /\ pc = "delete" /\ victims = {} /\ obj.phase = "deleting"
  /\ \/ /\ Accepts
        /\ Store(key, Released(obj))
        /\ EndJob
        /\ UNCHANGED <<queueVars, karmada>>
     \/ /\ ~Accepts
        /\ Fail
        /\ UNCHANGED smVars
  /\ UNCHANGED <<backups, policies, labelled, namespaces, nsPolicy, crds,
                 worldVars, cacheVars, faults>>

-----------------------------------------------------------------------------
(***************************************************************************)
(* Faults.  A request fails, with or without effect: a request that took   *)
(* effect and whose answer was lost is the step followed by this one.      *)
(* (Where a step makes no request, as without a Karmada client, failing    *)
(* there is losing the answer of the request before it.)                   *)
(***************************************************************************)
RequestFails ==
  /\ pc # "idle" /\ faults < MaxFaults
  /\ faults' = faults + 1
  /\ Fail
  /\ UNCHANGED <<storeVars, worldVars, cacheVars>>

\* main: a new manager lists its caches before its controllers start, and a
\* new reconciler has no Karmada client.
StartManager ==
  /\ smCache' = sm /\ backupCache' = backups
  /\ events' = [m \in Migrations |-> <<>>]
  /\ delayed' = {} /\ karmada' = FALSE

\* The operator is restarted.  Every object listed is an event for its
\* controller (SetupWithManager: For and Owns).
Restart ==
  /\ faults < MaxFaults
  /\ faults' = faults + 1
  /\ EndJob
  /\ StartManager
  /\ queue' = {m \in Migrations : sm[m].phase # "gone"}
              \cup {backups[n].migration : n \in DOMAIN backups}
  /\ UNCHANGED <<sm, backups, policies, labelled, namespaces, nsPolicy, crds,
                 worldVars>>

-----------------------------------------------------------------------------
(***************************************************************************)
(* The manager: watches and the queue.                                     *)
(***************************************************************************)

\* The informer handles the oldest event it has not handled yet: the cache
\* takes the object over and For enqueues its key.
ObserveMigration(m) ==
  /\ events[m] # <<>>
  /\ smCache' = [smCache EXCEPT ![m] = Head(events[m])]
  /\ events' = [events EXCEPT ![m] = Tail(@)]
  /\ queue' = queue \cup {m}
  /\ UNCHANGED <<sm, backups, policies, labelled, namespaces, nsPolicy, crds,
                 worldVars, backupCache, delayed, karmada, jobVars, faults>>

\* Owns enqueues the owner named by the old and by the new object.
OwnersOf(store) == {store[n].migration : n \in Stale \cap DOMAIN store}

ObserveBackups ==
  /\ Stale # {}
  /\ backupCache' = backups
  /\ queue' = queue \cup OwnersOf(backups) \cup OwnersOf(backupCache)
  /\ UNCHANGED <<storeVars, worldVars, smCache, delayed, karmada, jobVars,
                 faults>>

\* A requeue or a back-off is over.
Requeue(m) ==
  /\ m \in delayed
  /\ delayed' = delayed \ {m}
  /\ queue' = queue \cup {m}
  /\ UNCHANGED <<storeVars, worldVars, cacheVars, karmada, jobVars, faults>>

-----------------------------------------------------------------------------
(***************************************************************************)
(* Kubernetes' garbage collector.                                          *)
(***************************************************************************)

\* The owner is gone, or is being deleted in the foreground.
Collectable(b) ==
  /\ b.owner # NoOwner
  /\ \/ sm[b.migration].phase = "gone"
     \/ sm[b.migration].uid # b.owner
     \/ sm[b.migration].phase = "deleting" /\ sm[b.migration].held

CollectBackup ==
  /\ \E n \in DOMAIN backups :
        Collectable(backups[n]) /\ backups' = Without(backups, {n})
  /\ UNCHANGED <<smVars, policies, labelled, namespaces, nsPolicy, crds,
                 worldVars, cacheVars, queueVars, karmada, jobVars, faults>>

\* The foregroundDeletion finalizer goes once nothing is owned any more.
EndForeground(m) ==
  /\ sm[m].phase = "deleting" /\ sm[m].held
  /\ \A n \in DOMAIN backups :
        backups[n].migration = m => backups[n].owner # sm[m].uid
  /\ Store(m, IF sm[m].finalizer THEN [sm[m] EXCEPT !.held = FALSE]
              ELSE [sm[m] EXCEPT !.held = FALSE, !.phase = "gone"])
  /\ UNCHANGED <<backups, policies, labelled, namespaces, nsPolicy, crds,
                 worldVars, cacheVars, queueVars, karmada, jobVars, faults>>

-----------------------------------------------------------------------------
(***************************************************************************)
(* Users and workload controllers.                                         *)
(***************************************************************************)
Edit == edits < MaxEdits /\ edits' = edits + 1

operatorVars == <<cacheVars, queueVars, karmada, jobVars, faults>>

CreateMigration(m, spec) ==
  /\ Edit
  /\ sm[m].phase = "gone" /\ sm[m].uid < MaxUid
  /\ Store(m, [uid |-> sm[m].uid + 1, phase |-> "live", finalizer |-> FALSE,
               held |-> FALSE, spec |-> spec])
  /\ UNCHANGED <<backups, policies, labelled, namespaces, nsPolicy, crds,
                 workloads, pods, refused, operatorVars>>

EditMigration(m, spec) ==
  /\ Edit
  /\ sm[m].phase # "gone" /\ sm[m].spec # spec
  /\ Store(m, [sm[m] EXCEPT !.spec = spec])
  /\ UNCHANGED <<backups, policies, labelled, namespaces, nsPolicy, crds,
                 workloads, pods, refused, operatorVars>>

\* An object without finalizers goes at once.
DeleteMigration(m, foreground) ==
  /\ Edit
  /\ sm[m].phase = "live"
  /\ Store(m, IF sm[m].finalizer \/ foreground
              THEN [sm[m] EXCEPT !.phase = "deleting", !.held = foreground]
              ELSE [sm[m] EXCEPT !.phase = "gone"])
  /\ UNCHANGED <<backups, policies, labelled, namespaces, nsPolicy, crds,
                 workloads, pods, refused, operatorVars>>

DeleteBackup ==
  /\ Edit
  /\ \E n \in DOMAIN backups : backups' = Without(backups, {n})
  /\ UNCHANGED <<smVars, policies, labelled, namespaces, nsPolicy, crds,
                 workloads, pods, refused, operatorVars>>

StartPod(place, image) ==
  /\ Edit
  /\ place \notin DOMAIN pods
  /\ pods' = Put(pods, place, image)
  /\ UNCHANGED <<storeVars, workloads, refused, operatorVars>>

\* A pod target takes its label with it.
StopPod(place) ==
  /\ Edit
  /\ place \in DOMAIN pods
  /\ pods' = Without(pods, {place})
  /\ labelled' = labelled \ {<<place[1], r>> :
                    r \in {s \in Refs : Kind[s] = "pod" /\ place[2] \in Selects[s]}}
  /\ UNCHANGED <<smVars, backups, policies, namespaces, nsPolicy, crds,
                 workloads, refused, operatorVars>>

DeleteWorkload(r) ==
  /\ Edit
  /\ r \in workloads
  /\ workloads' = workloads \ {r}
  /\ labelled' = labelled \ {<<Mgmt, r>>}
  /\ UNCHANGED <<smVars, backups, policies, namespaces, nsPolicy, crds, pods,
                 refused, operatorVars>>

CreateWorkload(r) ==
  /\ Edit
  /\ IsWorkload(r) /\ r \notin workloads
  /\ workloads' = workloads \cup {r}
  /\ UNCHANGED <<storeVars, pods, refused, operatorVars>>

\* An administrator creates the namespace on Karmada: nobody else does where
\* Karmada has an API server of its own.  It is done once and needs no bound.
CreateNamespace ==
  /\ KarmadaServer \notin namespaces
  /\ namespaces' = namespaces \cup {KarmadaServer}
  /\ UNCHANGED <<smVars, backups, policies, labelled, nsPolicy, crds, worldVars,
                 operatorVars>>

\* From now on the API server refuses to create or to update a backup.
Refuse(n) ==
  /\ Edit
  /\ n \in Refusable \ refused
  /\ refused' = refused \cup {n}
  /\ UNCHANGED <<storeVars, workloads, pods, operatorVars>>

-----------------------------------------------------------------------------
Worker ==
  \/ \E m \in Migrations : Reconcile(m)
  \/ AddFinalizer
  \/ AddLabel \/ DiscoverPods \/ EnsureNamespace \/ EnsureNamespacePolicy
  \/ EnsureCRDs \/ WriteBackup \/ WritePolicy \/ ListOrphans
  \/ RemoveLabel \/ ListOwned \/ DeleteListed
  \/ FinishNormal \/ RemoveFinalizer

Manager == ObserveBackups \/ \E m \in Migrations : ObserveMigration(m) \/ Requeue(m)

Collector == CollectBackup \/ \E m \in Migrations : EndForeground(m)

Users ==
  \/ \E m \in Migrations, spec \in Specs :
        CreateMigration(m, spec) \/ EditMigration(m, spec)
  \/ \E m \in Migrations, foreground \in BOOLEAN : DeleteMigration(m, foreground)
  \/ DeleteBackup
  \/ \E place \in Places, image \in Images : StartPod(place, image)
  \/ \E place \in Places : StopPod(place)
  \/ \E r \in Refs : DeleteWorkload(r) \/ CreateWorkload(r)
  \/ CreateNamespace
  \/ \E n \in Refusable : Refuse(n)

Next == Worker \/ Manager \/ Collector \/ Users \/ RequestFails \/ Restart

Spec == Init /\ [][Next]_vars

(***************************************************************************)
(* The worker goroutine, each informer, the requeue timers and the garbage *)
(* collector keep running, and the queue hands out every key it holds: it  *)
(* is first in, first out.  Nothing makes users act or requests fail.      *)
(***************************************************************************)
Fairness ==
  /\ WF_vars(Worker)
  /\ WF_vars(ObserveBackups)
  /\ WF_vars(CollectBackup)
  /\ \A m \in Migrations :
        /\ SF_vars(Reconcile(m))
        /\ WF_vars(ObserveMigration(m))
        /\ WF_vars(Requeue(m))
        /\ WF_vars(EndForeground(m))

FairSpec == Spec /\ Fairness

=============================================================================
