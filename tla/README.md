# Verification of the stateful-migration operator

TLA+ modules, TLC configurations and TLAPS proofs about the operator in `src/`:
a Kubernetes operator that backs up (checkpoints) the pods of a workload to the
clusters of a Karmada federation. A user writes a `StatefulMigration`; the
operator makes one `CheckpointBackup` per pod and source cluster, sends it to
its cluster with a Karmada `PropagationPolicy`, labels the workload, keeps all
of this up to date, and takes it down when the `StatefulMigration` is deleted.

## 1. Inventory

| component | state | operations | interacts with |
|---|---|---|---|
| **MigrationBackup controller** `internal/controller/migrationbackup_controller.go` | lazily created Karmada and member cluster clients; otherwise stateless between jobs | `Reconcile`, `reconcileNormal`, `reconcileDelete` and their helpers | everything below, through API requests |
| **Manager** `cmd/main.go`, `SetupWithManager` (controller-runtime) | informer caches, work queue, back-off and `RequeueAfter` timers, the leader's lease | watches (`For`, `Owns`), one worker, leader election | feeds `Reconcile`; reads go to its caches |
| **API types** `api/v1` | the stored objects | create, update, delete by users and the operator | API server, garbage collector |
| **Karmada client** `karmada_client.go` | policies on the Karmada control plane | `CreateOrUpdatePropagationPolicy` (`DeletePropagationPolicy` is never called) | called by the controller; Karmada writes to the same policies |
| **Member cluster client** `member_cluster_client.go` | pods and CRDs on the member clusters | `GetPodFromCluster`, `UpdatePodInCluster`, `EnsureCRD` | called by the controller, through Karmada's proxy |
| CheckpointBackup controller | none | `Reconcile` is empty | - |
| MigrationRestore controller | none | `Reconcile` reads and logs | - |
| CRD constant, generated deep copies, scripts, manifests, tests | - | - | - |

**What is hard.** A job is a sequence of requests to three kinds of API servers
with no transaction around it. Users, pods, the garbage collector and Karmada
act between any two. The object and the backup lists come from caches that lag
behind. Any request can fail, also after taking effect, be refused for ever, or
take effect long after its answer was given up; the operator can be
restarted anywhere, and during a leader hand-over two of them work at once.
Nothing remembers how far a job got: correctness rests on
each job being safe to cut short and repeat, on the finalizer, on
resource versions, on owner references, and on every return path queueing the key
again. `PROJECT.json` lists each hazard at its line, with the properties that
cover it.

**What makes each component correct.**
- Controller: what a job creates is always found by a later deletion
  (`HeldWhileReconciling`); an object is let go only when its target is clean
  (`CleanExit`, `FinalizerReleasedClean`); both together are a life cycle users
  can rely on (`ImplementsLifecycle`); backups are right
  (`BackupDescribesItsPod`), only its own are deleted (`WorkerDeletesOwn`), and
  eventually they are exactly those wanted (`BackupsComplete`, `OrphansPruned`,
  `BackupsCollected`).
- Manager with controller: no object is forgotten (`NeverForgotten`), copies lag
  in a controlled way (`CopiesLag`), deletions complete (`DeletionCompletes`).
- Clients: a backup goes to a cluster only when it is prepared, and to the cluster
  its name says (`PropagationPrepared`, `Prepared`, `ImplementsPlane`); a Get and a write are as good as one
  atomic write (`ReadsHold`, `WritesAreAtomic`), and everything is sent in the
  end (`AllSent`).

## 2. Modules

| module | contents |
|---|---|
| `MigrationTypes` | API types, names, and the constants with their assumptions |
| `MigrationBackup` | the controller with everything one `Reconcile` touches: variables, `Init`, one action per request, `Spec`, `FairSpec` |
| `MigrationBackupProperties` | what it promises: invariants, action properties, liveness, the refinement, and what the documentation says and the code does not do |
| `MigrationLifecycle` | the abstract life of a migration: adopted, marked and backed up, released unmarked, gone; no caches, queue, worker or faults |
| `KarmadaClients` | `EnsureCRD`, `CreateOrUpdatePropagationPolicy` and `ensureNamespacePropagationPolicy` request by request, for several managers, with its properties |
| `KarmadaPlane` | what both of them promise to Karmada: every write of a policy is atomic, sets nothing but a placement the name allows, keeps Karmada's labels, and comes after the CRD it needs |
| `MCMigrationBackup`, `MCKarmadaClients` | small instances for TLC |
| `SequenceFacts` | lemmas about heads, tails, ranges and concatenations of sequences, for all the proofs |
| `MigrationBackup_proofs` | types, and what copies still tell: the basis of the next four |
| `MigrationLifecycle_proofs` | the clean exit and the first refinement |
| `MigrationPropagation_proofs` | what is set up before anything is sent |
| `BackupContents_proofs` | what backups say, what is deleted, and the second refinement |
| `MigrationLabels_proofs` | labels of migrations that share a workload |
| `KarmadaClients_proofs` | the clients and their refinement |

`MigrationBackup` takes the three operations of `KarmadaClients` for one atomic
step each (`EnsureCRDs`, `WritePolicy`, `EnsureNamespacePolicy`).
`KarmadaClients` opens these steps up, and that it implements `KarmadaPlane`, where
they are atomic again, is the reason why `MigrationBackup` may take them so.
`MigrationBackup` implements `KarmadaPlane` as well, for the policies of its backups:
what the clients do for any job that is well-formed, its jobs do with users,
faults and restarts around them. Policies are `Shared` with Karmada and users in
`KarmadaClients` and are the operator's alone in `MigrationBackup`.

### State of `MigrationBackup`

| variable | in the system |
|---|---|
| `sm`, `backups`, `policies` | StatefulMigrations and CheckpointBackups on the management cluster, PropagationPolicies of backups, by name. A migration has a `uid` that grows with each re-creation, a phase (live, deleting = has a deletionTimestamp, gone), the operator's finalizer, the foregroundDeletion finalizer (`held`) and its spec |
| `events` | for each migration the changes its watch has not delivered yet, in order |
| `labelled` | which target objects carry `checkpoint-migration.dcn.io` |
| `namespaces`, `nsPolicy`, `crds` | the API servers that have the `stateful-migration` namespace, its policy's clusters, the clusters with the CRD |
| `workloads`, `pods` | StatefulSets and Deployments; pods with their container list, by cluster |
| `refused` | backups the API server refuses from now on |
| `smCache`, `backupCache` | the manager's informer caches |
| `queue`, `delayed` | the work queue; keys with a requeue timer or in back-off |
| `karmada` | `r.KarmadaClient` and `r.MemberClusterClient` are set (they are set together) |
| `pc`, `key`, `obj`, `found`, `todo`, `items`, `victims` | the worker's job: the next request, the key, the object it holds in memory, the pods it found, where its loops are, the listed names it has still to delete |
| `edits`, `faults` | budgets of the environment |

### Actions of `MigrationBackup`

A step is one request that changes state, with the reads that lead to it and the
return path that follows.

| action | code |
|---|---|
| `Reconcile`, `NewKarmadaClient` | :68-109 client creation (which can fail), cached `Get`, choice of what to do |
| `AddFinalizer` | :111-118 |
| `AddLabel`, `DiscoverPods` | :311-375; :451-520, for a pod one step per cluster |
| `EnsureNamespace` | :184-225, with the manager's client |
| `EnsureNamespacePolicy` | :228-281, with Karmada's client: refused where Karmada has not the namespace |
| `EnsureCRDs` | :153-161 and `EnsureCRD`, one step per cluster |
| `WriteBackup`, `WritePolicy` | :523-576, :593-626 for one pod and cluster; `NextItem` is the loop of :164-171 |
| `ListOrphans`, `ListOwned`, `DeleteListed` | :629-679, one step per deletion |
| `RemoveLabel`, `RemoveFinalizer` | :378-448, :299-307 |
| `FinishNormal`, `Fail`, `EndJob` | the three ways to return: `RequeueAfter`, an error, done |
| `ObserveMigration`, `ObserveBackups`, `Requeue` | watches of `SetupWithManager`, timers |
| `CollectBackup`, `EndForeground` | Kubernetes' garbage collector |
| `RequestFails`, `Restart` with `StartManager` | faults; what `main` does anew |
| `CreateMigration` ... `CreateWorkload`, `Refuse` | users, workload controllers, admission |
| `CreateNamespace` | an administrator creates the namespace on Karmada |

### State and actions of `KarmadaClients`

`crds` and `policies` are what is stored (a policy has a resourceVersion, its
clusters, and whether Karmada has put its labels on it: `stamped`), `version`
counts the writes of each name, `late` holds the writes whose answer was given
up, `op` is the job of each manager, `changes` and `faults` are budgets.

| action | code |
|---|---|
| `Begin` | `reconcileNormal` reaches :147 |
| `CheckNamespacePolicy` | :228-281, the Get before the policy is made |
| `GetCRD`, `Write` with a `CRDPost` | `EnsureCRD`: a Get, and a Post after *any* error |
| `GetPolicy`, `Write` with a `PolicyWrite` | `CreateOrUpdatePropagationPolicy`: a Get, then Create, or Update with the resourceVersion and Karmada's labels of the Get |
| `Fail`, `Land` | a request fails, or its answer is lost and it is performed later or never |
| `Stamp`, `Move`, `Delete` | Karmada's labels; users change or delete a policy |

### Modelling decisions

- *One worker.* `MaxConcurrentReconciles` is left at 1, and the queue never hands
  a key to two workers. `Reconcile` is one step although reading the cache and
  creating the client are two: neither affects the other. Two managers at once
  are in `KarmadaClients` only.
- *The queue is a set.* The real one also holds each key once. Its order matters
  only for fairness (section 4).
- *Watches.* The events of a migration reach the informer one by one, in order
  and as late as may be; each shows the object as it was after one change and
  queues its key, so the cache goes through every state the object has had, also
  through earlier objects of the name. A restarted manager lists instead. The cache of
  backups catches up in one step: it may be arbitrarily old, but what it shows
  is read only as a list of names and owners, and each is deleted or rewritten
  by name. A resync adds only queue entries and is left out.
  The namespace, workloads and management-cluster pods are read through caches
  too; a stale one makes a Create or Update fail (a fault of the model; the
  label is written by an Update with the resourceVersion of the cached object),
  or yields a pod list that was right a moment ago.
- *Updates* are refused when the stored object differs from the copy the worker
  read. The API server compares resource versions; comparing contents also
  accepts an object that was changed and changed back, which only adds
  behaviours. (`KarmadaClients`, where a version matters, has versions.) A uid
  tells re-created objects apart. A deletion is by name, and NotFound is no error.
- *Adding a finalizer* to an object that is being deleted is refused by the API
  server. This matters because the code adds it before it looks at the deletion
  timestamp, and a foreground deletion can get in between.
- *Failures.* `RequestFails` ends the job with an error before its next request
  took effect. A lost answer is the request's step followed by `RequestFails`.
  Where the next step makes no request this is the loss of the previous answer.
  A request that takes effect only after a retry is in `KarmadaClients`, not here
  (section 8).
- *Refusals.* From the moment of `Refuse(n)` the API server does not take backup
  `n`: a quota, an admission webhook, a name that is too long, or a value of the
  labels of :533-535 beyond 63 characters. It is not lifted again: while it lasts each job
  for the migration ends at `n`, and what happens after it is lifted is
  what happens after a fault.
- *Restart* clears queue, timers and clients and lists the caches anew; every
  listed object is an event.
- *Karmada and the management cluster.* The operator reaches Karmada through a
  kubeconfig of its own (a secret that `deploy/setup-karmada.sh` makes), and the
  constant `KarmadaServer` says where that leads: to the API server the manager runs
  against (`Mgmt`; `deploy/README.md:95` calls the target "Management cluster (Karmada
  control plane)") or to another one (`examples/workload-example/README.md:27` deploys with a
  `karmada-config` and a `mgmt-config`). This matters for the
  `stateful-migration` namespace: `ensureStatefulMigrationNamespace` looks for it and
  creates it with the manager's client, its policy is made with Karmada's. On
  a Karmada server of its own the namespace is there only after somebody else
  has created it, at any time or never (`CreateNamespace`, without fairness); until then the
  API server refuses the policy and the job ends with an error. All other
  objects are each on one server: StatefulMigrations, backups and workloads on the
  manager's, policies on Karmada's. The namespaces in which users write
  StatefulMigrations, where the policies of backups go, are taken to exist on both.
- *`KarmadaClients`* begins where Karmada has the `stateful-migration` namespace.
- *The namespace's policy* is left alone once `CheckNamespacePolicy` sees it; two
  managers that both saw none both write it, and the later one's clusters win.
  In `MigrationBackup`, with one manager, the first one's stay.
- *`KarmadaClients` does not change `sourceClusters`* (a job reads them once and
  nothing else depends on the older value; edits are in `MigrationBackup`), has
  one pod per migration, and does not remove CRDs, which nothing in the code does.
- *Data.* Schedule and registry are copied unread: one value. A container list
  is one value per pod. Names are the sequences of their dash-free parts, so
  that joining with "-" is concatenation and a clash of names is visible.
- *Left out*: backups made by users by hand, the namespace of `resourceRef`,
  deletion with orphaned dependents, the unused status fields.

## 3. Runs

The run `karmada` is of `MCKarmadaClients`, all others are of
`MCMigrationBackup`. Deadlock is not checked: when every
migration is deleted and collected and the budgets are used up, nothing is left
to do, and the system rests.

| run | question | bounds | result |
|---|---|---|---|
| `workload` | safety of the whole loop, the proofs' inductive invariants, and the refinement of `KarmadaPlane` | 1 migration, spec switched between a StatefulSet on one cluster and a Deployment on two, 1 pod, 3 edits, 1 fault, two API servers | holds, 1.56 M states |
| `pod_target` | the same for a target on the member clusters, its clean exit, and liveness | a pod on two clusters listed in either order, and an unsupported kind; 2 edits, 1 fault | holds, 676 k states |
| `shared_target` | two migrations, one workload; the backup of one may be refused for ever | 2 migrations, 1 pod, 1 edit, 1 fault | holds, 409 k states |
| `pods` | pods that come and go | 2 pods, 2 edits, 1 fault, two API servers | holds, 429 k states |
| `deletion` | deletion and re-creation at any moment, also where a backup is refused for ever; the refinement | 1 migration, 2 incarnations, 1 pod, 2 container lists, 3 edits, 1 fault | holds, 308 k states |
| `karmada` | are Gets and writes as good as atomic writes? | 2 managers, 1 migration on 2 clusters, 1 user change, 1 lost or failed request | holds, 353 k states |
| `unsupported_kind`, `cluster_removed`, `workload_deleted`, `name_clash`, `namespace_karmada`, `namespace_policy` | what documentation and comments say | the smallest instance that shows it | violated (section 6) |

*Why the bounds are enough.* Three edits are what it takes to delete an object
while a job runs, create it again, and change or delete the new one; they also
allow a target to be edited, deleted, and edited back during the deletion. One fault cuts any job
at any request; jobs are repeated without bound (the requeue), so a cut job is
followed by whole ones. Two incarnations (`MaxUid`) are the least that can be
confused. Two clusters distinguish first, last and only; one pod is enough where the
property is about one backup at a time, and `pods` has two. Events are as many
as there are changes. `workload` and `pods` run with two API servers, all other runs with one;
the namespace may be created on Karmada in every state. The spec of `deletion` is fixed; edits of the target during a
deletion, which the refinement must also bear, are in `workload` and `pod_target`
(`FinalizerReleasedClean`) and in the theorem. In `karmada` one late write can meet
the retry by the other manager, a user's deletion and Karmada's labels in every
order; a second migration only repeats the loop over other names and
multiplies the states.
The instances are not symmetric in their members (roles differ by spec or
fairness), so no symmetry is used.

*What each property is about.*
- `NeverForgotten`: return values, watches and restarts together keep every
  existing object in the system's hands.
- `HeldWhileReconciling`: whatever a normal reconcile creates, its object cannot
  have disappeared; the copy it works on may be arbitrarily old otherwise.
- `FinalizerReleasedClean`: at the step that lets the object go, the target its
  spec names *then* is unlabelled, although users may edit the spec during the
  deletion. The resource version of the last Update makes this true.
- `CleanExit`: why: from the visit of `reconcileDelete` to a place until the
  finalizer goes, the place stays unlabelled, and no object goes with the finalizer on.
- `ImplementsLifecycle`: the promise to users as a specification of its own. A
  backup or a mark is made only for an adopted migration, owned by its present
  object, and a migration is released only when its workload is not marked.
- `BackupDescribesItsPod`: name, labels, spec and policy of a backup agree. It
  needs `UniqueNames`, and the run `name_clash` shows that it does.
- `PropagationPrepared`: a backup's policy is written only when its cluster has the
  CRD, and Karmada the namespace and a policy for it, also where the worker creates
  the namespace on another server and others create it on Karmada, late or never. It does *not* say that
  the namespace is propagated to the backup's cluster: the namespace's policy
  may name other clusters (`namespace_policy`).
- `ImplementsPlane`: and only to the cluster their name says, one write at a time;
  at the write, and not only afterwards.
- `BackupsAccounted`: why the last three and `WorkerDeletesOwn` hold; the invariant of
  section 5.
- `LabelHasHolder`, `WorkerDeletesOwn`: migrations that share a target do not
  leave labels without anybody to remove them (given `KeepsRef`, section 5), nor
  delete each other's backups.
- `BackupsComplete`, `OrphansPruned`, `DeletionCompletes`, `BackupsCollected`:
  the loop converges from wherever edits and faults have left it. They are about
  *active* migrations: live, with a target that the code can reach, with no
  backup the API server refuses for ever (`Obstructed`), and where Karmada has, or
  gets from the operator, the namespace (`KarmadaReady`). In `pods` the namespace may come
  after any number of failed jobs. An obstructed
  migration keeps failing; that it starves no other is `BackupsComplete` in
  `shared_target`, that it can still be deleted is `DeletionCompletes` in `deletion`.
- `Prepared`: although `EnsureCRD` takes every error for "not there", no policy
  sends a backup to a cluster without the CRD, whichever manager or late request
  wrote it.
- `ReadsHold`, `WritesAreAtomic`: an Update that the resourceVersion lets through
  overwrites nothing its Get has not seen; so no label of Karmada is lost, and a
  Get and a write are one atomic write or none. Since users may move a policy anywhere,
  `WritesAreAtomic` says little about the placement an Update writes; that it is the one the
  policy's name asks for is in `Prepared`.
- `AllSent`: in the end each backup's policy sends it to its cluster, whatever users,
  late requests and the other manager did before.

Each of these is violated by a mutant of the code that `PROJECT.json` names:
an error that is not returned, a finalizer not added, a missing `RequeueAfter`,
the finalizer removed from a freshly read object, a missing owner reference, a forgotten
label selector, a cleanup skipped when there are no pods, a refused policy of the
namespace that is only logged, the wrong cluster or order in a name, a deletion
that leaves the label alone, an error of `EnsureCRD` that is only logged, Karmada's labels
not copied, a resourceVersion fetched anew just before the Update, an existing
policy left as it is, a loop that keeps the first name.

## 4. Fairness

`FairSpec` of `MigrationBackup` assumes weak fairness of the worker (its
goroutine does not stop and requests return, be it with an error), of the
informers, the timers and the garbage collector. It assumes
strong fairness of `Reconcile(m)`: the work queue is first in, first out, so a
queued key is not passed over for ever, although `Reconcile(m)` is disabled
whenever the worker is busy. Users and faults have no fairness. They are finite
in number by their budgets: the liveness properties say what happens once they
pause. Retries are not bounded.

`FairSpec` of `KarmadaClients` assumes the same of the manager that holds the
lease: weak fairness of its job, strong fairness of `Begin(Leader, m)`, which is the
queue and the requeue after five minutes. The other manager may stop
anywhere, a late request may never be performed, and Karmada and users need not act.

## 5. Proofs

All are for any number of migrations, pods, clusters, edits, faults and
re-creations, from the named assumptions on the constants alone.

`MigrationBackup_proofs` (from `NamesAssumption`, `WorkloadAssumption`,
`EnvironmentAssumption`):

- `TypeCorrect`: `Spec => []TypeOK`.
- `CopiesAlwaysLag`: `Spec => []CopiesLag`.
- `NeverForgottenHolds`: `Spec => []NeverForgotten`.
- `HeldWhileReconcilingHolds`: `Spec => []HeldWhileReconciling`.

*The argument.* Neither of the last two is inductive: whether the object of a
running job still exists depends on what the job's copy, taken from a
stale cache, still tells about it. `Behind(o, s)` is what any copy `o` tells
about the stored object `s`, and `CopiesLag` says that the cache, every event on
its way to the cache (`CacheLags`: each also behind the later ones)
and the worker's copy (`JobLags`) are behind. The crucial conjunct is that a
*live copy with the finalizer* implies that the stored object is the same one
and still has it. Users cannot break it: what they do makes a `Later` object
(`BehindLater`, `StoreStep`). Only `RemoveFinalizer` can, and it does not, since
the job that removes the finalizer has read the deletion out of the
cache, and caches do not go back: by `JobLags` no live copy of the object is left in
the cache or in the events still to come (`RemoveFinalizerLags`).
`NeverForgotten` needs that the informer has the whole story
(`CacheCatchesUp`): without events the cache shows the stored object, so an
object that exists is not dropped by a job that finds it gone.

`MigrationLifecycle_proofs` (the same assumptions):

- `CleanExitHolds`: `Spec => []CleanExit`.
- `ImplementsLifecycleHolds`: `Spec => ImplementsLifecycle`.
- `FinalizerReleasedCleanHolds`: `Spec => FinalizerReleasedClean`.

*The argument.* `CleanExit` is inductive together with `TypeOK`: only the worker
adds labels, it does so in a job for a live object, and the loop of
`RemoveLabel` leaves behind it only places that are clean or still to come. The
refinement has one step per action, under `IInv` = `TypeOK` ∧ `CopiesLag` ∧
`CleanExit`: `CopiesLag` is why what the worker makes out of a stale copy is
made for an adopted migration with the same uid (`AdoptedThen`, `AddLabelRefines`,
`WriteBackupRefines`), `CleanExit` is why `RemoveFinalizer` is a `Release`; all
else maps to a step of users or to a stutter. `FinalizerReleasedClean` says more than
the refinement: it also covers pod targets, which `MigrationLifecycle` leaves out.

`MigrationPropagation_proofs` (the same assumptions):

- `PropagationPreparedHolds`: `Spec => []PropagationPrepared`.

*The argument.* That something is prepared when a policy is written was seen to
by an earlier request of the same job, so the invariant is about what a job
has behind it at each `pc` (`SetUp`): from the request for the namespace
on it exists on the manager's server; from the CRDs on it has a policy, if there is a Karmada
client, and where there is a policy Karmada has the namespace, whoever created it there; in the loop over the CRDs each source cluster has one or is
still to come; and in the loop over the backups every cluster to come has one. `SetUp` and
`PropagationPrepared` are inductive together, with `TypeOK`: an error ends
the job and claims nothing, and the client, which decides whether a request
is skipped, does not change during a job.

`BackupContents_proofs` (the same assumptions; all but the first theorem for
constants with `UniqueNames`):

- `EqualPartsUniqueNames`: `UniqueNames` holds if all migrations are named by equally
  many dash-free parts, and all pods too.
- `BackupDescribesItsPodHolds`: `Spec => []BackupDescribesItsPod`.
- `BackupsAccountedHolds`: `Spec => []BackupsAccounted`.
- `WorkerDeletesOwnHolds`: `Spec => WorkerDeletesOwn`.
- `ImplementsPlaneHolds`: `Spec => ImplementsPlane`.

*The argument.* `BackupDescribesItsPod` says nothing about where a name comes from
and is not inductive. `BackupsAccounted` adds it. The pods a job has found are pods of the
target of the object it holds, and none are left over from the job before
(`PodsSelected`). Every policy with the name of a backup has that backup's cluster, also where
the backup is gone (`PoliciesNamed`: policies outlive backups, and the next backup
of the name inherits its policy). The cache shows only backups whose labels
make up their name (`CachedNamed`). So a name a job is to delete is of its own
migration and, in `reconcileNormal`, of a pod it has not found
(`VictimsOwn`). This survives that the backup is deleted and created anew between the
list and the deletion, because a name says whose it is. That it does is all that
`UniqueNames` is for. That the owner is no younger than the job's object needs one
more invariant, `OwnersKnown`, and with it `CopiesLag`: a backup's owner has been in the
cache before, and caches do not go back. `ImplementsPlane` has one step per
action that changes `crds` or `policies`: `SetUp` gives the CRD, `PodsSelected`
and `UniqueNames` give the one cluster of the name.

*The hypothesis* `UniqueNames` is about the names users give. Nothing in the code
makes it true: the run `name_clash` violates `BackupDescribesItsPod` without it.

`MigrationLabels_proofs` (the same assumptions):

- `LabelsHeldHolds`: `Spec /\ [][KeepsRef]_vars => []LabelsHeld`.
- `LabelHasHolderHolds`: `Spec /\ [][KeepsRef]_vars => []LabelHasHolder`.

*The argument.* When the worker adds a label it does so for a copy. The copy is of
the stored object, which has the finalizer (`CopiesLag`); that it also names
the same target needs an invariant about every copy there is, in the cache, in the
events and in the job: copies with the uid of the stored object have its
`resourceRef` (`CopiesAim`). It holds because uids only grow (`Moves`). When the
finalizer of a holder goes, its target is clean (`CleanExit`), so the label that is
still there was another's. The inductive invariant is `LabelsHeld`, with `TypeOK`,
`CopiesLag` and `CleanExit`.

*The hypothesis* `KeepsRef`, that no step changes the `resourceRef` of an object
that stays the same, is about what users do (a re-created object may have
another). In the run `shared_target` there is one workload, so that every step
satisfies it; that a re-created object may have another target is in the theorem
only. Without `KeepsRef` the theorem is false: nothing remembers a former target.

`KarmadaClients_proofs` (from `ClientsAssumption`; also for any number of managers):

- `TypeCorrect`, `PreparedHolds`, `ReadsHoldAlways`: `TypeOK`, `Prepared` and
  `ReadsHold` are invariants, inductive together.
- `ClientsImplementPlane`: `Spec => WritesAreAtomic`.

*The argument.* A write takes effect in `Write` or in `Land`, and in both cases
only when `Accepted`. By `ReadsHold` the policy it read is then the stored one,
so that writing back the labels of the Get changes none (`PerformedAtomically`).
By `Prepared` it names only clusters that have the CRD. Everything else leaves
the stored state alone or is a step of Karmada or of users.

*The assumptions* say what the constants are: finitely many pods, names that are
sequences of parts, member clusters other than the management cluster, specs and places of the right
types, and a `Nil` that is none of them. TLC evaluates them in every run.

*Only model-checked*: all liveness (it needs `ENABLED`, out of the prover's
reach), that is `BackupsComplete`, `OrphansPruned`, `DeletionCompletes`,
`BackupsCollected` and `AllSent`. Every invariant, every action property and every
refinement that a passing run checks is also proved.

## 6. Where code and documentation disagree

1. A StatefulMigration of an **unsupported kind** gets the finalizer and can
   never be deleted (`unsupported_kind`).
2. The **namespace on Karmada**: where Karmada has an API server of its own, the
   operator creates the namespace on the other one, and every reconcile fails at its policy
   until somebody creates it on Karmada (`namespace_karmada`).
3. Backups for a **cluster removed** from `sourceClusters` stay (`cluster_removed`).
4. Backups of a **deleted workload's** pods stay, because labelling fails before
   the cleanup (`workload_deleted`).
5. **Dash-joined names** coincide, and two migrations overwrite each other's
   backup (`name_clash`).
6. The **namespace's policy** keeps the clusters of the first reconcile
   (`namespace_policy`).

Seen while modelling, and not made into a run: `DeletePropagationPolicy` has no caller,
so the PropagationPolicies of deleted migrations and pruned backups stay on Karmada, where
`examples/README.md:151` says "Deleting StatefulMigration should clean up all resources";
where Karmada has an API server of its own, CheckpointBackups are made on the
manager's, so that the policies on Karmada select nothing there, although
`examples/workload-example/README.md:295` has them propagated "via Karmada"; an Update of a policy keeps
Karmada's labels but drops all annotations and all labels of users, where the
comment `karmada_client.go:115` says "preserve system-managed labels and
annotations";
an edited `resourceRef` or, for a pod, an edited `sourceClusters` leaves the
label on the former target; a pod that runs on another cluster than the first
listed blocks its migration before any backup (:359); for a pod present on several clusters every cluster
gets a backup with the containers of the last of them; without a member cluster client the
deletion of a pod's migration does not look for the label; one pod whose backup
is refused for ever blocks the later ones and the cleanup of its migration;
deleting one of two migrations
of a workload takes the label away until the other's next reconcile; an object
deleted in the foreground before it got the finalizer makes `Reconcile` fail
until it is gone; a Post that fails because the CRD exists, after a Get that
failed for another reason, ends the job, and the retry repairs it.

## 7. Plan

Done: the controller with its manager, watches as queues of events, refusals,
the life cycle and its refinement, the Karmada and member cluster clients with
several managers and late requests, the refinements of `KarmadaPlane`, and the proofs
of all safety properties. Next:

1. **Late requests and two managers over the whole of `Reconcile`**: which of the
   safety properties survive. `CleanExit` will not: an Update that labels the target
   and is performed only after `reconcileDelete` has found no label there is
   still accepted, since an Update that changes nothing leaves the resourceVersion.

## 8. Not modelled

The CheckpointBackup and MigrationRestore controllers (their `Reconcile` changes
nothing), the CheckpointRestore type (no controller uses it), the CRD constant
and generated code, flags, TLS, metrics and health checks of `main.go` (pure
I/O), the scripts and manifests under `deploy/` and `examples/`, and the tests.

Of the controller: a request of `MigrationBackup` that takes effect after its
job was given up, and two managers that both run `Reconcile` (section 7). The
theorems about `MigrationBackup` are therefore about one manager at a time
whose requests have been performed, or never will be, when its next job starts.
