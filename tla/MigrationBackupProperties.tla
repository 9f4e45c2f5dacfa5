---------------------- MODULE MigrationBackupProperties ---------------------
(***************************************************************************)
(* What the MigrationBackup controller promises.  Every property is stated *)
(* for the specification of MigrationBackup; those that hold only of some  *)
(* instances say so.                                                       *)
(***************************************************************************)
EXTENDS MigrationBackup

Exists(m) == sm[m].phase # "gone"

\* The worker is past the step that adds the finalizer, in reconcileNormal.
Reconciling == pc \notin {"idle", "finalizer"} /\ obj.phase = "live"

-----------------------------------------------------------------------------
(***************************************************************************)
(* No StatefulMigration is ever forgotten: as long as it exists its key is *)
(* queued, waiting to be queued again, in the worker's hands, or the       *)
(* informer has still an event to deliver that will queue it.  Reconcile's *)
(* return values, the two watches of SetupWithManager and restarts have to *)
(* cooperate for this.                                                     *)
(***************************************************************************)
NeverForgotten ==
  \A m \in Migrations :
     Exists(m) => m \in queue \cup delayed \cup {key} \/ events[m] # <<>>

(***************************************************************************)
(* While reconcileNormal runs, the object it was started for cannot        *)
(* disappear: it still exists, with the same uid, and carries the          *)
(* finalizer, however stale the copy is that the worker has read.  This is *)
(* what adding the finalizer first is for: whatever this job creates, a    *)
(* later reconcileDelete will find the object to clean up after.           *)
(***************************************************************************)
HeldWhileReconciling ==
  Reconciling => /\ Exists(key) /\ sm[key].uid = obj.uid
                 /\ sm[key].finalizer

\* Nobody changes the resourceRef of an object: one that is created anew under
\* the same name may have another.
KeepsRef ==
  \A m \in Migrations :
     sm'[m].uid = sm[m].uid => sm'[m].spec.ref = sm[m].spec.ref

(***************************************************************************)
(* A label on a workload has somebody to remove it: a StatefulMigration    *)
(* with a finalizer that targets the workload.  Only for behaviours in     *)
(* which every step KeepsRef: the controller does not remember the target  *)
(* it labelled earlier.                                                    *)
(***************************************************************************)
LabelHasHolder ==
  \A place \in labelled :
     IsWorkload(place[2]) =>
        \E m \in Migrations : /\ Exists(m) /\ sm[m].finalizer
                              /\ sm[m].spec.ref = place[2]

(***************************************************************************)
(* When a StatefulMigration is let go, the target its spec names then is   *)
(* not labelled, even if users have edited the spec while the deletion was *)
(* under way.  (A pod's label is not looked for without a Karmada client.) *)
(***************************************************************************)
TargetPlaces(spec) ==
  IF IsWorkload(spec.ref) THEN {<<Mgmt, spec.ref>>}
  ELSE IF karmada THEN Range(spec.clusters) \X {spec.ref} ELSE {}

FinalizerReleasedClean ==
  [][\A m \in Migrations :
        sm[m].finalizer /\ ~sm'[m].finalizer
           => TargetPlaces(sm[m].spec) \cap labelled' = {}]_vars

(***************************************************************************)
(* The worker deletes a CheckpointBackup only if it was made for the       *)
(* migration it is working on, for this object of that name or an earlier  *)
(* one, and, in reconcileNormal, for a pod the job has not found.  Deletes *)
(* are by name and from a list read out of a stale cache.                  *)
(***************************************************************************)
WorkerDeletesOwn ==
  [][victims' # victims =>
        \A n \in DOMAIN backups \ DOMAIN backups' :
           /\ backups[n].migration = key
           /\ backups[n].owner <= obj.uid
           /\ obj.phase = "live" => backups[n].pod \notin FoundPods]_vars

(***************************************************************************)
(* The name, the labels and the spec of a CheckpointBackup and the cluster *)
(* its PropagationPolicy sends it to all agree on one pod and one cluster, *)
(* and the pod is one of the target's.  An update writes only the spec and *)
(* keeps what it found under the name, so this needs UniqueNames.          *)
(***************************************************************************)
Coherent(n, b) ==
  /\ n = BackupName(b.migration, b.pod, b.cluster)
  /\ b.spec.podRef = b.pod
  /\ b.pod \in Selects[b.spec.ref]
  /\ PolicyName(n) \in DOMAIN policies => policies[PolicyName(n)] = b.cluster

BackupDescribesItsPod == \A n \in DOMAIN backups : Coherent(n, backups[n])

(***************************************************************************)
(* A backup is sent to a cluster only after the cluster has the CRD, and   *)
(* Karmada's API server has the namespace and a PropagationPolicy in it:   *)
(* whichever reconciles were cut short by errors or restarts before, and   *)
(* although the worker creates the namespace on another API server than    *)
(* the policy.  Which clusters that policy propagates the namespace to is  *)
(* not said: it need not be this one (NamespacePropagated).                *)
(***************************************************************************)
PropagationPrepared ==
  \A n \in DOMAIN policies :
     /\ policies[n] \in crds
     /\ KarmadaServer \in namespaces
     /\ nsPolicy # Nil

-----------------------------------------------------------------------------
(***************************************************************************)
(* Why the first two hold.  The worker acts on copies: the cache's, and    *)
(* the one it has taken out of the cache.  Behind(o, s) is all a copy o,   *)
(* however old, still tells about the stored object s of the same name.    *)
(* Its last conjunct is the point: a live copy with the finalizer is a     *)
(* licence to act, because only the worker removes the finalizer, and not  *)
(* before its own cache has shown it the deletion.                         *)
(***************************************************************************)
Behind(o, s) ==
  /\ o.uid <= s.uid
  /\ o.uid = s.uid => /\ o.phase # "live" => s.phase # "live"
                      /\ o.phase = "gone" => s.phase = "gone"
                      /\ o.phase # "live" /\ ~o.finalizer => ~s.finalizer
  /\ o.phase = "live" /\ o.finalizer =>
        s.phase # "gone" /\ s.uid = o.uid /\ s.finalizer

CacheLags ==
  \A m \in Migrations :
     LET e == events[m] IN
     /\ Behind(smCache[m], sm[m])
     /\ \A i \in 1..Len(e) : Behind(smCache[m], e[i]) /\ Behind(e[i], sm[m])
     /\ \A i, j \in 1..Len(e) : i < j => Behind(e[i], e[j])

\* The informer has the whole story: the last event, or without events the
\* cache, shows the object as it is stored.
CacheCatchesUp ==
  \A m \in Migrations :
     sm[m] = IF events[m] = <<>> THEN smCache[m] ELSE events[m][Len(events[m])]

JobLags ==
  pc # "idle" =>
     /\ Behind(obj, sm[key])
     /\ obj.phase # "gone"
     /\ pc # "finalizer" => obj.finalizer
     /\ obj.phase = "deleting" =>
           /\ ~(smCache[key].phase = "live" /\ smCache[key].uid = obj.uid)
           /\ \A i \in 1..Len(events[key]) :
                 ~(events[key][i].phase = "live" /\ events[key][i].uid = obj.uid)

(***************************************************************************)
(* The inductive invariant: whatever is cached, on its way to the cache or *)
(* in the worker's hands is an earlier state of the stored object, and     *)
(* nothing is lost track of.                                               *)
(***************************************************************************)
CopiesLag == CacheLags /\ CacheCatchesUp /\ JobLags /\ NeverForgotten

(***************************************************************************)
(* Why the finalizer goes only with the label: from the moment that        *)
(* reconcileDelete has visited a place, to the Update that removes the     *)
(* finalizer, nobody labels the place again.  The worker is the only one   *)
(* to add labels, and what it does meanwhile is this deletion.             *)
(***************************************************************************)
JobPhase ==
  /\ pc \in NormalSteps => obj.phase = "live"
  /\ pc \in DeleteSteps => obj.phase = "deleting"

Unlabelled ==
  /\ pc = "unlabel" /\ karmada /\ ~IsWorkload(obj.spec.ref) =>
        \A c \in Range(obj.spec.clusters) :
           c \in Range(todo) \/ <<c, obj.spec.ref>> \notin labelled
  /\ pc = "listOwned" \/ (pc = "delete" /\ obj.phase = "deleting") =>
        TargetPlaces(obj.spec) \cap labelled = {}

NoFinalizerGone ==
  \A m \in Migrations : sm[m].phase = "gone" => ~sm[m].finalizer

CleanExit == JobPhase /\ Unlabelled /\ NoFinalizerGone

-----------------------------------------------------------------------------
(***************************************************************************)
(* Why backups are right and sent only where they can arrive, in instances *)
(* with UniqueNames: what the worker's job has behind it at each pc, and   *)
(* what names and owners say of the objects that carry them.               *)
(***************************************************************************)

\* Each set-up step has been done before the next: also by a job that found
\* it done, and for every cluster the loops have still to visit.
SetUp ==
  /\ pc \in {"namespace", "nsPolicy"} => todo = obj.spec.clusters
  /\ pc \in {"nsPolicy", "crd", "backup", "policy"} => Mgmt \in namespaces
  /\ nsPolicy # Nil => KarmadaServer \in namespaces
  /\ pc \in {"crd", "backup", "policy"} /\ karmada => nsPolicy # Nil
  /\ pc = "crd" /\ karmada =>
        Range(obj.spec.clusters) \subseteq crds \cup Range(todo)
  /\ pc \in {"backup", "policy"} /\ karmada => Range(todo) \subseteq crds

\* The pods a job has found are those of its target, and of no earlier job.
PodsSelected ==
  /\ pc = "idle" => found = <<>> /\ items = <<>>
  /\ pc # "idle" => \A q \in Range(found) \cup Range(items) :
                       q.pod \in Selects[obj.spec.ref]

PoliciesNamed ==
  \A m \in Migrations, p \in Pods, c \in Clusters :
     LET n == PolicyName(BackupName(m, p, c)) IN
     n \in DOMAIN policies => policies[n] = c

CachedNamed ==
  \A n \in DOMAIN backupCache :
     LET b == backupCache[n] IN n = BackupName(b.migration, b.pod, b.cluster)

\* The names a job deletes are names of its own backups, and not of pods it
\* has found.
VictimsOwn ==
  pc = "delete" =>
     \A n \in victims : \E p \in Pods, c \in Clusters :
        /\ n = BackupName(key, p, c)
        /\ obj.phase = "live" => p \notin FoundPods

\* A backup has no owner younger than the object the cache shows, nor than
\* the one a job for its migration is about.
OwnersKnown ==
  /\ \A n \in DOMAIN backups :
        backups[n].owner <= smCache[backups[n].migration].uid
  /\ pc # "idle" =>
        /\ obj.uid <= smCache[key].uid
        /\ \A n \in DOMAIN backups :
              backups[n].migration = key => backups[n].owner <= obj.uid

(***************************************************************************)
(* All of this together is inductive, with TypeOK, CopiesLag, CleanExit,   *)
(* PropagationPrepared and BackupDescribesItsPod: what reconcileNormal     *)
(* sends has been prepared, and what the two cleanups delete is known by   *)
(* its name, although both work from stale lists and may be cut short      *)
(* anywhere.                                                               *)
(***************************************************************************)
BackupsAccounted ==
  /\ SetUp /\ PodsSelected
  /\ PoliciesNamed /\ CachedNamed /\ VictimsOwn /\ OwnersKnown

-----------------------------------------------------------------------------
(***************************************************************************)
(* The controller implements the life cycle of MigrationLifecycle, with    *)
(* the finalizer for an adopted migration and the label for a mark.        *)
(***************************************************************************)
WorkloadRefs == {r \in Refs : IsWorkload(r)}

Stage(o) ==
  CASE o.phase = "gone"                       -> "gone"
    [] o.phase = "live" /\ ~o.finalizer      -> "new"
    [] o.phase = "live" /\ o.finalizer       -> "held"
    [] o.phase = "deleting" /\ o.finalizer   -> "leaving"
    [] o.phase = "deleting" /\ ~o.finalizer  -> "fading"

Lifecycle == INSTANCE MigrationLifecycle WITH
  Targets <- WorkloadRefs,
  Names   <- BackupNames,
  stage   <- [m \in Migrations |-> Stage(sm[m])],
  uid     <- [m \in Migrations |-> sm[m].uid],
  targets <- [m \in Migrations |-> {sm[m].spec.ref} \cap WorkloadRefs],
  backups <- [n \in DOMAIN backups |-> [migration |-> backups[n].migration,
                                        owner |-> backups[n].owner]],
  marked  <- {r \in WorkloadRefs : <<Mgmt, r>> \in labelled}

(***************************************************************************)
(* No label is put on a workload and no backup is made on behalf of a      *)
(* StatefulMigration that does not carry the finalizer at that moment, a   *)
(* backup names the object that is there then as its owner, the finalizer  *)
(* goes only when the workload named by the stored spec is not labelled,   *)
(* and it never comes back to a deleted object: although the worker has    *)
(* all this from copies of the object taken long before.                   *)
(***************************************************************************)
ImplementsLifecycle == Lifecycle!Spec

(***************************************************************************)
(* The controller implements KarmadaPlane, like the clients it calls, in   *)
(* instances with UniqueNames: what the policies of backups, each for one  *)
(* cluster, and the CRDs go through.                                       *)
(***************************************************************************)
PolicyNames == {PolicyName(n) : n \in BackupNames}

\* The clusters of the backups a policy can be for: one with UniqueNames.
ClustersOf(x) ==
  {c \in Clusters : \E m \in Migrations, p \in Pods :
                       x = PolicyName(BackupName(m, p, c))}

Plane == INSTANCE KarmadaPlane WITH
  Names      <- PolicyNames,
  Placements <- [x \in PolicyNames |-> {{c} : c \in ClustersOf(x)}],
  Needs      <- [x \in PolicyNames |-> ClustersOf(x)],
  Shared     <- {},
  policies   <- [x \in DOMAIN policies |->
                   [clusters |-> {policies[x]}, stamped |-> FALSE]]

(***************************************************************************)
(* A policy is only ever written with the cluster its name says, and only  *)
(* while that cluster has the CRD, although the loop that installs CRDs is *)
(* over, or was cut short, long before; no step takes a CRD or a policy    *)
(* away (nobody but the operator touches policies in this specification).  *)
(***************************************************************************)
ImplementsPlane == Plane!Spec

-----------------------------------------------------------------------------
(***************************************************************************)
(* Liveness, under FairSpec.  Users and faults stop eventually: their      *)
(* budgets are finite.                                                     *)
(***************************************************************************)

\* Where the pods of a target are: a pod target is taken to be on the first
\* source cluster.
Home(spec) == IF IsWorkload(spec.ref) THEN Mgmt ELSE Head(spec.clusters)

\* The StatefulMigrations that can make progress: live, for a workload that
\* exists or for a pod that runs at home and on no other source cluster.
Reachable(spec) ==
  \/ IsWorkload(spec.ref) /\ spec.ref \in workloads
  \/ /\ Kind[spec.ref] = "pod" /\ KarmadaMounted
     /\ spec.clusters # <<>>
     /\ \A c \in Range(spec.clusters) : PodsAt(c, spec.ref) # {} <=> c = Home(spec)

RunningPods(m) == PodsAt(Home(sm[m].spec), sm[m].spec.ref)

\* The API server refuses one of the backups: a job ends there every time.
Obstructed(m) ==
  \E p \in RunningPods(m), c \in Range(sm[m].spec.clusters) :
     BackupName(m, p, c) \in refused

\* Karmada's API server has the namespace, or will get it from the worker: not
\* if it is another than the manager's and no administrator has seen to it.
KarmadaReady == KarmadaMounted => KarmadaServer \in namespaces \cup {Mgmt}

Active ==
  {m \in Migrations :
     /\ sm[m].phase = "live" /\ Reachable(sm[m].spec)
     /\ KarmadaReady /\ ~Obstructed(m)}

\* The backup of a pod and cluster is there, up to date, owned by the live
\* object, and sent to its cluster.
BackedUp(m, p, c) ==
  LET n == BackupName(m, p, c)
      s == sm[m].spec
  IN /\ n \in DOMAIN backups
     /\ backups[n].owner = sm[m].uid
     /\ backups[n].spec = [podRef |-> p, ref |-> s.ref, schedule |-> s.schedule,
                           image |-> pods[<<Home(s), p>>]]
     /\ KarmadaMounted => /\ PolicyName(n) \in DOMAIN policies
                          /\ policies[PolicyName(n)] = c

(***************************************************************************)
(* Eventually every running pod of every active migration is backed up for *)
(* every source cluster, and the target is labelled: whatever was deleted, *)
(* collected for a former owner, restarted or lost on the way, and even if *)
(* the backups of other migrations are refused for ever: one key that      *)
(* fails every time does not starve the others.                            *)
(***************************************************************************)
Complete ==
  \A m \in Active :
     /\ <<Home(sm[m].spec), sm[m].spec.ref>> \in labelled
     /\ \A p \in RunningPods(m), c \in Range(sm[m].spec.clusters) :
           BackedUp(m, p, c)

BackupsComplete == <>[]Complete

(***************************************************************************)
(* Eventually no active migration has a backup of a pod that is not there. *)
(* Pods are not watched: only the periodic requeue finds out.              *)
(***************************************************************************)
OrphansPruned ==
  <>[](\A n \in DOMAIN backups :
         backups[n].migration \in Active =>
            backups[n].pod \in RunningPods(backups[n].migration))

(***************************************************************************)
(* The deletion of a StatefulMigration of a supported kind completes.      *)
(***************************************************************************)
DeletionCompletes ==
  \A m \in Migrations :
     sm[m].phase = "deleting" /\ Kind[sm[m].spec.ref] # "other"
        ~> sm[m].phase = "gone" \/ Kind[sm[m].spec.ref] = "other"

(***************************************************************************)
(* Eventually no CheckpointBackup is left of a StatefulMigration that is   *)
(* gone: those that reconcileDelete missed, because the cache it lists     *)
(* from did not show them yet, are found by the garbage collector.         *)
(***************************************************************************)
BackupsCollected == <>[](\A n \in DOMAIN backups : Exists(backups[n].migration))

-----------------------------------------------------------------------------
(***************************************************************************)
(* What the documentation and the comments say and the code does not do.   *)
(***************************************************************************)

\* A deletion completes, whatever kind of resource the spec names: "Finalizer
\* to ensure proper cleanup" (MigrationBackupFinalizer).  reconcileDelete
\* returns an error for a kind it does not know, for ever.
EveryDeletionCompletes ==
  \A m \in Migrations : sm[m].phase = "deleting" ~> sm[m].phase = "gone"

\* "SourceClusters specifies which clusters to back up from": a cluster taken
\* out of the list is not backed up from any more.  The cleanup only compares
\* pods, so the backups for the cluster stay.
OnlySourceClusters ==
  <>[](\A n \in DOMAIN backups :
         backups[n].migration \in Active =>
            backups[n].cluster \in Range(sm[backups[n].migration].spec.clusters))

\* "Removing pods should delete corresponding CheckpointBackups", also when
\* they go because their workload is deleted.  Labelling the workload fails
\* then, before the cleanup.
OnlyRunningPods ==
  <>[](\A n \in DOMAIN backups :
         LET m == backups[n].migration IN
         sm[m].phase = "live" => backups[n].pod \in RunningPods(m))

\* The "stateful-migration namespace exists on Karmada": eventually, while there
\* is a migration whose target the worker reaches.  The worker creates it on the
\* manager's API server; on another one it has to be there for its policy, and
\* until somebody else creates it every reconcile fails.
NamespaceOnKarmada ==
  <>[](KarmadaMounted /\ (\E m \in Migrations :
                            sm[m].phase = "live" /\ Reachable(sm[m].spec))
         => KarmadaServer \in namespaces)

\* The namespace "is propagated to member clusters": to those the backups are
\* sent to.  The policy is written once, for the clusters of the first
\* migration, and then left alone.
NamespacePropagated ==
  <>[](\A m \in Active : nsPolicy # Nil => Range(sm[m].spec.clusters) \subseteq nsPolicy)

=============================================================================
