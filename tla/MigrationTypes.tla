--------------------------- MODULE MigrationTypes ---------------------------
(***************************************************************************)
(* The API types of the operator (api/v1) as far as its behaviour depends  *)
(* on them, the names it derives from them, and the parameters shared by   *)
(* the modules about the MigrationBackup controller.                       *)
(*                                                                         *)
(* A Kubernetes name is the sequence of its dash-free parts: "web-0" is    *)
(* <<"web", "0">>.  Joining names with "-" is then concatenation, and two  *)
(* names are equal exactly when their sequences are.                       *)
(***************************************************************************)
EXTENDS Naturals, Sequences, FiniteSets

CONSTANTS
  Migrations,  \* names of StatefulMigrations, all in one namespace
  Pods,        \* names of pods
  Clusters,    \* names of Karmada member clusters
  Mgmt,        \* the management cluster, where the operator runs
  Refs,        \* workloads a spec.resourceRef can name
  Kind,        \* the lower-cased kind of each workload
  Selects,     \* the pods each workload's selector matches
  Schedules,   \* the part of a spec that is only copied: schedule, registry
  Images,      \* the container lists (names and images) a pod can have
  Specs,       \* the StatefulMigration specs users write
  Nil          \* "none": no key, no object, no policy

Kinds == {"statefulset", "deployment", "pod", "other"}

Locations == Clusters \cup {Mgmt}

MigrationSpec == [ref : Refs, clusters : Seq(Clusters), schedule : Schedules]

ASSUME NamesAssumption ==
  /\ Migrations \cup Pods \cup Clusters \subseteq Seq(STRING)
  /\ IsFiniteSet(Pods)
  /\ Mgmt \notin Clusters
  /\ Nil \notin Migrations
  /\ \A S \in SUBSET Clusters : S # Nil

ASSUME WorkloadAssumption ==
  /\ Kind \in [Refs -> Kinds]
  /\ Selects \in [Refs -> SUBSET Pods]
  /\ \A r \in Refs : Kind[r] = "pod" => \E p \in Pods : Selects[r] = {p}
  /\ Specs \subseteq MigrationSpec
  /\ Specs # {}

\* StatefulSets and Deployments live on the management cluster and are found
\* through the manager's client; a Pod target lives on the member clusters.
IsWorkload(r) == Kind[r] \in {"statefulset", "deployment"}

(***************************************************************************)
(* A StatefulMigration object.  The uid grows with every re-creation under *)
(* the same name; "gone" keeps the uid of the last object of that name.    *)
(* held: another finalizer, foregroundDeletion, keeps a deleted object.    *)
(***************************************************************************)
Phases == {"live", "deleting", "gone"}

Migration == [uid : Nat, phase : Phases, finalizer : BOOLEAN,
              held : BOOLEAN, spec : MigrationSpec]

\* A CheckpointBackup: its labels (the migration, pod and cluster it was made
\* for), the uid of its controller owner, and its spec.
NoOwner == 0
BackupSpec == [podRef : Pods, ref : Refs, schedule : Schedules, image : Images]

Backup == [migration : Migrations, pod : Pods, cluster : Clusters,
           owner : Nat, spec : BackupSpec]

\* fmt.Sprintf("%s-%s-%s", migration, pod, cluster)
BackupName(m, p, c) == m \o p \o c

\* fmt.Sprintf("%s-policy", backup)
PolicyName(n) == Append(n, "policy")

BackupNames == {BackupName(m, p, c) : m \in Migrations, p \in Pods, c \in Clusters}

\* No two (migration, pod, cluster) triples share a CheckpointBackup name.
UniqueNames ==
  \A m1, m2 \in Migrations, p1, p2 \in Pods, c1, c2 \in Clusters :
     BackupName(m1, p1, c1) = BackupName(m2, p2, c2)
        => m1 = m2 /\ p1 = p2 /\ c1 = c2

\* The pods of a list the controller has discovered, with their containers.
PodInfo == [pod : Pods, image : Images]

=============================================================================
