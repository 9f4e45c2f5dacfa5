-------------------------- MODULE MigrationLifecycle --------------------------
(***************************************************************************)
(* What users of a StatefulMigration may rely on, without saying how: a    *)
(* migration is adopted before anything is done on its behalf, and it is   *)
(* let go only when the workload it targets is no longer marked.  There    *)
(* are no caches, no queue, no worker, no requests and no failures here.   *)
(***************************************************************************)
EXTENDS Naturals

CONSTANTS
  Migrations,  \* names of StatefulMigrations
  Targets,     \* StatefulSets and Deployments
  Names        \* names of CheckpointBackups

VARIABLES
  stage,    \* of each migration; see Stages
  uid,      \* of the last object of each name
  targets,  \* {the workload a migration's spec names}, or {} for another kind
  backups,  \* the migration and the owner's uid of each existing backup
  marked    \* workloads that carry the label

vars == <<stage, uid, targets, backups, marked>>

\* new: not adopted yet.  held: adopted.  leaving: deleted, to be cleaned up.
\* fading: deleted and cleaned up, kept by Kubernetes until its backups go.
Stages == {"gone", "new", "held", "leaving", "fading"}

Adopted(m) == stage[m] \in {"held", "leaving"}

Init ==
  /\ stage = [m \in Migrations |-> "new"]
  /\ uid = [m \in Migrations |-> 1]
  /\ targets \in [Migrations -> {{}} \cup {{t} : t \in Targets}]
  /\ backups = [n \in {} |-> 0]
  /\ marked = {}

Move(m, s) == stage' = [stage EXCEPT ![m] = s]

\* Users.
Aim(m) == \E T \in {{}} \cup {{t} : t \in Targets} :
            targets' = [targets EXCEPT ![m] = T]

Create(m) ==
  /\ stage[m] = "gone" /\ Move(m, "new")
  /\ uid' = [uid EXCEPT ![m] = @ + 1]
  /\ Aim(m)
  /\ UNCHANGED <<backups, marked>>

Retarget(m) ==
  /\ stage[m] # "gone"
  /\ UNCHANGED <<stage, uid, backups, marked>>
  /\ Aim(m)

Delete(m) ==
  /\ \/ stage[m] = "new" /\ (Move(m, "gone") \/ Move(m, "fading"))
     \/ stage[m] = "held" /\ Move(m, "leaving")
  /\ UNCHANGED <<uid, targets, backups, marked>>

\* Kubernetes: a deletion in the foreground ends after those of the dependents.
Fade(m) ==
  /\ stage[m] = "fading" /\ Move(m, "gone")
  /\ \A n \in DOMAIN backups :
        backups[n].migration = m => backups[n].owner # uid[m]
  /\ UNCHANGED <<uid, targets, backups, marked>>

\* The operator.
Adopt(m) ==
  /\ stage[m] = "new" /\ Move(m, "held")
  /\ UNCHANGED <<uid, targets, backups, marked>>

Release(m) ==
  /\ stage[m] = "leaving" /\ (Move(m, "gone") \/ Move(m, "fading"))
  /\ targets[m] \cap marked = {}
  /\ UNCHANGED <<uid, targets, backups, marked>>

Make(m) ==
  /\ Adopted(m)
  /\ UNCHANGED <<stage, uid, targets, marked>>
  /\ \E n \in Names \ DOMAIN backups :
        backups' = [x \in DOMAIN backups \cup {n} |->
                      IF x = n THEN [migration |-> m, owner |-> uid[m]]
                      ELSE backups[x]]

Mark(m) ==
  /\ Adopted(m)
  /\ UNCHANGED <<stage, uid, targets, backups>>
  /\ \E t \in Targets : marked' = marked \cup {t}

\* Anybody: a backup is deleted, a mark is taken away.
Lose ==
  /\ UNCHANGED <<stage, uid, targets, marked>>
  /\ \E n \in DOMAIN backups : backups' = [x \in DOMAIN backups \ {n} |-> backups[x]]

Unmark ==
  /\ UNCHANGED <<stage, uid, targets, backups>>
  /\ \E t \in Targets : marked' = marked \ {t}

Next ==
  \/ \E m \in Migrations :
        \/ Create(m) \/ Retarget(m) \/ Delete(m) \/ Fade(m)
        \/ Adopt(m) \/ Release(m) \/ Make(m) \/ Mark(m)
  \/ Lose \/ Unmark

Spec == Init /\ [][Next]_vars

=============================================================================
