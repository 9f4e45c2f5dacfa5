--------------------------- MODULE KarmadaClients ---------------------------
(***************************************************************************)
(* The requests behind three steps of a reconcile: EnsureCRD of the member *)
(* cluster client, CreateOrUpdatePropagationPolicy of the Karmada client   *)
(* and its caller ensureNamespacePropagationPolicy.  MigrationBackup takes *)
(* each for one atomic step; here each is what it is, a Get and a write.   *)
(*                                                                         *)
(* In between, Karmada writes to the same policies, users change and       *)
(* delete them, and during a leader hand-over another manager does the     *)
(* same work.  A request can fail, and a write whose answer is lost is     *)
(* still on its way: the API server may perform it at any later time.      *)
(*                                                                         *)
(* Karmada's API server has the stateful-migration namespace here; where   *)
(* it has not, a job ends before its first write (MigrationBackup).        *)
(***************************************************************************)
EXTENDS Naturals, Sequences, FiniteSets, Functions

CONSTANTS
  Operators,   \* managers
  Leader,      \* the one that holds the lease, others may stop at any time
  Clusters,    \* member clusters
  Migrations,  \* the StatefulMigrations they reconcile, of one pod each
  Sources,     \* spec.sourceClusters of each migration
  NsPolicy,    \* the name of the namespace's policy
  Nil,         \* "none"
  UserChoice,  \* the placements users give to policies
  MaxChanges,  \* bound: changes users make to policies
  MaxFaults    \* bound: requests that fail or whose answer is lost

ASSUME ClientsAssumption ==
  /\ Leader \in Operators
  /\ Sources \in [Migrations -> Seq(Clusters)]
  /\ NsPolicy \notin Migrations \X Clusters
  /\ Nil \notin Migrations
  /\ UserChoice \subseteq SUBSET Clusters
  /\ MaxChanges \in Nat /\ MaxFaults \in Nat

\* The policy of a migration's backup for a cluster is named by the two.
Names == {NsPolicy} \cup (Migrations \X Clusters)

\* version: the resourceVersion, here counted for each name.
Policy == [version : Nat, clusters : SUBSET Clusters, stamped : BOOLEAN]

\* The writes: a read of Nil stands for a policy that was not found.
PolicyWrite == [name : Names, read : Policy \cup {Nil}, clusters : SUBSET Clusters]
CRDPost     == [cluster : Clusters]
Request     == PolicyWrite \cup CRDPost

VARIABLES
  crds,      \* clusters with the CheckpointBackup CRD
  policies,  \* PropagationPolicies, by name: a function on the existing ones
  version,   \* of each name: how often it was written
  late,      \* writes without an answer that may still be performed
  op,        \* what each manager is doing
  changes, faults

storeVars == <<crds, policies, version>>
vars == <<storeVars, late, op, changes, faults>>

Steps == {"idle", "check", "getCRD", "postCRD", "get", "write"}

Job == [pc : Steps, migration : Migrations \cup {Nil}, todo : Seq(Clusters),
        name : Names, read : Policy \cup {Nil}]

Idle == [pc |-> "idle", migration |-> Nil, todo |-> <<>>, name |-> NsPolicy,
         read |-> Nil]

\* The shape of a job: the loops over the source clusters hold the cluster
\* they are at, and its policy's name; nothing is read yet before a Get.
WellFormed(job) ==
  /\ job.pc # "idle" => job.migration \in Migrations
  /\ job.pc \in {"check", "get"} => job.read = Nil
  /\ job.pc \in {"getCRD", "postCRD"} => job.todo # <<>>
  /\ job.pc \in {"get", "write"} /\ job.name # NsPolicy =>
       job.todo # <<>> /\ job.name = <<job.migration, Head(job.todo)>>

(***************************************************************************)
(* The state: what the API servers store, requests that are still on their *)
(* way, and where each manager is in its job, which is well-formed.        *)
(***************************************************************************)
TypeOK ==
  /\ crds \subseteq Clusters
  /\ DOMAIN policies \subseteq Names
  /\ \A n \in DOMAIN policies : policies[n] \in Policy
  /\ version \in [Names -> Nat]
  /\ late \subseteq Request
  /\ op \in [Operators -> Job] /\ \A o \in Operators : WellFormed(op[o])
  /\ changes \in 0..MaxChanges /\ faults \in 0..MaxFaults

Init ==
  /\ crds = {}
  /\ policies = [n \in {} |-> Nil]
  /\ version = [n \in Names |-> 0]
  /\ late = {}
  /\ op = [o \in Operators |-> Idle]
  /\ changes = 0 /\ faults = 0

-----------------------------------------------------------------------------
(***************************************************************************)
(* The API servers.                                                        *)
(***************************************************************************)

\* A Create of what exists and an Update of what has changed are refused.
Accepted(r) ==
  IF r \in CRDPost THEN r.cluster \notin crds
  ELSE IF r.read = Nil THEN r.name \notin DOMAIN policies
       ELSE /\ r.name \in DOMAIN policies
            /\ policies[r.name].version = r.read.version

\* Policy n is stored with a placement and stamp; a write that changes
\* nothing leaves the version as it is.
Store(n, clusters, stamped) ==
  IF /\ n \in DOMAIN policies
     /\ policies[n].clusters = clusters /\ policies[n].stamped = stamped
  THEN UNCHANGED <<policies, version>>
  ELSE /\ version' = [version EXCEPT ![n] = @ + 1]
       /\ policies' = [x \in DOMAIN policies \cup {n} |->
                         IF x # n THEN policies[x]
                         ELSE [version |-> version[n] + 1, clusters |-> clusters,
                               stamped |-> stamped]]

\* An Update sends the placement, and back the labels of Karmada it has read.
Perform(r) ==
  IF r \in CRDPost
  THEN /\ crds' = crds \cup {r.cluster}
       /\ UNCHANGED <<policies, version>>
  ELSE /\ Store(r.name, r.clusters, r.read # Nil /\ r.read.stamped)
       /\ UNCHANGED crds

-----------------------------------------------------------------------------
(***************************************************************************)
(* A manager's job: the namespace's policy, the CRDs, backups' policies.   *)
(***************************************************************************)
Goto(o, job) == op' = [op EXCEPT ![o] = job]

\* Mutant: the loop keeps the first policy's name.
PoliciesFromOneName(job, clusters) ==
  IF clusters = <<>> THEN Idle
  ELSE [job EXCEPT !.pc = "get", !.todo = clusters, !.read = Nil,
                   !.name = IF @ = NsPolicy \/ job.pc # "write"
                            THEN <<job.migration, Head(clusters)>> ELSE @]

\* The next policy of the loop over the source clusters, or the end of it.
PoliciesFrom(job, clusters) ==
  IF clusters = <<>> THEN Idle
  ELSE [job EXCEPT !.pc = "get", !.todo = clusters,
                   !.name = <<job.migration, Head(clusters)>>, !.read = Nil]

CRDsFrom(job, clusters) ==
  IF clusters = <<>> THEN PoliciesFrom(job, Sources[job.migration])
  ELSE [job EXCEPT !.pc = "getCRD", !.todo = clusters, !.read = Nil]

\* The placement the policy is written with.
Placement(job) ==
  IF job.name = NsPolicy THEN Range(Sources[job.migration])
                         ELSE {Head(job.todo)}

\* Mutant: the resourceVersion is fetched again just before the Update.
PendingRefetched(job) ==
  IF job.pc = "postCRD" THEN [cluster |-> Head(job.todo)]
  ELSE [name |-> job.name, clusters |-> Placement(job),
        read |-> IF job.read = Nil \/ job.name \notin DOMAIN policies THEN job.read
                 ELSE [job.read EXCEPT !.version = policies[job.name].version]]

\* The write a job is about to send: what was read decides between Create and
\* Update, and an Update sends back the resourceVersion and Karmada's labels.
Pending(job) ==
  IF job.pc = "postCRD" THEN [cluster |-> Head(job.todo)]
  ELSE [name |-> job.name, read |-> job.read, clusters |-> Placement(job)]

\* How a job goes on after a write.
AfterWrite(job) ==
  IF job.pc = "postCRD" THEN CRDsFrom(job, Tail(job.todo))
  ELSE IF job.name = NsPolicy THEN CRDsFrom(job, Sources[job.migration])
  ELSE PoliciesFrom(job, Tail(job.todo))

Begin(o, m) ==
  /\ op[o].pc = "idle"
  /\ Goto(o, [Idle EXCEPT !.pc = "check", !.migration = m])
  /\ UNCHANGED <<storeVars, late, changes, faults>>

\* ensureNamespacePropagationPolicy: a policy that is there is left alone.
CheckNamespacePolicy(o) ==
  /\ op[o].pc = "check"
  /\ Goto(o, IF NsPolicy \in DOMAIN policies
             THEN CRDsFrom(op[o], Sources[op[o].migration])
             ELSE [op[o] EXCEPT !.pc = "get", !.name = NsPolicy])
  /\ UNCHANGED <<storeVars, late, changes, faults>>

\* EnsureCRD: a Get that fails, for whatever reason, means "not there".
GetCRD(o) ==
  /\ op[o].pc = "getCRD"
  /\ \/ /\ Head(op[o].todo) \in crds
        /\ Goto(o, CRDsFrom(op[o], Tail(op[o].todo)))
        /\ UNCHANGED faults
     \/ /\ Head(op[o].todo) \in crds /\ faults < MaxFaults
        /\ faults' = faults + 1
        /\ Goto(o, [op[o] EXCEPT !.pc = "postCRD"])
     \/ /\ Head(op[o].todo) \notin crds
        /\ Goto(o, [op[o] EXCEPT !.pc = "postCRD"])
        /\ UNCHANGED faults
  /\ UNCHANGED <<storeVars, late, changes>>

\* Mutant: a policy that is there is left as it is.
GetPolicyOnce(o) ==
  /\ op[o].pc = "get"
  /\ Goto(o, IF op[o].name \in DOMAIN policies THEN AfterWrite(op[o])
             ELSE [op[o] EXCEPT !.pc = "write", !.read = Nil])
  /\ UNCHANGED <<storeVars, late, changes, faults>>

\* Mutant: Karmada's labels are not copied.
GetPolicyUnlabelled(o) ==
  /\ op[o].pc = "get"
  /\ LET n == op[o].name IN
     Goto(o, [op[o] EXCEPT !.pc = "write",
                !.read = IF n \notin DOMAIN policies THEN Nil
                         ELSE [policies[n] EXCEPT !.stamped = FALSE]])
  /\ UNCHANGED <<storeVars, late, changes, faults>>

\* CreateOrUpdatePropagationPolicy: the Get decides what to send.
GetPolicy(o) ==
  /\ op[o].pc = "get"
  /\ LET n == op[o].name IN
     Goto(o, [op[o] EXCEPT !.pc = "write",
                !.read = IF n \in DOMAIN policies THEN policies[n] ELSE Nil])
  /\ UNCHANGED <<storeVars, late, changes, faults>>

Writing(o) == op[o].pc \in {"write", "postCRD"}

\* The API server answers: the write is performed and the job goes on, or it
\* is refused and Reconcile returns the error.
Write(o) ==
  /\ Writing(o)
  /\ LET r == Pending(op[o]) IN
     \/ /\ Accepted(r)
        /\ Perform(r)
        /\ Goto(o, AfterWrite(op[o]))
     \/ /\ ~Accepted(r)
        /\ Goto(o, Idle)
        /\ UNCHANGED storeVars
  /\ UNCHANGED <<late, changes, faults>>

-----------------------------------------------------------------------------
(***************************************************************************)
(* Faults: a Get that fails, a write without an answer.  A crash is such a *)
(* failure: a manager keeps nothing about its job.                         *)
(***************************************************************************)

\* Mutant: an error of EnsureCRD is only logged.
FailLogged(o) ==
  /\ op[o].pc # "idle" /\ faults < MaxFaults
  /\ faults' = faults + 1
  /\ Goto(o, IF op[o].pc = "postCRD" THEN AfterWrite(op[o]) ELSE Idle)
  /\ late' = IF Writing(o) THEN late \cup {Pending(op[o])} ELSE late
  /\ UNCHANGED <<storeVars, changes>>

Fail(o) ==
  /\ op[o].pc # "idle" /\ faults < MaxFaults
  /\ faults' = faults + 1
  /\ Goto(o, Idle)
  /\ late' = IF Writing(o) THEN late \cup {Pending(op[o])} ELSE late
  /\ UNCHANGED <<storeVars, changes>>

Land(r) ==
  /\ r \in late
  /\ late' = late \ {r}
  /\ IF Accepted(r) THEN Perform(r) ELSE UNCHANGED storeVars
  /\ UNCHANGED <<op, changes, faults>>

-----------------------------------------------------------------------------
(***************************************************************************)
(* Karmada and the users.                                                  *)
(***************************************************************************)
Stamp(n) ==
  /\ n \in DOMAIN policies /\ ~policies[n].stamped
  /\ Store(n, policies[n].clusters, TRUE)
  /\ UNCHANGED <<crds, late, op, changes, faults>>

Change ==
  /\ changes < MaxChanges /\ changes' = changes + 1
  /\ UNCHANGED <<crds, late, op, faults>>

Move(n, placement) ==
  /\ n \in DOMAIN policies
  /\ policies[n].clusters # placement
  /\ Store(n, placement, policies[n].stamped)
  /\ Change

Delete(n) ==
  /\ n \in DOMAIN policies
  /\ policies' = Restrict(policies, DOMAIN policies \ {n})
  /\ UNCHANGED version
  /\ Change

-----------------------------------------------------------------------------
Work(o) == CheckNamespacePolicy(o) \/ GetCRD(o) \/ GetPolicy(o) \/ Write(o)

Next ==
  \/ \E o \in Operators : Work(o) \/ Fail(o)
  \/ \E o \in Operators, m \in Migrations : Begin(o, m)
  \/ \E r \in late : Land(r)
  \/ \E n \in Names : Stamp(n) \/ Delete(n)
  \/ \E n \in Names, placement \in UserChoice : Move(n, placement)

Spec == Init /\ [][Next]_vars

(***************************************************************************)
(* The leader goes on with its job, and its queue comes back to every      *)
(* migration (an error is retried, a success requeued after five minutes). *)
(* Nothing keeps another manager going, nor makes a late request land.     *)
(***************************************************************************)
Fairness ==
  /\ WF_vars(Work(Leader))
  /\ \A m \in Migrations : SF_vars(Begin(Leader, m))

FairSpec == Spec /\ Fairness

-----------------------------------------------------------------------------
\* The backups' policies only name clusters that have the CRD.
SentWhereInstalled ==
  \A n \in DOMAIN policies : n # NsPolicy => n[2] \in crds

JobPrepared(job) ==
  /\ job.pc \in {"getCRD", "postCRD"} =>
       Range(Sources[job.migration]) \subseteq crds \cup Range(job.todo)
  /\ job.pc \in {"get", "write"} /\ job.name # NsPolicy =>
       Range(job.todo) \subseteq crds

\* The placements a policy is written with.
PlacementsOf(n) ==
  IF n = NsPolicy THEN {Range(Sources[m]) : m \in Migrations} ELSE {{n[2]}}

RequestPrepared(r) ==
  r \in PolicyWrite =>
     /\ r.clusters \in PlacementsOf(r.name)
     /\ r.name # NsPolicy => r.name[2] \in crds

(***************************************************************************)
(* A policy that sends backups to a cluster is only ever there after the   *)
(* cluster got the CRD, although "not found" and "failed" look alike to    *)
(* EnsureCRD, and whichever manager or late request wrote the policy:      *)
(* jobs past the CRDs, and late writes, are about clusters that have it.   *)
(***************************************************************************)
Prepared ==
  /\ SentWhereInstalled
  /\ \A o \in Operators : JobPrepared(op[o])
  /\ \A r \in late : RequestPrepared(r)

\* The policy read under a name is the stored one, if the version is the same.
Held(n, read) ==
  read # Nil =>
     /\ read.version <= version[n]
     /\ n \in DOMAIN policies /\ policies[n].version = read.version
          => policies[n] = read

(***************************************************************************)
(* What a manager or a late request holds as the policy it read is what    *)
(* Karmada still stores, labels included, as long as the resourceVersion   *)
(* is the same: so an Update that is accepted overwrites nothing unseen.   *)
(***************************************************************************)
ReadsHold ==
  /\ \A n \in DOMAIN policies : policies[n].version = version[n]
  /\ \A o \in Operators : Held(op[o].name, op[o].read)
  /\ \A r \in late : r \in PolicyWrite => Held(r.name, r.read)

\* The policies without their versions.
Plane == INSTANCE KarmadaPlane WITH
  Placements <- [n \in Names |-> PlacementsOf(n)],
  Needs <- [n \in Names |-> IF n = NsPolicy THEN {} ELSE {n[2]}],
  Shared <- Names,
  policies <- [n \in DOMAIN policies |-> [clusters |-> policies[n].clusters,
                                          stamped |-> policies[n].stamped]]

(***************************************************************************)
(* The Gets and writes of all managers amount to atomic writes: each only  *)
(* changes a placement, takes no stamp away that Karmada has put there in  *)
(* between, and comes after the CRD it needs.  Users may move policies to  *)
(* any placement, so of the placements updates write this says little:     *)
(* that is Prepared, by which a request has a placement of PlacementsOf.   *)
(***************************************************************************)
WritesAreAtomic == Plane!Spec

(***************************************************************************)
(* Eventually every backup of every migration is sent to its cluster and   *)
(* to no other, and the namespace is propagated somewhere: users' changes, *)
(* refused writes and late ones are all repaired by a later job.           *)
(***************************************************************************)
AllSent ==
  <>[](\A m \in Migrations, c \in Clusters :
         c \in Range(Sources[m]) =>
            /\ NsPolicy \in DOMAIN policies
            /\ <<m, c>> \in DOMAIN policies
            /\ policies[<<m, c>>].clusters = {c})

=============================================================================
