-------------------------- MODULE MCMigrationBackup -------------------------
(***************************************************************************)
(* Small instances of MigrationBackup for TLC: names, workloads and specs  *)
(* the configurations choose from.                                         *)
(***************************************************************************)
EXTENDS MigrationBackupProperties

\* Names, cut at their dashes.
db  == <<"db">>
web == <<"web">>
pg0 == <<"pg", "0">>
pg1 == <<"pg", "1">>
c1  == <<"c1">>
c2  == <<"c2">>

Spec1(ref, clusters, schedule) ==
  [ref |-> ref, clusters |-> clusters, schedule |-> schedule]

OneMigration  == {db}
TwoMigrations == {db, web}
OnePod        == {pg0}
TwoPods       == {pg0, pg1}
OneCluster    == {c1}
TwoClusters   == {c1, c2}

OneImage  == {"v1"}
TwoImages == {"v1", "v2"}
OneSchedule == {"hourly"}
TwoSchedules == {"hourly", "daily"}

\* Backups that may be refused: none, those of the only migration, or those
\* of one of two.
NoBackups  == {}
AnyBackup  == BackupNames
WebBackups == {BackupName(web, p, c) : p \in Pods, c \in Clusters}

\* A StatefulSet whose selector matches every pod.
SetRefs      == {"set"}
SetKind      == [r \in SetRefs |-> "statefulset"]
SetSelects   == [r \in SetRefs |-> Pods]
SetPlaces    == {Mgmt} \X Pods
SetNarrow    == Spec1("set", <<c1>>, "hourly")
SetWide      == Spec1("set", <<c1, c2>>, "hourly")
FixedSpecs   == {SetNarrow}
ClusterSpecs == {SetNarrow, SetWide}
StartNarrow  == [m \in Migrations |-> SetNarrow]

\* A StatefulSet and a Deployment whose selectors match the same pods.
BothRefs     == {"set", "dep"}
BothKind     == [r \in BothRefs |-> IF r = "set" THEN "statefulset" ELSE "deployment"]
BothSelects  == [r \in BothRefs |-> Pods]
BothPlaces   == SetPlaces
DepWide      == Spec1("dep", <<c2, c1>>, "daily")
TargetSpecs  == {SetNarrow, DepWide}
StartWide    == [m \in Migrations |-> SetWide]

\* Two migrations whose backups have the same name: "app" with the pod
\* "db-pg-0" and "app-db" with the pod "pg-0".
app     == <<"app">>
appdb   == <<"app", "db">>
dbpg0   == <<"db", "pg", "0">>
ClashMigrations == {app, appdb}
ClashPods       == {dbpg0, pg0}
ClashRefs       == BothRefs
ClashKind       == BothKind
ClashSelects    == [r \in ClashRefs |-> IF r = "set" THEN {dbpg0} ELSE {pg0}]
ClashPlaces     == SetPlaces
ClashSpecs      == {SetNarrow, Spec1("dep", <<c1>>, "hourly")}
StartClash      == (app :> SetNarrow) @@ (appdb :> Spec1("dep", <<c1>>, "hourly"))

\* A single pod, by kind Pod, which may run on each member cluster with an
\* image of its own; and an object of a kind the controller does not support.
PodRefs     == {"pod", "job"}
PodKind     == [r \in PodRefs |-> IF r = "pod" THEN "pod" ELSE "other"]
PodSelects  == [r \in PodRefs |-> IF r = "pod" THEN Pods ELSE {}]
PodPlaces   == Clusters \X Pods
PodTwice    == Spec1("pod", <<c1, c2>>, "hourly")
PodTurned   == Spec1("pod", <<c2, c1>>, "hourly")
JobSpec     == Spec1("job", <<c1>>, "hourly")
JobSpecs    == {JobSpec}
StartJob    == [m \in Migrations |-> JobSpec]
PodSpecs    == {PodTwice, PodTurned, JobSpec}
StartTwice  == [m \in Migrations |-> PodTwice]

=============================================================================
