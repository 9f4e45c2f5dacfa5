SPECIFICATION Spec
CONSTANTS
  Migrations <- ClashMigrations
  Pods <- ClashPods
  Clusters <- OneCluster
  Mgmt = Mgmt
  Nil = Nil
  Refs <- ClashRefs
  Kind <- ClashKind
  Selects <- ClashSelects
  Schedules <- OneSchedule
  Images <- OneImage
  Specs <- ClashSpecs
  InitSpec <- StartClash
  Places <- ClashPlaces
  Refusable <- NoBackups
  KarmadaMounted = TRUE
  KarmadaServer = Mgmt
  MaxUid = 2
  MaxEdits = 0
  MaxFaults = 0
INVARIANT BackupDescribesItsPod
CHECK_DEADLOCK FALSE
