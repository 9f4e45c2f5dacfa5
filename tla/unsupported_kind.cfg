SPECIFICATION FairSpec
CONSTANTS
  Migrations <- OneMigration
  Pods <- OnePod
  Clusters <- OneCluster
  Mgmt = Mgmt
  Nil = Nil
  Refs <- PodRefs
  Kind <- PodKind
  Selects <- PodSelects
  Schedules <- OneSchedule
  Images <- OneImage
  Specs <- JobSpecs
  InitSpec <- StartJob
  Places <- PodPlaces
  Refusable <- NoBackups
  KarmadaMounted = TRUE
  KarmadaServer = Mgmt
  MaxUid = 2
  MaxEdits = 1
  MaxFaults = 0
PROPERTY EveryDeletionCompletes
CHECK_DEADLOCK FALSE
