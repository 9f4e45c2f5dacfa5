SPECIFICATION FairSpec
CONSTANTS
  Migrations <- OneMigration
  Pods <- OnePod
  Clusters <- TwoClusters
  Mgmt = Mgmt
  Nil = Nil
  Refs <- PodRefs
  Kind <- PodKind
  Selects <- PodSelects
  Schedules <- OneSchedule
  Images <- OneImage
  Specs <- PodSpecs
  InitSpec <- StartTwice
  Places <- PodPlaces
  Refusable <- NoBackups
  KarmadaMounted = TRUE
  KarmadaServer = Mgmt
  MaxUid = 2
  MaxEdits = 2
  MaxFaults = 1
INVARIANTS BackupDescribesItsPod CleanExit
PROPERTIES FinalizerReleasedClean BackupsComplete
CHECK_DEADLOCK FALSE
