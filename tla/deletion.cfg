SPECIFICATION FairSpec
CONSTANTS
  Migrations <- OneMigration
  Pods <- OnePod
  Clusters <- OneCluster
  Mgmt = Mgmt
  Nil = Nil
  Refs <- SetRefs
  Kind <- SetKind
  Selects <- SetSelects
  Schedules <- OneSchedule
  Images <- TwoImages
  Specs <- FixedSpecs
  InitSpec <- StartNarrow
  Places <- SetPlaces
  Refusable <- AnyBackup
  KarmadaMounted = TRUE
  KarmadaServer = Mgmt
  MaxUid = 2
  MaxEdits = 3
  MaxFaults = 1
PROPERTIES DeletionCompletes BackupsCollected BackupsComplete ImplementsLifecycle
CHECK_DEADLOCK FALSE
