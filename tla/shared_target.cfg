SPECIFICATION FairSpec
CONSTANTS
  Migrations <- TwoMigrations
  Pods <- OnePod
  Clusters <- OneCluster
  Mgmt = Mgmt
  Nil = Nil
  Refs <- SetRefs
  Kind <- SetKind
  Selects <- SetSelects
  Schedules <- OneSchedule
  Images <- OneImage
  Specs <- FixedSpecs
  InitSpec <- StartNarrow
  Places <- SetPlaces
  Refusable <- WebBackups
  KarmadaMounted = TRUE
  KarmadaServer = Mgmt
  MaxUid = 2
  MaxEdits = 1
  MaxFaults = 1
INVARIANTS LabelHasHolder
PROPERTIES WorkerDeletesOwn BackupsComplete
CHECK_DEADLOCK FALSE
