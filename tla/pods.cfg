SPECIFICATION FairSpec
CONSTANTS
  Migrations <- OneMigration
  Pods <- TwoPods
  Clusters <- OneCluster
  Mgmt = Mgmt
  Nil = Nil
  Refs <- SetRefs
  Kind <- SetKind
  Selects <- SetSelects
  Schedules <- OneSchedule
  Images <- OneImage
  Specs <- FixedSpecs
  InitSpec <- StartNarrow
  Places <- SetPlaces
  Refusable <- NoBackups
  KarmadaMounted = TRUE
  KarmadaServer = Karmada
  MaxUid = 2
  MaxEdits = 2
  MaxFaults = 1
PROPERTIES BackupsComplete OrphansPruned
CHECK_DEADLOCK FALSE
