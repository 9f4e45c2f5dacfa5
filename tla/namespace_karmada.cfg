SPECIFICATION FairSpec
CONSTANTS
  Migrations <- OneMigration
  Pods <- OnePod
  Clusters <- OneCluster
  Mgmt = Mgmt
  Nil = Nil
  Refs <- SetRefs
  Kind <- SetKind
  Selects <- SetSelects
  Schedules <- OneSchedule
  Images <- OneImage
  Specs <- FixedSpecs
  InitSpec <- StartNarrow
  Places <- SetPlaces
  Refusable <- NoBackups
  KarmadaMounted = TRUE
  KarmadaServer = Karmada
  MaxUid = 2
  MaxEdits = 1
  MaxFaults = 0
PROPERTY NamespaceOnKarmada
CHECK_DEADLOCK FALSE
