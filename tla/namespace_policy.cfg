SPECIFICATION FairSpec
CONSTANTS
  Migrations <- OneMigration
  Pods <- OnePod
  Clusters <- TwoClusters
  Mgmt = Mgmt
  Nil = Nil
  Refs <- SetRefs
  Kind <- SetKind
  Selects <- SetSelects
  Schedules <- OneSchedule
  Images <- OneImage
  Specs <- ClusterSpecs
  InitSpec <- StartNarrow
  Places <- SetPlaces
  Refusable <- NoBackups
  KarmadaMounted = TRUE
  KarmadaServer = Mgmt
  MaxUid = 2
  MaxEdits = 1
  MaxFaults = 0
PROPERTY NamespacePropagated
CHECK_DEADLOCK FALSE
