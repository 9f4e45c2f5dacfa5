SPECIFICATION Spec
CONSTANTS
  Migrations <- OneMigration
  Pods <- OnePod
  Clusters <- TwoClusters
  Mgmt = Mgmt
  Nil = Nil
  Refs <- BothRefs
  Kind <- BothKind
  Selects <- BothSelects
  Schedules <- TwoSchedules
  Images <- OneImage
  Specs <- TargetSpecs
  InitSpec <- StartNarrow
  Places <- BothPlaces
  Refusable <- NoBackups
  KarmadaMounted = TRUE
  KarmadaServer = Karmada
  MaxUid = 2
  MaxEdits = 3
  MaxFaults = 1
INVARIANTS TypeOK CopiesLag NeverForgotten HeldWhileReconciling BackupDescribesItsPod PropagationPrepared BackupsAccounted
PROPERTIES FinalizerReleasedClean ImplementsPlane
CHECK_DEADLOCK FALSE
