SPECIFICATION FairSpec
CONSTANTS
  Operators = {"old", "new"}
  Leader = "new"
  Clusters = {"c1", "c2"}
  Migrations = {"db"}
  Sources <- BothClusters
  NsPolicy = NsPolicy
  Nil = Nil
  UserChoice = {{}}
  MaxChanges = 1
  MaxFaults = 1
INVARIANTS TypeOK Prepared ReadsHold
PROPERTIES WritesAreAtomic AllSent
CHECK_DEADLOCK FALSE
