SPECIFICATION Spec
CONSTANTS
  Servers = {"s1", "s2"}
  RangeServers = {"s1"}
  Score <- SomeScore
  StageRetries = 1
  Size = 2
  Data <- SomeData
  Tests = {"test1", "test2"}
  LinkSets <- SomeLinks
  Builds = {"R1", "R2", ""}
  Modes = {"BATCH", "LAZY"}
  Parallelism = 1
  MaxStarts = 2
  MaxEntities = 2
  MaxFaults = 1
INVARIANTS
  UsedIsCurrent
  MissingIsExplained
PROPERTIES
  DownloadsReturn
CHECK_DEADLOCK FALSE
