SPECIFICATION Spec
CONSTANTS
  RootFixture = "root"
  RemoteFixtures = {"remote"}
  LocalFixtures = {"localA", "localB"}
  Missing = "missing"
  N = 2
  MaxShards = 2
  MaxList = 4
  Hash <- SomeHash
INVARIANTS
  ShardsPartition
  EveryTestOnce
  RunsOnItsFixtures
  OrphansMissAFixture
CHECK_DEADLOCK FALSE
