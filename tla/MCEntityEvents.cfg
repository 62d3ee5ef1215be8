SPECIFICATION Spec
CONSTANTS
    t1 = t1
    t2 = t2
    Tests = {t1, t2}
    LocalFixture = LocalFixture
    RemoteFixture = RemoteFixture
    None = None
    maxAttempts = 1
    MaxRuns = 3
    MaxStarts = 4
    MaxStream = 2
    MaxCrashes = 1
SYMMETRY TestSymmetry
INVARIANTS
  OutDirsDistinct
  OneRecordPerStart
  RunningAreTracked
  CopyEndMatches
  AllMoved
CHECK_DEADLOCK FALSE
