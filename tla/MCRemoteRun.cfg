SPECIFICATION Spec
CONSTANTS
    R1 = R1
    R2 = R2
    S = S
    L = L
    e = e
    t1 = t1
    t2 = t2
    Fixtures = {R1, R2, S, L}
    Errs = {e}
    RemoteFixtures <- MCRemoteFixtures
    StartFixture = S
    LocalFixture = L
    Tests = {t1, t2}
    retryn = 1
    MaxCrashes = 2
INVARIANTS
  NoTestOnBrokenStack
  ResetBetweenTests
  PreTestsPaired
PROPERTIES
  AllSettled
CHECK_DEADLOCK FALSE
