SPECIFICATION Spec
CONSTANTS
    t1 = t1
    t2 = t2
    t3 = t3
    AllTests = {t1, t2, t3}
    Fixture = Fixture
    retryn = 1
    threshold = 3
INVARIANTS
  ResultsComplete
  StartedHaveResults
PROPERTIES
  NoStartAfterLimit
  Terminates
CHECK_DEADLOCK FALSE
