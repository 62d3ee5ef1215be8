SPECIFICATION Spec
CONSTANTS
  Root = Root
  A = A
  B = B
  C = C
  Fixtures = {Root, A, B, C}
  Errs = {e1}
  t1 = t1
  t2 = t2
  t3 = t3
  t4 = t4
  t5 = t5
  x1 = x1
  x2 = x2
  s1 = s1
  o1 = o1
  p1 = p1
  p2 = p2
  p3 = p3
  TreeTests <- MCTreeTests
  TreeExternal <- MCTreeExternal
  TreeChildren <- MCTreeChildren
  Skips <- MCSkips
  Orphans <- MCOrphans
  PrePlans <- MCPrePlans
INVARIANTS
  NoBug
PROPERTIES
  NoStaleFixture
  AllSettled
  ImplementsSchedule
CHECK_DEADLOCK FALSE
