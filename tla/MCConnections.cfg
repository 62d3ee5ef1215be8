SPECIFICATION Spec
CONSTANTS
  Cancelers = {"execute", "run"}
  newDeadline = TRUE
  Conns = {1, 2}
  Sessions = {11}
  Retries = 1
  MaxPolls = 1
  MaxOps = 2
INVARIANTS
  ClosedOnce
  OnlyCachedConn
PROPERTIES
  CancelAlwaysReturns
  CanceledCallReturns
  AllClosed
CHECK_DEADLOCK FALSE
