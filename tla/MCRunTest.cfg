SPECIFICATION Spec
CONSTANTS
    Depth = 3
    NumTests = 2
INVARIANTS
  NoSilentPass
  HooksUndone
  ClosedOnce
CHECK_DEADLOCK FALSE
