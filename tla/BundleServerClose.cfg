SPECIFICATION Spec
CONSTANTS
  Recursives = {TRUE}
  Duts <- OneDut
  Users = {"user"}
  Window = 1
  MaxEvents = 0
INVARIANT HarnessErrorReturned
CHECK_DEADLOCK FALSE
