SPECIFICATION Spec
CONSTANTS
  Recursives = {TRUE, FALSE}
  Duts <- OneDut
  Users = {"user"}
  Window = 1
  MaxEvents = 2
INVARIANTS
  AnswerMatches
  ReleasedOnReturn
  ReleasedInOrder
PROPERTIES
  Returns
CHECK_DEADLOCK FALSE
