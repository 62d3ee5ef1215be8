SPECIFICATION Spec
PROPERTIES
  Returns
  ImplementsOutcome
CHECK_DEADLOCK FALSE
