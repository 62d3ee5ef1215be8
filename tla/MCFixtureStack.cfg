CONSTANTS
    Fixtures = {f1, f2}
    Errs = {e1}
    MaxDepth = 4
SPECIFICATION Spec
INVARIANTS
  StackShape
PROPERTIES
  StatusDiagram
