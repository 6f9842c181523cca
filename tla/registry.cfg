SPECIFICATION Spec
CONSTANTS
  Modules <- TwoModules
INVARIANTS
  ClosedIsFreed
CHECK_DEADLOCK FALSE
