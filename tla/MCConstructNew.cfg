CONSTANTS
  Roots = {"context"}
  HasParser = FALSE
SPECIFICATION ConstructSpec
INVARIANTS
  NewReturns
CHECK_DEADLOCK FALSE
