SPECIFICATION Spec
CONSTANTS
  MaxEvents = 3
  MaxCrashes = 0
  MaxFailures = 1
  RollbackFates = {"undone", "kept"}
INVARIANTS AppendIsDurable
CHECK_DEADLOCK FALSE
