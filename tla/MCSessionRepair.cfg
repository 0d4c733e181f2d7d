SPECIFICATION RepairSpec
CONSTANTS
  Call = {c1, c2}
  MaxTurns = 2
  MaxSteps = 2
  MaxEvents = 12
  MaxCrashes = 2
SYMMETRY Symmetry
CHECK_DEADLOCK FALSE
INVARIANTS RepairCompletes CallsAreAnswered
