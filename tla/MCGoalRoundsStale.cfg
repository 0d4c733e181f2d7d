SPECIFICATION Spec
CONSTANTS
  MaxRounds = 2
  MaxCommands = 2
  MaxHumans = 0
  MaxJobs = 0
  Window = "awaits"
PROPERTY RoundsAreExact
CHECK_DEADLOCK FALSE
