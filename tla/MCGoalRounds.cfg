SPECIFICATION FairSpec
CONSTANTS
  MaxRounds = 2
  MaxCommands = 2
  MaxHumans = 2
  MaxJobs = 1
  Window = "sync"
INVARIANTS TypeOK
PROPERTIES RoundsAreExact CancelStopsRounds GoalNeverStalls
CHECK_DEADLOCK FALSE
