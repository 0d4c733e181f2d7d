SPECIFICATION FairSpec
CONSTANTS
  MaxEvents = 3
  MaxCrashes = 2
  MaxFailures = 2
  RollbackFates = {"undone"}
CHECK_DEADLOCK FALSE
INVARIANTS WellFormed
PROPERTIES ImplementsStoredSession Recovers
