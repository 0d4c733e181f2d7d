SPECIFICATION FairSpec
CONSTANTS
  N = 4
  MaxParallel = 2
CHECK_DEADLOCK FALSE
INVARIANTS TypeOK EventsAreTied LogIsOrdered EndsClean PoolIsSound
PROPERTIES Settles
