SPECIFICATION FairSpec
CONSTANTS
  a = a
  b = b
  resumer = resumer
  reader = reader
  third = third
  Id = {a, b}
  Client = {resumer, reader, third}
  Asks <- MCAsks
  Shared = {a}
  Capacity = 1
  MaxCalls = 1
  MaxLength = 2
  MaxFailures = 1
INVARIANTS TypeOK ReservationHolds ReadsNeverGoBack
PROPERTIES PoolIsSound Settles
CHECK_DEADLOCK FALSE
