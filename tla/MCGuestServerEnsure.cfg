SPECIFICATION Spec
CONSTANTS
  Session = {s1}
  Chat = {r1, r2}
  Reader = {}
  MaxSessions = 1
  CacheMax = 1
CHECK_DEADLOCK FALSE
INVARIANTS
  EnsuredIsLive
