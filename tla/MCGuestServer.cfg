SPECIFICATION Spec
CONSTANTS
  Session = {s1, s2}
  Chat = {r1, r2}
  Reader = {h1}
  MaxSessions = 1
  CacheMax = 1
SYMMETRY Symmetry
CHECK_DEADLOCK FALSE
INVARIANTS TypeOK MarkersHold LoneChats OwnedIsLive
