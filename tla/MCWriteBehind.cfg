SPECIFICATION FairSpec
CONSTANTS
  Event = {e1, e2, e3, e4}
  MaxEvents = 4
  MaxCallers = 2
INVARIANTS TypeOK OneActiveWrite NothingLost FlushIsDurable NoOrphanTimer
PROPERTIES Progress ImplementsDurableLog
