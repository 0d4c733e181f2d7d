SPECIFICATION FairSpec
CONSTANTS
  first = first
  second = second
  agent = agent
  nobody = nobody
  Job = {first, second}
  Owner = {agent}
  Caller = {c1, c2}
  Nobody = nobody
  OwnerOf <- MCOwnerOf
  Outcomes = {"completed"}
  Limit = 2
  MaxReloads = 1
INVARIANTS TypeOK CompletionIsHeard
PROPERTIES SettlementIsFinal TeardownEnds
CHECK_DEADLOCK FALSE
