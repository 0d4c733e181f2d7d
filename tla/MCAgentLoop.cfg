SPECIFICATION FairSpec
CONSTANTS
  Message = {m1, m2}
  MaxSteps = 2
INVARIANTS TypeOK GrammarHolds MessagesAreKept WakesAreKept
PROPERTIES Quiesces
