\* One process, two targets, one of them with two slots.
CONSTANTS
  c1 = c1  r1 = r1  c2 = c2
  Configured = {c1, c2}
  Removed = {}
  MaxConcurrency <- MCTwoAndOne
  Workers = 2
  MaxDue = 3
  MaxHandlers = 1
SPECIFICATION FairSpec
CHECK_DEADLOCK FALSE
INVARIANTS
  TypeOK
  SlotsAccounted
  SlotForEveryClaim
  CleanExit
PROPERTIES
  ScanEnds
  
