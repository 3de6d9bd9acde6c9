\* Two processes start together, two failures; served processes stay.
CONSTANTS
  p1 = p1  p2 = p2
  Proc = {p1, p2}
  Files = 2
  Statements <- MCStatements
  MaxFailures = 2
SPECIFICATION Spec
CHECK_DEADLOCK FALSE
INVARIANTS
  TypeOK
  RecordedInForce
PROPERTIES
  EveryoneServes
