\* The candidates of a scan beside the rows of a removed target.
CONSTANTS
  c1 = c1  r1 = r1  c2 = c2
  Configured = {c1}
  Removed = {r1}
  MaxConcurrency <- MCOneEach
  Workers = 1
  MaxDue = 2
  MaxHandlers = 1
SPECIFICATION Spec
CHECK_DEADLOCK FALSE
PROPERTIES
  CandidatesUsable
