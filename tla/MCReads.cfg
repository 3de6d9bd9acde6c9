\* Pages of one row, so that every walk takes several statements.
CONSTANTS
  Id = {1, 2, 3}
  Caller = {"c", "d"}
  Owner <- MCOwner
  Target = {"s", "t"}
  TargetOf <- MCTargetOf
  Filter <- MCFilter
  Limit = 1
  MaxOffset = 3
  MaxRuns = 1
  MaxAttempts = 2
  Reasons = {"", "EXPIRED"}
SPECIFICATION Spec
CHECK_DEADLOCK FALSE
INVARIANTS
  PagesDrift
  AttemptsOfOwnRow
  MetricsDrift
