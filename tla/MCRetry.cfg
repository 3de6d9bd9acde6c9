\* Every environment, and the documented rules for every input.
CONSTANTS
  Unset = Unset
  Garbled = Garbled
  Default <- MCDefault
  MaxSeconds = 30
  Environments <- MCEnvironments
  Counts <- MCCounts
  Limits <- MCLimits
  Expiries <- MCExpiries
  Headers <- MCHeaders
  Clock <- MCClock
SPECIFICATION Spec
CHECK_DEADLOCK FALSE
INVARIANTS
  AsWritten
  AssumptionsMet
  BackoffMatchesDesign
  RetrySpaced
  RetryInWindow
  ExpiredOnlyWhenLate
