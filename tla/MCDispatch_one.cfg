\* One notification, two processes: everything that can happen to it.
CONSTANTS
  i1 = i1  i2 = i2  t1 = t1  p1 = p1  p2 = p2  k1 = k1  k2 = k2
  Id = {i1}
  Target = {t1}
  Token = {k1, k2}
  NoToken = NoToken
  AttemptLimits = {2}
  Lease = 2
  Validity = 4
  Retention = 1
  CleanupLimit = 1
  RetryBase = 1
  RetryMax = 1
  RetryMin = 1
  MaxSeconds = 5
  Proc = {p1, p2}
  Workers = 1
  MaxConcurrency = 1
  Outcomes <- MCOutcomes
  InsertDelay = 1
  ClockSkew = 1
  ReplayValidity = 2
  LastRequest = 4
  MaxTime = 5
  MaxRuns = 2
SPECIFICATION Spec
SYMMETRY MCSymmetry
CHECK_DEADLOCK FALSE
INVARIANTS
  TypeOK
  LeaseMatchesAttempt
  SnapshotFresh
  LeaseKeptToItsEnd
  BudgetKept
  VendorTruth
  ResentOnlyIfOpen
  StopReasonTrue
  ReplayAuthorised
PROPERTIES
  FinishedAttemptsKept
  RetryAfterRespected
  FollowsLifecycle
