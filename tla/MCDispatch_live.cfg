\* Two notifications in batches of one, two attempts and one run each; the
\* clock runs past the last lease and the last expiry.
CONSTANTS
  i1 = i1  i2 = i2  t1 = t1  p1 = p1  p2 = p2  k1 = k1  k2 = k2
  Id = {i1, i2}
  Target = {t1}
  Token = {k1, k2}
  NoToken = NoToken
  AttemptLimits = {2}
  Lease = 1
  Validity = 2
  Retention = 1
  CleanupLimit = 1
  RetryBase = 1
  RetryMax = 1
  RetryMin = 1
  MaxSeconds = 5
  Proc = {p1}
  Workers = 1
  MaxConcurrency = 1
  Outcomes <- MCFewOutcomes
  InsertDelay = 0
  ClockSkew = 0
  ReplayValidity = 0
  LastRequest = 1
  MaxTime = 5
  MaxRuns = 1
SPECIFICATION FairSpec
CHECK_DEADLOCK FALSE
PROPERTIES
  EventuallyStops
