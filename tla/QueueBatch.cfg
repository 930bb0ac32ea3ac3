SPECIFICATION Spec
CONSTANTS
  None = None
  Workers = {w1,w2}
  Creds = {c1,c2}
  OneJob = TRUE
  NumItems = 2
  Jobs <- MCJobs
  Items <- MCItems
  JobOf <- MCJobOf
  Outcomes = {"found", "permanent_error", "retryable_error"}
  MaxRetries = 2
  LeaseTicks = 1
  BackoffTicks = 0
  MaxParallel = 2
  MaxWorkers = 2
  BatchSize = 2
  MaxClaims = 2
  MaxVersion = 2
SYMMETRY Symmetry
CHECK_DEADLOCK FALSE
INVARIANTS JobAgreesWithItems QuietWhenStopped
PROPERTIES DrainWaitsForLogout
