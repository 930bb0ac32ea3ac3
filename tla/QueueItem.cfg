SPECIFICATION Spec
CONSTANTS
  None = None
  Workers = {w1, w2}
  Creds = {c1, c2}
  OneJob = TRUE
  NumItems = 1
  Jobs <- MCJobs
  Items <- MCItems
  JobOf <- MCJobOf
  Outcomes = {"found", "permanent_error", "retryable_error", "credential_error"}
  MaxRetries = 2
  LeaseTicks = 2
  BackoffTicks = 1
  MaxParallel = 2
  MaxWorkers = 1
  BatchSize = 1
  MaxClaims = 3
  MaxVersion = 2
CHECK_DEADLOCK FALSE
SYMMETRY Symmetry
INVARIANTS TypeOK PublishedResultMatchesItem HistoryExplainsBudget SessionKeepsItems LeaseLimits
PROPERTIES ClosedRecordsStay
