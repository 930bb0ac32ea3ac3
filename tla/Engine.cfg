SPECIFICATION FairEngineSpec
CONSTANTS
  None = None
  Workers = {w1, w2}
  Creds = {c1}
  Jobs = {1}
  NumItems = 1
  Items <- MCItems
  JobOf <- MCJobOf
  Outcomes = {"found", "retryable_error", "credential_error", "portal_unavailable"}
  MaxRetries = 1
  LeaseTicks = 2
  BackoffTicks = 0
  MaxParallel = 1
  MaxWorkers = 1
  BatchSize = 1
  MaxClaims = 3
  MaxVersion = 1
  AckTries = 2
  MaxUpsets = 2
CHECK_DEADLOCK FALSE
INVARIANTS SessionIsItsWorkers FinalAnswerIsAccepted
PROPERTIES DrainEnds JobEnds
