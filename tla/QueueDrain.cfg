SPECIFICATION Spec
CONSTANTS
  None = None
  Workers = {w1}
  Creds = {c1}
  OneJob = TRUE
  NumItems = 1
  Jobs <- MCJobs
  Items <- MCItems
  JobOf <- MCJobOf
  Outcomes = {"found"}
  MaxRetries = 1
  LeaseTicks = 1
  BackoffTicks = 0
  MaxParallel = 1
  MaxWorkers = 1
  BatchSize = 1
  MaxClaims = 2
  MaxVersion = 1
SYMMETRY Symmetry
CHECK_DEADLOCK FALSE
PROPERTIES DrainStopsClaims
