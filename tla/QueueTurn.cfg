SPECIFICATION Spec
CONSTANTS
  None = None
  Workers = {w1,w2}
  Creds = {c1,c2}
  OneJob = FALSE
  NumItems = 2
  Jobs <- MCJobs
  Items <- MCItems
  JobOf <- MCJobOf
  Outcomes = {"found"}
  MaxRetries = 1
  LeaseTicks = 1
  BackoffTicks = 0
  MaxParallel = 1
  MaxWorkers = 2
  BatchSize = 1
  MaxClaims = 2
  MaxVersion = 1
SYMMETRY Symmetry
CHECK_DEADLOCK FALSE
INVARIANTS SomeActiveJobHasTheTurn
