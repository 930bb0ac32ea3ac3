SPECIFICATION SchedulesSpec
CONSTANTS
  None = None
  Handlers = {h1, h2}
  Schedulers = {r1, r2}
  Rows <- MCRows
  Specific = {}
  MaxBases = 2
  MaxNonce = 1
  NumSchedules = 1
  Keys = {k1}
  MaxTime = 2
  Grace = 0
  Lag = 1
  MaxAsks = 3
CHECK_DEADLOCK FALSE
INVARIANTS EnabledHasBase
PROPERTIES KeepsPromise DueIsDecided
