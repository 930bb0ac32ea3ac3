SPECIFICATION FairSpec
CONSTANTS
  None = None
  Consumers = {k1, k2}
  NumEndpoints = 1
  MaxVersion = 2
  MaxAttempts = 2
  LockTicks = 1
  BackoffTicks = 1
  MaxResets = 2
CHECK_DEADLOCK FALSE
INVARIANTS EventTellsTheEnd
PROPERTIES SettledStays EventSettles FinishedIsAnnounced
