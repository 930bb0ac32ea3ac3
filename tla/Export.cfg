SPECIFICATION FairSpec
CONSTANTS
  None = None
  Requesters = {u1}
  Builders = {b1, b2}
  MaxVersion = 2
  MaxRows = 1
  MaxAttempts = 2
  LockTicks = 1
CHECK_DEADLOCK FALSE
INVARIANTS ReadyHasItsFile OneFinalPerGeneration
PROPERTIES ReadyIsFinal ExportSettles EndedIsExported
