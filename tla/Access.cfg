SPECIFICATION FairSpec
CONSTANTS
  None = None
  Accesses = {c1}
  Workers = {w1, w2}
  Secrets = {p1, p2}
  MaxWorkers = 1
  LoginLimit = 3
  Window = 20
  LeaseTicks = 2
  TimeoutTicks = 3
  RetestTicks = 3
  CooldownTicks = 2
CHECK_DEADLOCK FALSE
INVARIANTS TestOwnsItsLease LiveSessionUsesCurrentPassword DisabledIsUnused BlockedUntilFixed
PROPERTIES CancelWins CheckEnds
