SPECIFICATION Spec
CONSTANTS
  None = None
  Legacy = Legacy
  Self = Self
  Builds <- MCBuilds
  Revision <- MCRevision
  Service <- MCService
  Ships <- MCShips
  LegacyUnits = {"backend", "telegram"}
  Keep = 2
  MaxCommands = 4
  MaxUpsets = 2
CHECK_DEADLOCK FALSE
INVARIANTS CommandsKeepTheirWord NothingLeftBehind
