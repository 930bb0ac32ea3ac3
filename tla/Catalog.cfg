SPECIFICATION Spec
CONSTANTS
  None = None
  Handlers = {h1, h2}
  Rows <- MCRows
  Specific = {"efetivos"}
  MaxBases = 3
  MaxNonce = 2
CHECK_DEADLOCK FALSE
SYMMETRY Symmetry
INVARIANTS IdentitiesFollowRule GeneralHoldsAll BaseHasItsFile
