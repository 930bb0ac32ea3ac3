SPECIFICATION Spec
CONSTANTS
  None = None
  Cpfs = {a, b}
  Regs = {r1, r2}
  Platforms = {"rf1", "consiglog", "facil", "safeconsig"}
  MaxTurns = 6
SYMMETRY Symmetry
CHECK_DEADLOCK FALSE
INVARIANTS FoundIsTheirs NotFoundIsTrue
