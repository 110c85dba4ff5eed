\* Programs that do anything the compiler accepts: one local, one parameter.
CONSTANTS
  Lits = {"long"}
  Chars = {"c"}
  Blocks = {b1, b2}
  Size <- MCSize
  Nil = Nil
  Uninit = Uninit
  NoVar = NoVar
  Locals = {v}
  Params = {p}
  ArgLit = "long"
  NewCaps = {0, 1}
  Indices = {0, 40, 72}
  Habits <- AllHabits
  MaxDepth = 2
  MaxChunks = 2
SPECIFICATION Spec
CONSTRAINT ChangeOrLocal
SYMMETRY Symmetry
INVARIANTS StaysInBlock CountIsExact LiteralsIntact ExitTellsLeak
CHECK_DEADLOCK FALSE
