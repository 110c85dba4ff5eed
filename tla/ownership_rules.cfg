\* Programs that keep the rules: two locals, one parameter.
CONSTANTS
  Lits = {"long"}
  Chars = {"c"}
  Blocks = {b1, b2, b3}
  Size <- MCSize
  Nil = Nil
  Uninit = Uninit
  NoVar = NoVar
  Locals = {v, w}
  Params = {p}
  ArgLit = "long"
  NewCaps = {2}
  Indices = {0, 40}
  Habits = {}
  MaxDepth = 2
  MaxChunks = 2
SPECIFICATION Spec
SYMMETRY Symmetry
INVARIANTS
  TypeOK
  NoFault
  OneOwner
  CallerIntact
  ZeroTerminated
  ExitClean
PROPERTY StringsAreValues
CHECK_DEADLOCK FALSE
