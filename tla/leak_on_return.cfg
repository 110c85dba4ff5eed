\* A function that returns an expression its variable is only part of.
CONSTANTS
  Lits = {"long"}
  Chars = {"c"}
  Blocks = {b1, b2, b3}
  Size <- MCSize
  Nil = Nil
  Uninit = Uninit
  NoVar = NoVar
  Locals = {v}
  Params = {p}
  ArgLit = "long"
  NewCaps = {2}
  Indices = {0, 40}
  Habits = {"returnUse"}
  MaxDepth = 2
  MaxChunks = 2
SPECIFICATION Spec
INVARIANT LocalsFreed
CHECK_DEADLOCK FALSE
