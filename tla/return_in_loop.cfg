\* A return inside "loop".
CONSTANTS
  Kinds = {"int"}
  Codes = {101}
  Items = 1
  Objs = {1, 2, 3}
  MaxStmts = 3
  MaxNest = 3
  Habits = {"returnInLoop"}
SPECIFICATION Spec
INVARIANT ReturnReturns
CHECK_DEADLOCK FALSE
