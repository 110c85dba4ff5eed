\* Functions of at most four statements that keep the rules.
CONSTANTS
  Kinds = {"int", "str"}
  Codes = {101}
  Items = 2
  Objs = {1, 2, 3, 4, 5}
  MaxStmts = 4
  MaxNest = 4
  Habits = {}
SPECIFICATION Spec
INVARIANTS
  TypeOK
  NoStackFault
  MarksAreConsumed
  LeavesWithError
  AllFreed
  ReturnReturns
PROPERTY ForLoopsEnd
CHECK_DEADLOCK FALSE
