\* Every project of three packages.
CONSTANTS
  Pkgs = {a, b, c}
  Root = main
SPECIFICATION Spec
INVARIANTS
  TypeOK
  LevelsIncrease
  CollectsNeeded
  AcceptedIsAcyclic
  GradedIsAccepted
PROPERTY Terminates
CHECK_DEADLOCK FALSE
