\* A project without a cycle that is reported as circular.
CONSTANTS
  Pkgs = {a, b}
  Root = main
SPECIFICATION Spec
INVARIANT CircularIsCyclic
CHECK_DEADLOCK FALSE
