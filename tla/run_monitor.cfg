CONSTANTS
  N = 3
  Lines <- MCLines
  PipeSize = 1
  BufferSize = 2
SPECIFICATION Spec
INVARIANTS TypeOK MonitorServes LossIsBounded
PROPERTIES MainEnds
CHECK_DEADLOCK FALSE
