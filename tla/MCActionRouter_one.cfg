SPECIFICATION FairSpec
CONSTANTS
  Producers <- MCProducers
  Operators = {o1}
  Depth = 2
  CtlDepth = 1
  MaxGen = 2
INVARIANTS PutNeverRaises LateSendsOnce
PROPERTIES ControlLeaves LeavesSelected IsPort
CHECK_DEADLOCK FALSE
