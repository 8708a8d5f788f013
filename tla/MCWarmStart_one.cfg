SPECIFICATION FairSpec
CONSTANTS
  Callers = {c1}
  Modes = {"wall", "simulation"}
  Delay = 1
  Small = 1
  MaxArms = 2
  MaxSim = 3
  MaxIndex = 2
INVARIANTS WarmInv OriginAfterReset
PROPERTIES HaltEnds
CHECK_DEADLOCK FALSE
