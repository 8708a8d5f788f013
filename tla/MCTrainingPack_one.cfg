SPECIFICATION FairPackSpec
CONSTANTS
  Split <- MCSplit
  Frames <- MCFrames
  Anchored = {1, 2}
  MaxCode = 2
  MaxStarts = 3
INVARIANTS PackInv EndsWell
PROPERTIES CommandsEnd
CHECK_DEADLOCK FALSE
