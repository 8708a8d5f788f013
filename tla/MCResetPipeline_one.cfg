SPECIFICATION FairSpec
CONSTANTS
  MaxResets = 1
  MaxOthers = 1
  MaxLosses = 1
INVARIANTS PipelineInv FrameOutlivesNoReset
PROPERTIES ResetSettles
CHECK_DEADLOCK FALSE
