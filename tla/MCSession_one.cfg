SPECIFICATION FairSpec
CONSTANTS
  Callers = {c1}
  MaxGen = 2
  PromptFail = TRUE
INVARIANTS SilentUnlessRunning RunningHasLoop
PROPERTIES ErrorNeedsReset StoppedStaysSilent ReportsCurrentLoop StartResolves SupersededEnds
CHECK_DEADLOCK FALSE
