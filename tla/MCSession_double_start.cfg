SPECIFICATION FairSpec
CONSTANTS
  Callers = {c1}
  MaxGen = 1
  PromptFail = TRUE
PROPERTIES StartReturns
CHECK_DEADLOCK FALSE
