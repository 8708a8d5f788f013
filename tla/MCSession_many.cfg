SPECIFICATION FairSpec
CONSTANTS
  Callers = {c1, c2}
  MaxGen = 1
  PromptFail = FALSE
INVARIANTS SupersededSendsOnce
PROPERTIES CallsReturn
CHECK_DEADLOCK FALSE
