SPECIFICATION FairSpec
CONSTANTS
  Hands = {"left"}
  Targets = {"hang", "reach"}
  Ttl = 1
  HasSupport = TRUE
  ArmTicks = 1
  MaxSupport = 3
  HoldRequested = TRUE
  MinHold = 1
  HistTicks = 2
  ReleaseTicks = 1
  Feedforward = TRUE
  MaxEpisode = 2
  MaxTick <- Ticks
  AskTick = 3
INVARIANTS LoopInv CommandIsCurrent SupportHolds
PROPERTIES ResetIsShown
CHECK_DEADLOCK FALSE
