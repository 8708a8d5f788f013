SPECIFICATION RolloutFairSpec
INVARIANTS StackInv
PROPERTIES OnlyLeaselessJobsEnd SessionEnds DriverEndsStack
CHECK_DEADLOCK FALSE
