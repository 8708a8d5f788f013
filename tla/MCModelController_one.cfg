SPECIFICATION Spec
CONSTANTS
  Callers = {c1}
  Checkpoints = {"fine", "base"}
  Initial = "fine"
  SettleSource = "initial_pose"
INVARIANTS ControllerInv PsiOwnsPort
CHECK_DEADLOCK FALSE
