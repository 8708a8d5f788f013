SPECIFICATION Spec
CONSTANTS
  Fines = {"f1", "f2"}
  Cached = {"f1"}
  MaxVersion = 3
  MaxLaunches = 4
INVARIANTS ArtifactInv PreviousKept
PROPERTIES ReadyIsSound
CHECK_DEADLOCK FALSE
