SPECIFICATION Spec
CONSTANTS
  MaxText = 3
  Threshold = 2
  Chunks = 2
  MaxChanged = 2
  MaxManifest = 1
  MaxFaults = 2
  ClientStarts = FALSE
INVARIANTS DeathIsCleaned
CHECK_DEADLOCK FALSE
