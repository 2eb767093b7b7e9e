SPECIFICATION FairSpec
CONSTANTS
  MaxText = 3
  Threshold = 2
  Chunks = 2
  MaxChanged = 2
  MaxManifest = 1
  MaxFaults = 2
  ClientStarts = TRUE
CHECK_DEADLOCK FALSE
INVARIANTS
  CleanupTruthful
  StopPrevails
PROPERTIES
  NoTextLost
  WorkerLeaves
