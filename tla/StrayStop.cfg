SPECIFICATION Spec
CONSTANTS
  Keys = {k1, k2}
  Convs = {c1, c2}
  MaxTasks = 2
  MaxRevision = 0
  MaxCrashes = 0
  SignalDeaths = FALSE
  WritesFail = {}
INVARIANT CancelHitsItsTurn
CHECK_DEADLOCK FALSE
