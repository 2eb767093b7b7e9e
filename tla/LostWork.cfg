SPECIFICATION Spec
CONSTANTS
  Keys = {k1, k2}
  Convs = {c1, c2}
  MaxTasks = 2
  MaxRevision = 0
  MaxCrashes = 1
  SignalDeaths = FALSE
  WritesFail = {}
INVARIANT LostWorkIsClosed
CHECK_DEADLOCK FALSE
