SPECIFICATION FairSpec
CONSTANTS
  Keys = {k1, k2}
  Convs = {c1}
  MaxTasks = 2
  MaxRevision = 1
  MaxCrashes = 1
  SignalDeaths = FALSE
  WritesFail = {"boot", "worker"}
CHECK_DEADLOCK FALSE
INVARIANTS
  AcknowledgedKept
  SessionFresh
  StopNotLost
PROPERTIES
  TurnOver
