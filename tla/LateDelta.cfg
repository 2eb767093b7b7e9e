SPECIFICATION FairSpec
CONSTANTS
  MaxDeltas = 2
  MaxSessions = 2
  MaxSwitches = 1
  MaxFaults = 1
PROPERTIES
  Reconciled
CHECK_DEADLOCK FALSE
