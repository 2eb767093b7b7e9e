SPECIFICATION FairSpec
CONSTANTS
  MaxDeltas = 2
  MaxSessions = 2
  MaxSwitches = 1
  MaxFaults = 1
CHECK_DEADLOCK FALSE
INVARIANTS
  UnpairedIsQuiet
PROPERTIES
  StateConverges
  ReplyConverges
