CONSTANTS
    Calls = {c1, c2}
    MaxSeq = 3
    TailRows = 1
    SeenCap = 2
    MaxBreaks = 2
SPECIFICATION FairTrackSpec
CHECK_DEADLOCK FALSE
INVARIANTS
  NoEventSkipped
PROPERTIES
  SettledStays
  CaughtUp
