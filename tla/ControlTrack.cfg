CONSTANTS
    Approvals = {a1}
    MaxGen = 2
    Beat = 1
    Lapses = 3
    MaxFailures = 1
    MaxClicks = 1
SPECIFICATION FairControlSpec
CHECK_DEADLOCK FALSE
INVARIANTS
  SettledIsProjected
  HoldKept
PROPERTIES
  ViewSettles
