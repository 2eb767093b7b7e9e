CONSTANTS
    Approvals = {a1, a2}
    MaxGen = 1
    Beat = 1
    Lapses = 2
    MaxFailures = 0
    MaxClicks = 1
SPECIFICATION ControlSpec
INVARIANT
    NoStepSkipped
CHECK_DEADLOCK FALSE
