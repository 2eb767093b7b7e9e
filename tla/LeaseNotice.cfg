CONSTANTS
    Approvals = {a1}
    MaxGen = 2
    Beat = 1
    Lapses = 3
    MaxFailures = 0
    MaxClicks = 1
SPECIFICATION ControlSpec
PROPERTY
    FailureNoticeIsTrue
CHECK_DEADLOCK FALSE
