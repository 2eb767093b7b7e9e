CONSTANTS
    Requests = {q1}
    NoRequest = NoRequest
    Callers = {"propose", "decide"}
    MaxLines = 16
    MaxHands = 3
    MaxFaults = 3
SPECIFICATION FairSpec
CHECK_DEADLOCK FALSE
INVARIANTS
  RanOnce
  NoHiddenEffect
  HumanAlone
