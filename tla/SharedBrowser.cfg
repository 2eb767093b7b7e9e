CONSTANTS
    Requests = {}
    NoRequest = NoRequest
    Callers = {}
    MaxLines = 20
    MaxFaults = 0
    MaxClicks = 2
    MaxHands = 3
SPECIFICATION FairSpec
CHECK_DEADLOCK FALSE
INVARIANTS
  PrivateIsHidden
  OneHand
PROPERTIES
  TakeoverEnds
