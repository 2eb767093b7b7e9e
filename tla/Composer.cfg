CONSTANTS
    Convs = {c1, c2}
    Texts = {"text"}
    Files = {f1}
    MaxKeys = 2
    MaxFaults = 2
SPECIFICATION Spec
CHECK_DEADLOCK FALSE
INVARIANTS
  DraftIntact
  SentOnce
