CONSTANTS
    Convs = {c1, c2}
    Texts = {"text"}
    Files = {f1}
    MaxKeys = 2
    MaxFaults = 2
SPECIFICATION Spec
INVARIANT RetrySendsOnce
CHECK_DEADLOCK FALSE
