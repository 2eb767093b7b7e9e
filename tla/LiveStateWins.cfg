CONSTANTS
    Calls = {c1, c2}
    MaxSeq = 3
    TailRows = 1
    SeenCap = 2
    MaxBreaks = 2
SPECIFICATION TrackSpec
INVARIANT
    LiveStateWins
CHECK_DEADLOCK FALSE
