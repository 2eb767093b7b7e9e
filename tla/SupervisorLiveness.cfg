CONSTANTS
    Runs = {r1}
    Approvals = {a1}
    Devices = {d1}
    Readers = {}
    NoRun = NoRun
    NoDevice = NoDevice
    NoApproval = NoApproval
    MaxGeneration = 2
    MaxGrant = 0
    MaxTurn = 1
SPECIFICATION FairSpec
CHECK_DEADLOCK FALSE
INVARIANTS
    SupTypeOK
    SettledIsWoken
PROPERTIES
    BlockedIsReleased
    TurnEnds
    StopEnds
