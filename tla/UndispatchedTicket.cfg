CONSTANTS
    Runs = {r1}
    Approvals = {a1}
    Devices = {d1}
    Readers = {}
    NoApproval = NoApproval
    NoRun = NoRun
    NoDevice = NoDevice
    MaxGeneration = 2
    MaxGrant = 0
    MaxTurn = 1
SPECIFICATION SupSpec
CHECK_DEADLOCK FALSE
PROPERTIES
    UndispatchedIsRevoked
