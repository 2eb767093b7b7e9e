CONSTANTS
    Runs = {r1}
    Approvals = {a1}
    Devices = {d1}
    Readers = {d1}
    NoRun = NoRun
    NoDevice = NoDevice
    NoApproval = NoApproval
    MaxGeneration = 2
    MaxGrant = 1
    MaxTurn = 1
SPECIFICATION ReadSpec
CHECK_DEADLOCK FALSE
INVARIANTS
    NoOrphanRun
    OutcomeMatchesRow
    StopIsHeard
PROPERTIES
    UsesStore
    ReleasedUnlessRead
    EndsUnlessRead
