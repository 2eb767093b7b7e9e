CONSTANTS
    Runs = {r1}
    Approvals = {a1, a2}
    Devices = {d1, d2}
    NoRun = NoRun
    NoDevice = NoDevice
    MaxGeneration = 3
    MaxGrant = 1
    MaxTurn = 1
SPECIFICATION StoreSpec
SYMMETRY Ids
CHECK_DEADLOCK FALSE
INVARIANTS
    PendingIsOfThisEpoch
    StepMatchesVerdict
PROPERTIES
    GenerationFences
    FinishedStaysFinished
    ImplementsContract
