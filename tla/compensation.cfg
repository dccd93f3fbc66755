SPECIFICATION Spec
CONSTANTS
    Jobs = {j1}
    Workers = {w1, w2}
    NoMessage = NoMessage
    MaxRetries = 1
    Files = {index, log}
    ZipKey = zip
    FaultKinds = {"connection", "fetch", "put", "duplicate", "apiDb", "apiConnection"}
    MaxFaults = 5
SYMMETRY Symmetry
INVARIANTS
    CleanupComplete
    ExhaustedReachesDLQ
    UploadCompensated
CHECK_DEADLOCK FALSE
