SPECIFICATION Spec
CONSTANTS
    Jobs = {j1}
    Workers = {w1, w2}
    NoMessage = NoMessage
    MaxRetries = 1
    Files = {index}
    ZipKey = zip
    FaultKinds = {"crash"}
    MaxFaults = 1
INVARIANTS
    FailedBundleNotValid
CHECK_DEADLOCK FALSE
