SPECIFICATION Spec
CONSTANTS
    Jobs = {j1}
    Workers = {w1, w2}
    NoMessage = NoMessage
    MaxRetries = 1
    Files = {index}
    ZipKey = zip
    FaultKinds = {"db"}
    MaxFaults = 1
INVARIANTS
    NoLostJob
CHECK_DEADLOCK FALSE
