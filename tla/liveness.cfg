SPECIFICATION FairSpec
CONSTANTS
    Jobs = {j1}
    Workers = {w1, w2}
    NoMessage = NoMessage
    MaxRetries = 1
    Files = {index}
    ZipKey = zip
    FaultKinds = {"crash", "connection", "slow", "fetch", "put", "delete", "duplicate"}
    MaxFaults = 3
INVARIANTS
    TypeOK
    NoLostJob
    CompletedHasRow
PROPERTIES
    TerminalAbsorbing
    AcceptedJobEnds
    QueuesDrain
CHECK_DEADLOCK FALSE
