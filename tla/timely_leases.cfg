SPECIFICATION Spec
CONSTANTS
    Jobs = {j1}
    Workers = {w1, w2}
    NoMessage = NoMessage
    MaxRetries = 1
    Files = {index}
    ZipKey = zip
    FaultKinds = {"crash", "connection", "fetch", "put", "delete", "db", "apiDb", "lost", "duplicate", "apiCrash", "apiConnection"}
    MaxFaults = 5
SYMMETRY Symmetry
INVARIANTS
    ClaimExclusive
    CompletedBundleStored
    DlqOnlyExhausted
    RejectedNeverStored
PROPERTIES
    TerminalStable
    LifecycleSpec
CHECK_DEADLOCK FALSE
