SPECIFICATION FairSpec
CONSTANTS
    Apis = {a1, a2}
    WorkerProcs = {w1}
    LastMigration = 3
    NoSession = NoSession
    OrphanSession = OrphanSession
    FaultKinds = {"crash", "session", "call", "lost"}
    MaxFaults = 3
INVARIANTS
    TypeOK
    SchemaInOrder
    ServesComplete
PROPERTIES
    EveryProcessServes
    UpgradeSpec
CHECK_DEADLOCK FALSE
