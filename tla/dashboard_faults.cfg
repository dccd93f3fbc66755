SPECIFICATION Spec
CONSTANTS
    Jobs = {j1, j2}
    Foreign = {j2}
    NoJob = NoJob
    PollSlots = {s1, s2}
    RefreshSlots = {r1}
    FaultKinds = {"db", "network"}
    MaxFaults = 2
INVARIANTS
    TypeOK
    ShownEndsAreReal
CHECK_DEADLOCK FALSE
