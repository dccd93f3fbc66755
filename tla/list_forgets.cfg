SPECIFICATION FairSpec
CONSTANTS
    Jobs = {j1}
    Foreign = {}
    NoJob = NoJob
    PollSlots = {s1}
    RefreshSlots = {r1, r2}
    FaultKinds = {}
    MaxFaults = 0
PROPERTIES
    ListSettles
CHECK_DEADLOCK FALSE
