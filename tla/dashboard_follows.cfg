SPECIFICATION FairSpec
CONSTANTS
    Jobs = {j1, j2}
    Foreign = {}
    NoJob = NoJob
    PollSlots = {s1, s2}
    RefreshSlots = {}
    FaultKinds = {"network"}
    MaxFaults = 1
PROPERTIES
    UploadSettles
CHECK_DEADLOCK FALSE
