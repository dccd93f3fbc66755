SPECIFICATION FairSpec
CONSTANTS
    Jobs = {j1, j2}
    Foreign = {j2}
    PollSlots = {s1, s2}
    FaultKinds = {"network"}
    MaxFaults = 2
INVARIANTS
    TypeOK
    ShownEndIsReal
    CompletedOffersDownload
PROPERTIES
    DetailSettles
CHECK_DEADLOCK FALSE
