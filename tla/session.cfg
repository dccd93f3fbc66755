SPECIFICATION FairSpec
CONSTANTS
    Tabs = {t1, t2}
    Addresses <- MCAddresses
    Normal <- MCNormal
    NoAddress = ""
    Typed <- MCTyped
    TooShort = {"short"}
    MaxLogins = 2
    RefreshSlots = {r1}
    MaxTokens = 2
    FaultKinds = {"network", "call"}
    MaxFaults = 1
INVARIANTS
    OneAccountPerAddress
    RegisteredCanLogin
    OwnRows
PROPERTIES
    ExpiredSessionEnds
