SPECIFICATION Spec
CONSTANTS
    Texts <- MCTexts
    Faults = {"", "drop-index", "drop-log", "empty-concept"}
INVARIANTS
    Lossless
    UnitsSelfContained
    HighestLevelDivides
    ConvertedIsPublishable
    IndexLeadsToUnits
    FaultsDetected
    OneUnitIsValid
    VerdictStable
CHECK_DEADLOCK FALSE
