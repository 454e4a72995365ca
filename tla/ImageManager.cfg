CONSTANTS
    Chunks = 2
    MaxImages = 2
    MaxPressures = 3
    MaxLosses = 1
SPECIFICATION Spec
INVARIANTS
    TypeOK
    ListSound
    FaultsExplained
    MapsExplained
CHECK_DEADLOCK FALSE
