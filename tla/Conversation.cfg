SPECIFICATION Spec
CONSTANTS
    MaxEntries = 5
    MaxWindows = 2
INVARIANTS
    TypeOK
    SegmentsMatch
    FaultsExplained
    OpenIsVisible
CHECK_DEADLOCK FALSE
