SPECIFICATION AppSpec
CONSTANTS
    MaxDepth = 3
    MaxDue = 1
    MaxInFlight = 1
    Choice = {yes, no}
SYMMETRY Swap
INVARIANTS
    TypeOK
    LossesExplained
    QuitsExplained
    ConsentExplained
