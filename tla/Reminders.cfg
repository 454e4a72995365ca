SPECIFICATION FairSpec
CONSTANTS
    MaxTime = 2
    Day = 1
    Followed = {2}
    MaxOpens = 2
INVARIANTS
    TypeOK
    RemindersExplained
PROPERTY EventuallyShown
