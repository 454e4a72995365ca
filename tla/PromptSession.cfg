SPECIFICATION FairSpec
CONSTANTS
    Session = {s1, s2}
    MaxRounds = 1
    MaxOpen = 1
    NoThread = NoThread
INVARIANTS
    TypeOK
    ThreadsSound
    ClaimsExplained
PROPERTIES
    AnswersInOrder
    EventuallyEnds
CHECK_DEADLOCK FALSE
