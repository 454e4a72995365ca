CONSTANTS
    Session = {s1, s2}
    Kinds = {"set_alarm", "get_alarm", "delete_reminder", "other"}
    MaxActions = 3
    MaxLosses = 1
    MaxBreaks = 1
SPECIFICATION FairSpec
INVARIANTS
    TypeOK
    AnswersExplained
    SurplusStays
PROPERTY EventuallyReturns
CHECK_DEADLOCK FALSE
