CONSTANTS
    Session = {s1}
    Kinds = {"set_alarm", "get_alarm"}
    MaxActions = 2
    MaxLosses = 1
    MaxBreaks = 0
SPECIFICATION FairSpec
PROPERTY EventuallyUnhooked
CHECK_DEADLOCK FALSE
