SPECIFICATION FairSpec
CONSTANTS
    MAX_ALARMS = 2
    TimerSnooze = 1
    AlarmSnooze = 1
    MaxTime = 2
    MaxIds = 3
    MaxKills = 1
    MaxMisses = 1
INVARIANTS
    StoresAgree
    ConversationTruthful
    SurvivesKill
PROPERTIES
    RingsOnce
    EventuallyRings
CHECK_DEADLOCK FALSE
