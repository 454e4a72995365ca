SPECIFICATION MenuSpec
CONSTANTS
    MAX_ALARMS = 2
    TimerSnooze = 1
    AlarmSnooze = 1
    MaxTime = 2
    MaxIds = 3
    MaxKills = 0
    MaxMisses = 0
INVARIANT MenuTypeOK
PROPERTY MenuSound
CHECK_DEADLOCK FALSE
