SPECIFICATION FairSpec
CONSTANTS
    Message <- MCMessage
    Size <- MCSize
    Total <- MCTotal
    MaxSize <- MCMaxSize
    MAX_MESSAGES = 2
    MAX_BYTES_IN_FLIGHT = 4
    MaxFailures = 3
INVARIANTS
    TypeOK
    CountersMatch
    NoStall
    LimitsBound
PROPERTIES
    ImplementsChannel
    EventuallyIdle
CHECK_DEADLOCK FALSE
