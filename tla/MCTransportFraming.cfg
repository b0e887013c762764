SPECIFICATION LiveSpec
CONSTANTS
    MaxFrames = 2
    PushFrames = 2
    MaxRpc = 4
    MaxFaults = 2
INVARIANTS
    TypeOK
    TimelyReplies
PROPERTIES
    TransactionsEnd
CHECK_DEADLOCK FALSE
