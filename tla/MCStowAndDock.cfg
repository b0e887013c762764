SPECIFICATION Spec
CONSTANTS
    Retries = 2
    MaxRuns = 2
    MaxAfter = 5
INVARIANTS
    TypeOK
    LeftInOrder
    ArmBeforeLift
    CancelPrompt
CHECK_DEADLOCK FALSE
