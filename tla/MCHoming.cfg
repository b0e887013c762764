SPECIFICATION Spec
CONSTANTS
    N = 2
    Ignore = 2
    MaxRuns = 2
INVARIANTS
    TypeOK
    SuccessMeansHomed
    OnlyTimeoutStrays
PROPERTIES
    CalibratedInContact
    LiftFirst
    HomingEnds
