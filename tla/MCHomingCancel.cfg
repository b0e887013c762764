SPECIFICATION Spec
CONSTANTS
    N = 2
    Ignore = 2
    MaxRuns = 1
PROPERTIES
    CancelEndsMotion
