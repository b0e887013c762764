SPECIFICATION Spec
CONSTANTS
    Client = {c1, c2}
    SameUser = {c1}
    MaxFaults = 2
INVARIANTS
    TypeOK
    AckIsOwn
PROPERTIES
    StartupEnds
