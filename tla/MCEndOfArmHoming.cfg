SPECIFICATION EoaSpec
CONSTANTS
    Servos = 3
    Pitch = 3
    MaxHomes = 2
INVARIANTS
    EoaTypeOK
    SuccessMeansOver
    HomedInOrder
PROPERTIES
    EoaHomingEnds
