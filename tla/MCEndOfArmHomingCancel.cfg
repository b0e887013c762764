SPECIFICATION EoaSpec
CONSTANTS
    Servos = 3
    Pitch = 3
    MaxHomes = 1
INVARIANTS
    PitchSweepsClear
