\* Two clients of two priorities contend while one routine is asked for.
CONSTANTS
    Client = {c1, c2}
    Priority = {0, 1}
    LeaseTimeout = 1
    None = None
    Routine = {home}
    Enabled = {home}
    Guarded = {home}
    Cmds <- ControlCmds
    Requests = {"free_up_control"}
    MaxId = 1
    MaxSent = 4
SYMMETRY ClientSymmetry
SPECIFICATION Spec
INVARIANTS OwnerHolds RoutineExcludesCommands
PROPERTIES CancelByOwner LeaseRefined
