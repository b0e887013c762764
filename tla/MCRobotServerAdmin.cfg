\* Every admin request while a user pauses and unpauses a sentry around a
\* guarded, an unguarded and an unknown routine.
CONSTANTS
    Client = {c1}
    Priority = {0}
    LeaseTimeout = 1
    None = None
    Routine = {home, dock, unknown}
    Enabled = {home, dock}
    Guarded = {home}
    Cmds <- SentryCmds
    Requests = {"ping", "free_up_control", "pause", "kill"}
    MaxId = 2
    MaxSent = 4
SPECIFICATION Spec
INVARIANTS TypeOK SentriesRestored
PROPERTIES AcceptedRoutineReported
