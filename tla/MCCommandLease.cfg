\* Three clients, a low and a high priority, a timeout of two ticks.
CONSTANTS
    Client = {c1, c2, c3}
    Priority = {0, 1}
    LeaseTimeout = 2
    None = None
SPECIFICATION Spec
INVARIANTS TypeOK MutualExclusion
PROPERTIES LeaseKept TakeoverAfterSilence
