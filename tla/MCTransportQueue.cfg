\* A ring of two slots and a queue of one acknowledgement, both overrun by
\* four RPCs.
CONSTANTS
    Slots = 2
    AckCap = 1
    MaxRpc = 4
SPECIFICATION Spec
INVARIANTS TypeOK VerdictTrue
PROPERTIES DeliveryRefined ResultComes
