SPECIFICATION Spec
CONSTANTS
    R = r
    W = w
    O = o
    MaxPending = 2
    MaxCmd = 3
INVARIANTS
    PrefixDelivered
    PendingExact
    NobodyStuck
PROPERTIES
    Closes
CHECK_DEADLOCK FALSE
