SPECIFICATION Spec
CONSTANTS
    Caller = {k1, k2}
    Mgr = mgr
    Sender = sender
    Reader = reader
    Stopper = stopper
    Batch = 2
    MaxSeq = 3
INVARIANTS
    ContextsLive
    WrittenOnce
PROPERTIES
    Drained
    StopReturns
CHECK_DEADLOCK FALSE
