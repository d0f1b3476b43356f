SPECIFICATION Spec
CONSTANTS
    Worker = {w1, w2, w3, w4}
    Info = {i1, i2, i3, i4, i5}
    NoInfo = noinfo
    Main = main
    MaxConn = 1
    Accept = 2
    WaitMs = 2
INVARIANTS
    OneOwner
    ConnBound
PROPERTIES
    Stops
CHECK_DEADLOCK FALSE
