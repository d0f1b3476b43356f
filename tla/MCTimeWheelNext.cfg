\* A callback may cancel any timer, the one that the walk comes to next too.
CONSTANTS
    Handle = {h1, h2}
    SlotNum = 2
    Delays = {1}
    Intervals = {2}
    StartMs = 1
    MaxMs = 4
    MaxJump = 2
    MaxBack = 0
    NextMayGo = TRUE
SPECIFICATION Spec
INVARIANTS WalkOnList
CHECK_DEADLOCK FALSE
