\* Every timer expires, however busy callbacks and delayed tasks are.
CONSTANTS
    Handle = {h1, h2}
    SlotNum = 2
    Delays = {0, 1}
    Intervals = {2}
    StartMs = 1
    MaxMs = 4
    MaxJump = 2
    MaxBack = 1
    NextMayGo = FALSE
SPECIFICATION FairSpec
PROPERTIES Expires
CHECK_DEADLOCK FALSE
