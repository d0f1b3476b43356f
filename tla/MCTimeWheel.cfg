\* Timers across turns of the wheel, pauses longer than a turn, the clock set back.
CONSTANTS
    Handle = {h1, h2}
    SlotNum = 4
    Delays = {0, 1, 4}
    Intervals = {2}
    StartMs = 1
    MaxMs = 6
    MaxJump = 4
    MaxBack = 1
    NextMayGo = FALSE
SPECIFICATION Spec
SYMMETRY Symmetry
INVARIANTS TypeOK CountOK WalkOnList
PROPERTIES NothingOverdue ImplementsTimers
CHECK_DEADLOCK FALSE
