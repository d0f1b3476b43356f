CHECK_DEADLOCK FALSE
SPECIFICATION Spec
CONSTANTS
    Co = {c1, c2, c3}
    Tw = tw
    Nums <- MCNums
INVARIANTS
    ItemsOfSleepers
    WalkOnQueue
PROPERTIES
    AllWoken
    WalkReturns
