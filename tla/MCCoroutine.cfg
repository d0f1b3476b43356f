SPECIFICATION Spec
CONSTANTS
    User = {a, b, c}
    Main = Main
    Tw = Tw
    MaxGen = 1
SYMMETRY Symmetry
INVARIANTS
    TypeOK
    StackOK
    NoLostWaiter
    NoUseAfterFree
    CachedNextValid
    EndedQueued
