\* Two coroutines and two descriptors.
CONSTANTS
    Co = {c1, c2}
    Fd = {f1, f2}
    Ask <- Masks
    Dir = {"in", "out"}
    EpollSize = 2
    Nobody = Nobody
SPECIFICATION Spec
SYMMETRY Symmetry
INVARIANTS TypeOK RegistrationKnown ContextsLive DispatchLive RaisedCounted NoLostEvent
