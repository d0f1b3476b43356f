\* One coroutine and two descriptors, batches of one event.
CONSTANTS
    Co = {c1}
    Fd = {f1, f2}
    Ask <- Masks
    Dir = {"in"}
    EpollSize = 1
    Nobody = Nobody
SPECIFICATION FairSpec
PROPERTIES HookWoken
