SPECIFICATION DiskSpec
CONSTANTS
    User = {c1, c2}
    Proc = proc
    Limit = 2
    Slots = 2
    Wrap = 8
PROPERTIES
    ReadBlocks
