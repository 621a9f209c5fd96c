CONSTANTS
    Base = 64
    MemSize = 88
    SizeMod = 4096
    Sizes = {0, 3, 12, 20}
    Counts = {2}
SPECIFICATION Spec
INVARIANT MergesAdjacent
CHECK_DEADLOCK FALSE
