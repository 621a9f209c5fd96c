CONSTANTS
    Base = 64
    MemSize = 88
    SizeMod = 4096
    Sizes = {0, 3, 12, 20}
    Counts = {2}
SPECIFICATION Spec
INVARIANTS
    TypeOK
    Tiling
    Coalesced
    LiveSafe
    NoLeak
    WritesFit
    FirstFit
    LifoSafe
PROPERTY CallReturns
CHECK_DEADLOCK FALSE
