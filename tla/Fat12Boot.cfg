SPECIFICATION Spec
CONSTANTS
    Disks <- MCDisks
    BootDrives = {0}
    OldCH = {0}
    Slots = 260
    MayFail = TRUE
INVARIANTS FilesLoaded LoaderIntact
PROPERTY BootEnds
CHECK_DEADLOCK FALSE
