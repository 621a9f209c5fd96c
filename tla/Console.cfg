CONSTANTS
    VGA_WIDTH = 5
    VGA_HEIGHT = 1
    VGA_TOTAL_ITEMS = 11
    MaxIndex = 13
    Bounds = {0, 2}
    Columns = {0, 3, 7}
    Rows = {0, 1, 2}
SPECIFICATION Spec
INVARIANTS
    InStep
    NothingAhead
