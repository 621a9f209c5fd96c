CONSTANTS
    Tracks = 1
    TrackLen = 2
    MaxHalf = 4
    UpdateMod = 4
    Bytes = {0, 1}
    Switches = {0, 8, 9, 10, 11, 12, 13, 14, 15}
SPECIFICATION Spec
INVARIANTS TypeOK OneMotor BoundedSlices
PROPERTIES RunReturns
