CONSTANTS
    Tracks = 2
    TrackLen = 2
    MaxHalf = 6
    UpdateMod = 2
    Bytes = {0, 1}
    Loose = {0, 1, 3, 5}
    Switches = {0, 1, 2, 3, 4, 5, 6, 7, 10, 11, 12, 13, 14, 15}
SPECIFICATION SeekSpec
INVARIANTS SeekAccurate Recalibrated TrackFollowsHead SeeksStayInImage
PROPERTIES HeadStepsByOne StoresStayOnTrack
CHECK_DEADLOCK FALSE
