SPECIFICATION ZoomSpec
CONSTANTS
    Wide = 1000 Narrow = 12 MinRange = 4
    DataStarts = {0, 2} DataSpan = 8
    MaxGestures = 4 Far = 99
PROPERTIES PanFollowsPointer
CHECK_DEADLOCK FALSE
