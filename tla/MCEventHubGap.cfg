SPECIFICATION Spec
CONSTANTS
    s1 = s1
    s2 = s2
    Subs <- MCSubs
    Buffers <- MCBuffers
    MaxSubscribers = 2
    HistoryLimit = 2
    MaxUint = 4
PROPERTY
    DroppedIsExactGap
CHECK_DEADLOCK FALSE
