SPECIFICATION FairSpec
CONSTANTS
    Sessions = {s1, s2}
    KeySets = {{1}}
    Dims = {1}
    NPackets = 2
    GroupSize = 2
    Window = 2
    Capacity = 2
    FrameTimeout = 1
    KeyGap = 1
    MaxRetired = 2
    MaxFrames = 2
    MaxSkew = 0
INVARIANTS RetiredStay
PROPERTIES EveryFramePasses
CHECK_DEADLOCK FALSE
