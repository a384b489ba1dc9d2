SPECIFICATION Spec
CONSTANTS
    Sessions = {s1}
    KeySets = {{1}}
    Dims = {1}
    NPackets = 2
    GroupSize = 2
    Window = 1
    Capacity = 2
    FrameTimeout = 1
    KeyGap = 1
    MaxRetired = 1
    MaxFrames = 2
    MaxSkew = 1
INVARIANTS LateReceiverPlays
CHECK_DEADLOCK FALSE
