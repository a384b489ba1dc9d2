SPECIFICATION Spec
CONSTANTS
    Sessions = {s1, s2, s3}
    KeySets = {{1}, {1, 3}}
    Dims = {1}
    NPackets = 2
    GroupSize = 2
    Window = 2
    Capacity = 2
    FrameTimeout = 1
    KeyGap = 1
    MaxRetired = 1
    MaxFrames = 3
    MaxSkew = 1
SYMMETRY SessionSymmetry
INVARIANTS TypeOK RefsKnown RebuiltExactly KeyframesKnown
PROPERTIES NoComeback
CHECK_DEADLOCK FALSE
