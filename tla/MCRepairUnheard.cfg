SPECIFICATION Spec
CONSTANTS
    NPackets = 2
    NProbe = 1
    MaxQueue = 1
    MaxAttempt = 0
    FrameTimeout = 2
    RetryDelay = 1
    LateAge = 2
    LimitOn = 1
    LimitOff = 1
    MaxLag = 0
    MaxFrames = 1
    MayFail = FALSE
INVARIANT CleanMeansUntouched
CHECK_DEADLOCK FALSE
