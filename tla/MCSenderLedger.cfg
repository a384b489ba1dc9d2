SPECIFICATION FairSpec
CONSTANTS
    NPackets = 1
    NProbe = 1
    MaxQueue = 1
    MaxAttempt = 2
    FrameTimeout = 1
    RetryDelay = 0
    LateAge = 0
    LimitOn = 1
    LimitOff = 1
    MaxLag = 0
    MaxFrames = 2
    MayFail = FALSE
PROPERTIES LedgerKept LimitReleased
CHECK_DEADLOCK FALSE
