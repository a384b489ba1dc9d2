SPECIFICATION Spec
CONSTANTS
    NPackets = 2
    NProbe = 1
    MaxQueue = 1
    MaxAttempt = 2
    FrameTimeout = 3
    RetryDelay = 1
    LateAge = 2
    LimitOn = 1
    LimitOff = 1
    MaxLag = 1
    MaxFrames = 1
    MayFail = TRUE
INVARIANTS TypeOK RetryBook NoPacketForgotten CleanUnlessUnheard ShutdownCloses
PROPERTIES RetransmitsAreDue LossesAreLate
CHECK_DEADLOCK FALSE
