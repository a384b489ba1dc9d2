SPECIFICATION Spec
CONSTANTS
    BMin = 1
    BMax = 3
    AddStep = 1
    MinGap = 1
    MaxGap = 2
    LossKinds <- AllLoss
    KeyChars <- AllKeys
    MaxFrames = 4
    MaxPipe = 3
    MaxClock = 3
    MaxKeys = 1
CHECK_DEADLOCK FALSE
INVARIANTS
    TypeOK
    FallbackBook
    PublishedRate
    EpochsTellFresh
    BackoffsSpaced
PROPERTIES
    StepOnFreshFeedback
    DrainAfterThree
    DrainHolds
    CeilingAfterThreeLosses
