SPECIFICATION FairSpec
CONSTANTS
    ReceiverGap = 2
    SenderGaps = {2, 3}
    Window = 2
    MaxWire = 3
    MaxRequests = 2
    MaxSessions = 2
INVARIANTS ForcedIsAsked
PROPERTIES PictureReturns
