SPECIFICATION FairSpec
CONSTANTS
    Ports <- MCPorts
    Receivers <- MCReceivers
    Experiments <- MCExperiments
    Jobs = 2
    MaxBatches = 2
INVARIANTS OkMeasuredByOwn PassIsClean
PROPERTIES EveryBatchReturns
CHECK_DEADLOCK FALSE
