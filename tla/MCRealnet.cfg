SPECIFICATION Spec
CONSTANTS
    MaxSessions = 3
    Rates = {1, 2}
INVARIANTS OkIsClean MeasuredAsConfigured ExitTellsAll
PROPERTIES ForeignKept
CHECK_DEADLOCK FALSE
