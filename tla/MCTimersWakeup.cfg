SPECIFICATION Spec
CONSTANTS
    MaxTimers = 2
    MaxAsyncs = 1
    MaxTime = 3
    Delays <- WakeupDelays
    Periods <- MCPeriods
    Resolution = 8
    Floor = 1
    Never = 100
    DestroyFrom <- SafeCallers
CHECK_DEADLOCK FALSE
INVARIANT WithinResolution
