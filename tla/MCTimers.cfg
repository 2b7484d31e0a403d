SPECIFICATION FairSpec
CONSTANTS
    MaxTimers = 2
    MaxAsyncs = 2
    MaxTime = 3
    Delays <- MCDelays
    Periods <- MCPeriods
    Resolution = 8
    Floor = 1
    Never = 100
    DestroyFrom <- SafeCallers
INVARIANTS TypeOK ListIntegrity CursorValid OversleepBounded AsyncConserved ClearedIsGone
PROPERTIES PassIsFinite DueTimerServed AsyncServed
CHECK_DEADLOCK FALSE
