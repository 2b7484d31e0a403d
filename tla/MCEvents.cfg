CONSTANTS
    Handlers <- AllHandlers
    Socks = {"a"}
    Slots = 2
    MaxFd = 2
    MaxInput = 2
    MaxDrift = 1
    Default = 1
    FdSetSize = 4
    CloseAny = FALSE
SPECIFICATION EventsSpec
INVARIANTS EventsTypeOK WatchesAgree BatchFits
PROPERTIES EventuallyRead
CHECK_DEADLOCK FALSE
