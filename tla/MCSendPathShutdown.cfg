CONSTANTS
    MaxItems = 3
    Lengths <- MCLengths
    MaxBuffer = 0
    JobChunk = 2
    MaxSlots = 4
    PacketChunk = 2
    MaxChunks = 2
    Files = TRUE
    Whole = TRUE
SPECIFICATION Spec
INVARIANTS ShutdownKept
CHECK_DEADLOCK FALSE
