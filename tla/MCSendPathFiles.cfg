CONSTANTS
    MaxItems = 4
    Lengths <- MCLengths
    MaxBuffer = 5
    JobChunk = 2
    MaxSlots = 4
    PacketChunk = 2
    MaxChunks = 2
    Files = TRUE
    Whole = FALSE
SPECIFICATION Spec
INVARIANTS TypeOK SpareSlots BufferAccounting
CHECK_DEADLOCK FALSE
