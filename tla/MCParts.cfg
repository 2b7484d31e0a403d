CONSTANTS
    NULL = NULL
    Keys = {"a", "A", "b"}
    Same <- SameText
    Buckets = {0, 1}
    Addresses = {"i1", "i2", "i3"}
    MaxStores = 4
    Careful = TRUE
    MaxItems = 3
    Lengths <- SendLengths
    MaxBuffer = 5
    JobChunk = 2
    MaxSlots = 4
    PacketChunk = 2
    MaxChunks = 2
    Files = FALSE
    Whole = TRUE
    Texts <- BufferTexts
    Chunk = 2
    Page = 2
    MaxUsed = 4
    Direct = 1
    Short = 2
    Messages <- WsMessages
    Others <- WsOthers
    MaskKeys <- WsKeys
    Payload <- WsPayload
    MaxFrames = 3
    Quiet = TRUE
    Names = {"a", "A", "b"}
    SameName <- SameText
    Slots = 2
    MoreSlots = 2
    MaxAdds = 4
    First = 2
    Growth = 2
    MaxPool = 6
SPECIFICATION PartsSpec
INVARIANTS PartsTypeOK MessagesAsWritten CloseIsLast
    HashSound ReleasedWhenGone
    ArraySound
    PoolSound BufferHolds CodecsAgree
    JobsReachable BufferReleasedOnce
PROPERTIES HandshakeEnds IsByteStream IsSlotList ShutdownHappens
CHECK_DEADLOCK FALSE
