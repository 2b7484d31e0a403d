------------------------------ MODULE MCParts -------------------------------
(***************************************************************************)
(* The parts that share nothing, each on a small instance, in one state    *)
(* graph: a behaviour is one of the part it begins with, and the variables *)
(* of the others keep their initial values.  They are extended, so that    *)
(* their properties are those the theorems are about; but for Codecs,      *)
(* which has none.  SendPath is without files here.                        *)
(***************************************************************************)
EXTENDS SendPath, Buffers, HashTable, KeyArray, Pools, WebSocket

VARIABLES bytes, safe
VARIABLE part

\* strcasecmp(k, l) == 0
SameText(k, l) == k = l \/ {k, l} = {"a", "A"}

\* Of the WebSocket ends: <<length, opcode>>.
WsMessages == {<<0, 1>>, <<3, 2>>}
WsOthers   == {<<1, 9>>, <<2, 3>>}
WsKeys     == <<<<17, 34, 68, 129>>, <<255, 0, 90, 3>>>>
WsPayload(n, len) == [i \in 1 .. len |-> 16 * n + i]

\* Bytes at the ends of the ranges the conversions tell apart.
C == INSTANCE Codecs WITH
        Bytes <- {0, 62, 128, 195, 224, 243, 255}, Size <- 4

\* Of the items written to the socket.
SendLengths == {1, 3}

\* What is put into the buffer: texts with a NUL, a dash and capitals.
BufferTexts == {<<>>, <<97>>, <<45, 98>>, <<65, 0, 99>>}

codecVars  == <<bytes, safe>>
partsVars  == <<part, wsVars, hashVars, arrayVars, poolVars, bufferVars,
                codecVars, vars>>

PartsInit ==
    /\ part \in {"websocket", "hash", "array", "pool", "buffer", "codecs", "send"}
    /\ WsInit /\ HashInit /\ ArrayInit /\ PoolInit /\ BufferInit /\ C!Init /\ Init
    /\ part # "hash"   => cleaner = FALSE /\ \A k \in DOMAIN hash : hash[k] = 0
    /\ part # "buffer" => size = 0
    /\ part # "codecs" => bytes = <<>> /\ safe = FALSE

\* A conversion has no states but its input.
PartsNext ==
    \/ /\ part = "websocket" /\ WsNext
       /\ UNCHANGED <<part, hashVars, arrayVars, poolVars, bufferVars, codecVars, vars>>
    \/ /\ part = "hash" /\ HashNext
       /\ UNCHANGED <<part, wsVars, arrayVars, poolVars, bufferVars, codecVars, vars>>
    \/ /\ part = "array" /\ ArrayNext
       /\ UNCHANGED <<part, wsVars, hashVars, poolVars, bufferVars, codecVars, vars>>
    \/ /\ part = "pool" /\ PoolNext
       /\ UNCHANGED <<part, wsVars, hashVars, arrayVars, bufferVars, codecVars, vars>>
    \/ /\ part = "buffer" /\ BufferNext
       /\ UNCHANGED <<part, wsVars, hashVars, arrayVars, poolVars, codecVars, vars>>
    \/ /\ part = "send" /\ Next
       /\ UNCHANGED <<part, wsVars, hashVars, arrayVars, poolVars, bufferVars, codecVars>>

\* Fairness, of behaviours of that part: the loop polls a socket from the
\* initial state on, which the other parts stay in.
SendEvent == part = "send" /\ WriteEvent

SendFairness ==
    /\ WF_vars(Writing \/ Jobs \/ DrainReturns)
    /\ WF_vars(SendEvent)
    /\ SF_vars(JobWritev)
    /\ WF_vars(ape_socket_free)

PartsSpec == PartsInit /\ [][PartsNext]_partsVars /\ WsFairness /\ SendFairness

-----------------------------------------------------------------------------
\* The variables of every part have their types, a frame's header is stored
\* within its ten bytes, and the buffer of a payload holds what arrived, what
\* is to come and the NUL (ape_ws_process_frame).
PartsTypeOK ==
    /\ WsTypeOK /\ PayloadFits
    /\ HashTypeOK /\ ArrayTypeOK /\ PoolTypeOK /\ BufferTypeOK
    /\ C!CodecTypeOK /\ TypeOK

\* The conversions are base64 and UTF-8, and fit what is allocated for them
\* (base64_encode_b_safe, base64_decode, buffer_utf8_to_buffer).
CodecsAgree == part = "codecs" => C!Base64Agrees /\ C!Utf8Agrees
=============================================================================
