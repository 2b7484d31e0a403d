----------------------------- MODULE WebSocket ------------------------------
(***************************************************************************)
(* ape_websocket.c: two ends that write frames with ape_ws_write, ape_ws_- *)
(* ping and ape_ws_close, and parse what arrives, cut anywhere, with       *)
(* ape_ws_process_frame.  The connection between them is a byte stream; a  *)
(* socket of an end is open until its delayed shutdown, or until it learns *)
(* of the other end's.                                                     *)
(*                                                                         *)
(* Bytes are numbers.  The two thresholds of the length's encoding are     *)
(* constants, so that short messages take the long forms.                  *)
(***************************************************************************)
EXTENDS Integers, Sequences, FiniteSets

CONSTANTS
    Direct,     \* 125: the longest length the second byte holds
    Short,      \* 65535: the longest length 16 bits hold
    Messages,   \* <<length, opcode>> of what applications write
    Others,     \* the same of other implementations' control frames
    MaskKeys,   \* what ape_random32 returns, in turn: four bytes each
    Payload(_, _),  \* the data of an end's n-th frame, of that length
    MaxFrames,  \* bound: no application's call behind that many frames
    Quiet       \* no ape_ws_write once close_sent is set

VARIABLES
    ws,       \* of each end, its websocket_state
    wire,     \* the bytes sent to each end
    eaten,    \* how many of them its parser has had
    open,     \* its socket is ONLINE
    delay,    \* its socket has a delay_timer
    at,       \* the end in ape_ws_process_frame, if any
    calling,  \* on_frame runs
    frames,   \* history: what each end put on the wire
    got       \* history: what its on_frame was given

wsVars == <<ws, wire, eaten, open, delay, at, calling, frames, got>>

Ends    == {"client", "server"}
Peer(e) == CHOOSE p \in Ends : p # e
Byte    == 0 .. 255

Text    == 1
Binary  == 2
Close   == 8
Ping    == 9
Pong    == 10

\* ape_ws_write counts the bytes it masks with an int.
MaxLength == 2147483647

\* The only Close is ape_ws_close's.
ASSUME WebSocketAssumption ==
    /\ Direct \in 0 .. 125
    /\ Short \in Nat /\ Direct <= Short /\ Short < 256 * 256
    /\ Messages \subseteq (0 .. MaxLength) \X {Text, Binary}
    /\ Others \subseteq (0 .. MaxLength) \X ((0 .. 15) \ {Close})
    /\ MaskKeys \in Seq([1 .. 4 -> Byte]) /\ MaskKeys # <<>>
    /\ MaxFrames \in Nat
    /\ \A n \in 1 .. MaxFrames : \A m \in Messages \union Others :
          Payload(n, m[1]) \in [1 .. m[1] -> Byte]

Zeros == [i \in 2 .. 9 |-> 0]

\* ape_ws_init
NewState ==
    [step |-> "START", opcode |-> 0, mask |-> FALSE, length |-> 0,
     payload |-> Zeros, frame_pos |-> 0, key |-> <<0, 0, 0, 0>>, keypos |-> 0,
     data |-> <<>>, inkey |-> 0, close_sent |-> FALSE]

WsInit ==
    /\ ws      = [e \in Ends |-> NewState]
    /\ wire    = [e \in Ends |-> <<>>]
    /\ open    = [e \in Ends |-> TRUE]
    /\ delay   = [e \in Ends |-> FALSE]
    /\ at = "none" /\ calling = FALSE
    /\ frames  = [e \in Ends |-> <<>>]
    /\ eaten   = [e \in Ends |-> 0]
    /\ got     = [e \in Ends |-> <<>>]

-----------------------------------------------------------------------------
(* Writing.                                                                *)

\* The bit of n that stands for p, a power of two.
Bit(n, p) == (n \div p) % 2

Xor(a, b) ==
    LET X(p) == IF Bit(a, p) # Bit(b, p) THEN p ELSE 0
    IN  X(1) + X(2) + X(4) + X(8) + X(16) + X(32) + X(64) + X(128)

\* n in network order, in two bytes and in four; and back.
TwoBytes(n)  == <<(n \div 256) % 256, n % 256>>
FourBytes(n) == TwoBytes(n \div (256 * 256)) \o TwoBytes(n)
Number(hi, lo) == 256 * hi + lo

\* The key of an end's n-th frame; the four bytes are used in turn.
Key(n)       == MaskKeys[((n - 1) % Len(MaskKeys)) + 1]
KeyByte(k, i) == k[((i - 1) % 4) + 1]

Masked(data, key) == [i \in DOMAIN data |-> Xor(data[i], KeyByte(key, i))]

\* The length's field, of ape_ws_write.
LengthField(n) ==
    CASE n <= Direct              -> <<n>>
      [] Direct < n /\ n <= Short -> <<126>> \o TwoBytes(n)
      [] OTHER                    -> <<127, 0, 0, 0, 0>> \o FourBytes(n)

WithMaskBit(field) == <<field[1] + 128>> \o Tail(field)

\* A whole frame of an end: a client masks it, and sends the key.
Encode(e, opcode, data, key) ==
    LET field == LengthField(Len(data)) IN
    <<128 + opcode>> \o IF e = "client"
                        THEN WithMaskBit(field) \o key \o Masked(data, key)
                        ELSE field \o data

\* APE_socket_write, as often as the frame has parts: the bytes stay in order.
Put(e, opcode, data) ==
    LET key   == Key(Len(frames[e]) + 1)
        bytes == Encode(e, opcode, data, key)
    IN  /\ wire' = [wire EXCEPT ![Peer(e)] = @ \o bytes]
        /\ frames' = [frames EXCEPT ![e] = Append(@,
                [opcode |-> opcode, data |-> data, key |-> key,
                 to |-> Len(wire[Peer(e)]) + Len(bytes)])]

\* Mutant of ape_ws_send_frame: close_sent is set, and not read.
SendAlways(e, w, opcode) ==
    /\ ws' = [ws EXCEPT ![e] = [w EXCEPT !.close_sent = @ \/ opcode = Close]]
    /\ Put(e, opcode, <<>>)

\* ape_ws_send_frame, of an end whose state is w otherwise: nothing behind a
\* Close.
ape_ws_send_frame(e, w, opcode) ==
    /\ ws' = [ws EXCEPT ![e] = [w EXCEPT !.close_sent = @ \/ opcode = Close]]
    /\ IF w.close_sent THEN UNCHANGED <<wire, frames>>
                       ELSE Put(e, opcode, <<>>)

\* Mutant of ape_ws_close: the shutdown is left to the other end.
CloseAndWait(e, w) == ape_ws_send_frame(e, w, Close) /\ UNCHANGED delay

\* ape_ws_close: the shutdown is delayed, unless it is already.
ape_ws_close(e, w) ==
    /\ ape_ws_send_frame(e, w, Close)
    /\ delay' = [delay EXCEPT ![e] = TRUE]

-----------------------------------------------------------------------------
(* The application's calls, from an event or from on_frame.                *)

\* The application may call for e.
Free(e) ==
    /\ at = "none" \/ (at = e /\ calling)
    /\ open[e]
    /\ Len(frames["client"]) + Len(frames["server"]) < MaxFrames

Fresh(e, len) == Payload(Len(frames[e]) + 1, len)

ape_ws_write(e, len, opcode) ==
    /\ Free(e) /\ (Quiet => ~ws[e].close_sent)
    /\ Put(e, opcode, Fresh(e, len))
    /\ UNCHANGED <<ws, open, delay, at, calling, eaten, got>>

ape_ws_ping(e) ==
    /\ Free(e)
    /\ ape_ws_send_frame(e, ws[e], Ping)
    /\ UNCHANGED <<open, delay, at, calling, eaten, got>>

CallClose(e) ==
    /\ Free(e)
    /\ ape_ws_close(e, ws[e])
    /\ UNCHANGED <<open, at, calling, eaten, got>>

\* An end of another implementation: control frames with data, unknown
\* opcodes.
OtherFrame(e, len, opcode) ==
    /\ Free(e) /\ (Quiet => ~ws[e].close_sent)
    /\ Put(e, opcode, Fresh(e, len))
    /\ UNCHANGED <<ws, open, delay, at, calling, eaten, got>>

-----------------------------------------------------------------------------
(* ape_ws_process_frame, a byte at a time.                                 *)

Rest(e) == SubSeq(wire[e], eaten[e] + 1, Len(wire[e]))

\* on_read.  Where the buffer ends is decided as it is parsed: it holds some
\* of the rest, and nobody else runs until the call is over.
Receive(e) ==
    /\ at = "none" /\ open[e] /\ Rest(e) # <<>>
    /\ at' = e
    /\ UNCHANGED <<ws, wire, eaten, open, delay, calling, frames, got>>

StepStart(w, b) ==
    [w EXCEPT !.opcode = b % 16, !.step = "LENGTH", !.inkey = 0]

AfterLength(w) == IF w.mask THEN "KEY" ELSE "DATA"

StepLength(w, b) ==
    LET m == [w EXCEPT !.mask = b >= 128] IN
    CASE b % 128 = 126 -> [m EXCEPT !.step = "SHORT_LENGTH"]
      [] b % 128 = 127 -> [m EXCEPT !.step = "EXTENDED_LENGTH"]
      [] OTHER -> [m EXCEPT !.length = b % 128, !.step = AfterLength(m)]

\* The bytes of a length are stored where frame_pos says; with the one at
\* `last' the length is known.
Stored(w, b) == [w EXCEPT !.payload[w.frame_pos] = b]
StepField(w, b, last, length) ==
    IF w.frame_pos # last THEN Stored(w, b)
    ELSE [Stored(w, b) EXCEPT !.step = AfterLength(w), !.length = length]

\* ntohs(short_length)
StepShort(w, b) ==
    LET p == Stored(w, b).payload IN StepField(w, b, 3, Number(p[2], p[3]))

\* ntohl(extended_length >> 32): the upper half is left out.
StepExtended(w, b) ==
    LET p == Stored(w, b).payload
    IN  StepField(w, b, 9, 256 * 256 * Number(p[6], p[7]) + Number(p[8], p[9]))

StepKey(w, b) ==
    LET k == [w EXCEPT !.key[w.keypos + 1] = b, !.keypos = @ + 1] IN
    IF k.keypos < 4 THEN k ELSE [k EXCEPT !.step = "DATA", !.inkey = 0]

\* malloc(extended_length + 1), once.
Allocated(w) == IF w.data # <<>> THEN w.data
                ELSE [i \in 1 .. w.length + 1 |-> 0]

Unmasked(w, b) == IF w.mask THEN Xor(b, KeyByte(w.key, w.inkey + 1)) ELSE b

StepData(w, b) ==
    [w EXCEPT !.data = [Allocated(w) EXCEPT ![w.inkey + 1] = Unmasked(w, b)],
              !.inkey = @ + 1, !.length = @ - 1]

Parsed(w, b) ==
    CASE w.step = "START"           -> StepStart(w, b)
      [] w.step = "LENGTH"          -> StepLength(w, b)
      [] w.step = "SHORT_LENGTH"    -> StepShort(w, b)
      [] w.step = "EXTENDED_LENGTH" -> StepExtended(w, b)
      [] w.step = "KEY"             -> StepKey(w, b)
      [] w.step = "DATA"            -> StepData(w, b)

\* The byte that made w of a state in `step' was the last one of its frame.
Complete(step, w) ==
    step \in {"LENGTH", "KEY", "DATA"} /\ w.step = "DATA" /\ w.length = 0

\* Mutant of ape_ws_reset_frame_state: the key's position is kept.
ResetButKey(w) ==
    [w EXCEPT !.step = "START", !.frame_pos = 0, !.length = 0,
              !.payload = Zeros, !.data = <<>>]

\* Mutant of ape_ws_reset_frame_state: the pointer to the data is kept.
ResetButData(w) ==
    [w EXCEPT !.step = "START", !.frame_pos = 0, !.length = 0,
              !.payload = Zeros, !.keypos = 0]

\* ape_ws_reset_frame_state
ape_ws_reset_frame_state(w) ==
    [w EXCEPT !.step = "START", !.frame_pos = 0, !.length = 0,
              !.payload = Zeros, !.keypos = 0, !.data = <<>>]

Advanced(w) == [w EXCEPT !.frame_pos = @ + 1]

\* Mutant of NextFrame: frame_pos is not set back.
NextFrameOff(w) == Advanced(ape_ws_reset_frame_state(w))

\* Behind the end of a message frame_pos is -1, and one more for its byte.
NextFrame(w) ==
    Advanced([ape_ws_reset_frame_state(w) EXCEPT !.frame_pos = -1])

\* Behind a byte the buffer, and the call, may end.
MayReturn(last) == at' \in IF last THEN {"none"} ELSE {at, "none"}

\* What the next byte makes of the state.
Now == Parsed(ws[at], wire[at][eaten[at] + 1])
Ended(now, opcodes) == Complete(ws[at].step, now) /\ now.opcode \in opcodes

Eat(n)  == eaten' = [eaten EXCEPT ![at] = @ + n]
EatOne  == Eat(1) /\ MayReturn(Len(Rest(at)) = 1)

ParseByte(now) ==
    /\ ~Complete(ws[at].step, now)
    /\ ws' = [ws EXCEPT ![at] = Advanced(now)]
    /\ EatOne
    /\ UNCHANGED <<wire, open, delay, calling, frames, got>>

\* "Don't process anything more": the rest of this buffer is dropped.
EndClose(now) ==
    /\ Ended(now, {Close})
    /\ ape_ws_close(at, ape_ws_reset_frame_state(now))
    /\ \E n \in 1 .. Len(Rest(at)) : Eat(n)
    /\ at' = "none"
    /\ UNCHANGED <<open, calling, got>>

EndPing(now) ==
    /\ Ended(now, {Ping})
    /\ ape_ws_send_frame(at, NextFrame(now), Pong)
    /\ EatOne
    /\ UNCHANGED <<open, delay, calling, got>>

\* Pongs, and opcodes that are only logged.
EndOther(now) ==
    /\ Ended(now, (0 .. 15) \ {Close, Ping, Text, Binary})
    /\ ws' = [ws EXCEPT ![at] = NextFrame(now)]
    /\ EatOne
    /\ UNCHANGED <<wire, open, delay, calling, frames, got>>

\* on_frame is called with the data, data_inkey and the kind.  The state is
\* reset when it returns; of it the calls on_frame may make use close_sent only.
EndMessage(now) ==
    /\ Ended(now, {Text, Binary})
    /\ got' = [got EXCEPT ![at] = Append(@,
                  [opcode |-> now.opcode,
                   data   |-> SubSeq(now.data, 1, now.inkey)])]
    /\ calling' = TRUE
    /\ ws' = [ws EXCEPT ![at] = NextFrame(now)]
    /\ Eat(1)
    /\ UNCHANGED <<at, wire, open, delay, frames>>

Return ==
    /\ calling /\ calling' = FALSE
    /\ MayReturn(Rest(at) = <<>>)
    /\ UNCHANGED <<ws, wire, eaten, open, delay, frames, got>>

-----------------------------------------------------------------------------
(* The sockets.                                                            *)

\* The delayed shutdown's timer.
DelayEnds(e) ==
    /\ at = "none" /\ delay[e]
    /\ delay' = [delay EXCEPT ![e] = FALSE]
    /\ open'  = [open EXCEPT ![e] = FALSE]
    /\ UNCHANGED <<ws, wire, eaten, at, calling, frames, got>>

\* The other end has shut down: the socket is closed, its timer destroyed.
Disconnect(e) ==
    /\ at = "none" /\ open[e] /\ ~open[Peer(e)]
    /\ open'  = [open EXCEPT ![e] = FALSE]
    /\ delay' = [delay EXCEPT ![e] = FALSE]
    /\ UNCHANGED <<ws, wire, eaten, at, calling, frames, got>>

\* One turn of the loop.
Parse ==
    /\ at \in Ends /\ ~calling
    /\ \E now \in {Now} :
         \/ ParseByte(now)
         \/ EndClose(now) \/ EndPing(now) \/ EndOther(now) \/ EndMessage(now)

WsNext ==
    \/ \E e \in Ends :
         \/ \E m \in Messages : ape_ws_write(e, m[1], m[2])
         \/ \E m \in Others : OtherFrame(e, m[1], m[2])
         \/ ape_ws_ping(e)
         \/ CallClose(e)
         \/ Receive(e)
         \/ DelayEnds(e)
         \/ Disconnect(e)
    \/ Parse
    \/ Return

WsSpec == WsInit /\ [][WsNext]_wsVars

\* The library's steps, a callback's return, a socket's readiness, its timer.
WsFairness ==
    /\ WF_wsVars(Parse) /\ WF_wsVars(Return)
    /\ \A e \in Ends : /\ WF_wsVars(DelayEnds(e))
                       /\ WF_wsVars(Disconnect(e))

-----------------------------------------------------------------------------
(* Properties.                                                             *)

\* websocket_state, of what the parser keeps.
WebSocketState ==
    [step : {"START", "LENGTH", "SHORT_LENGTH", "EXTENDED_LENGTH", "KEY", "DATA"},
     opcode : 0 .. 15, mask : BOOLEAN, length : Nat, payload : [2 .. 9 -> Byte],
     frame_pos : Nat, key : [1 .. 4 -> Byte], keypos : 0 .. 4,
     data : Seq(Byte), inkey : Nat, close_sent : BOOLEAN]

\* The parser's fields have their types, and frame_pos stays within the
\* header's ten bytes while one is parsed (a field is stored where it says).
WsTypeOK ==
    /\ ws \in [Ends -> WebSocketState]
    /\ \A e \in Ends : ws[e].step \in {"SHORT_LENGTH", "EXTENDED_LENGTH"}
                        => ws[e].frame_pos \in 2 .. 9
    /\ wire \in [Ends -> Seq(Byte)]
    /\ \A e \in Ends : eaten[e] \in 0 .. Len(wire[e])
    /\ open \in [Ends -> BOOLEAN] /\ delay \in [Ends -> BOOLEAN]
    /\ at \in Ends \union {"none"}
    /\ calling \in BOOLEAN

\* The frames to e whose last byte was parsed, and the messages among them.
Arrived(e) ==
    {n \in DOMAIN frames[Peer(e)] : frames[Peer(e)][n].to <= eaten[e]}
ArrivedMessages(e) ==
    {n \in Arrived(e) : frames[Peer(e)][n].opcode \in {Text, Binary}}

\* However the bytes are cut and the two ends' calls interleave, on_frame has
\* been given exactly the messages whose frames have arrived, in order, with
\* their data and kind, whatever control frames lie between
\* (ape_ws_process_frame, of what ape_ws_write writes).
MessagesAsWritten ==
    \A e \in Ends :
        LET fs == frames[Peer(e)]
            ms == ArrivedMessages(e)
        IN  /\ Len(got[e]) = Cardinality(ms)
            /\ \A n \in ms : got[e][Cardinality({m \in ms : m <= n})] =
                               [opcode |-> fs[n].opcode, data |-> fs[n].data]

\* While a payload arrives, what was stored, what is still to come and the
\* final NUL fill the buffer that was allocated at its first byte.
PayloadFits ==
    \A e \in Ends : ws[e].data # <<>> =>
        Len(ws[e].data) = ws[e].inkey + ws[e].length + 1

\* An end whose application is quiet puts nothing on the wire behind its
\* Close: no second one when the other end closes too, and no pong to a ping
\* that crosses it (close_sent).
CloseIsLast ==
    \A e \in Ends : \A i \in DOMAIN frames[e] :
        frames[e][i].opcode = Close => i = Len(frames[e])

\* Once an end has sent a Close, both sockets end up shut down, whether the
\* other end ever parses the Close or not: the delayed shutdown sees to it
\* (ape_ws_close; the connection takes what was written).
HandshakeEnds ==
    \A e \in Ends : ws[e].close_sent ~> \A p \in Ends : ~open[p]

=============================================================================
