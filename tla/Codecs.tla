------------------------------- MODULE Codecs -------------------------------
(***************************************************************************)
(* The conversions of bytes: base64 (ape_base64.c), and Latin-1 to UTF-8   *)
(* and back (ape_buffer.c).  Bytes and characters are their numbers.       *)
(* Shifts are multiplications and divisions; the C code's accumulators     *)
(* keep bits no one reads, which are cut off here.                         *)
(***************************************************************************)
EXTENDS Integers, SequencesExt, FiniteSetsExt

CONSTANTS
    Bytes,  \* the bytes of the inputs
    Size    \* bound: their length

VARIABLES bytes, safe

codecVars == <<bytes, safe>>

Init ==
    /\ bytes \in UNION {[1 .. n -> Bytes] : n \in 0 .. Size}
    /\ safe \in BOOLEAN

\* The bits from .. to - 1 of n, counted from the lowest.
BitsOf(n, from, to) == (n \div 2 ^ from) % 2 ^ (to - from)

-----------------------------------------------------------------------------
(* base64                                                                  *)

\* b64, b64_safe: the character of a digit.
Digit(d, s) ==
    IF d < 26 THEN 65 + d ELSE IF d < 52 THEN 97 + d - 26
    ELSE IF d < 62 THEN 48 + d - 52
    ELSE IF d = 62 THEN (IF s THEN 45 ELSE 43) ELSE IF s THEN 95 ELSE 47

\* '='
Pad == 61

\* The inner loop: digits while there are more than 6 bits, or any at the end.
RECURSIVE Digits(_, _, _, _)
Digits(bits, shift, last, s) ==
    LET d    == Digit(((bits * 64) \div 2 ^ shift) % 64, s)
        more == shift - 6 > 6 \/ (last /\ shift - 6 > 0)
        rest == IF more THEN Digits(bits, shift - 6, last, s)
                ELSE [out |-> <<>>, shift |-> shift - 6]
    IN  [out |-> <<d>> \o rest.out, shift |-> rest.shift]

\* One turn of the outer loop, with the i-th byte.
Encoded(acc, src, i, s) ==
    LET bits == (acc.bits % 2 ^ 6) * 256 + src[i]
        d    == Digits(bits, acc.shift + 8, i = Len(src), s)
    IN  [bits |-> bits, shift |-> d.shift, out |-> acc.out \o d.out]

\* Mutant of Padded: safe output is padded as well.
AlwaysPadded(out, s) == out \o [i \in 1 .. (-Len(out)) % 4 |-> Pad]

Padded(out, s) == IF s THEN out ELSE out \o [i \in 1 .. (-Len(out)) % 4 |-> Pad]

\* base64_encode_b, base64_encode_b_safe; base64_encode allocates for it.
base64_encode_b_safe(src, s) ==
    Padded(FoldLeft(LAMBDA acc, i : Encoded(acc, src, i, s),
                    [bits |-> 0, shift |-> 0, out |-> <<>>],
                    [i \in DOMAIN src |-> i]).out, s)

\* map2, by the characters themselves: both alphabets, -1 for any other.
Value(ch) ==
    IF ch \in 65 .. 90 THEN ch - 65 ELSE IF ch \in 97 .. 122 THEN ch - 71
    ELSE IF ch \in 48 .. 57 THEN ch + 4
    ELSE IF ch \in {43, 45} THEN 62 ELSE IF ch \in {47, 95} THEN 63 ELSE -1

\* One turn of the loop of base64_decode: a byte from every digit but the
\* first of four, if there is room; i counts from 0.
Decoded(acc, in, i, room) ==
    LET v == (acc.v % 2 ^ 8) * 64 + Value(in[i + 1])
        full == i % 4 = 0 \/ Len(acc.out) >= room
    IN  [v |-> v,
         out |-> IF full THEN acc.out
                 ELSE Append(acc.out, BitsOf(v, 6 - 2 * (i % 4), 14 - 2 * (i % 4)))]

\* base64_decode: stops at '='; NoBytes stands for -1.
NoBytes == <<-1>>
base64_decode(in, room) ==
    LET end    == SelectInSeq(in, LAMBDA ch : ch = Pad)
        digits == IF end = 0 THEN in ELSE SubSeq(in, 1, end - 1)
    IN  IF \E i \in DOMAIN digits : Value(digits[i]) = -1 THEN NoBytes
        ELSE FoldLeft(LAMBDA acc, i : Decoded(acc, digits, i - 1, room),
                      [v |-> 0, out |-> <<>>],
                      [i \in DOMAIN digits |-> i]).out

\* What base64 is: three bytes are one number of four digits; what is missing
\* of them at the end is 0, and digits without a bit of the input are left out.
Byte(src, i)     == IF i <= Len(src) THEN src[i] ELSE 0
Group(src, g)    == Byte(src, 3*g + 1) * 65536 + Byte(src, 3*g + 2) * 256
                        + Byte(src, 3*g + 3)
DigitAt(src, i)  == BitsOf(Group(src, i \div 4), 18 - 6 * (i % 4), 24 - 6 * (i % 4))
DigitCount(n)    == (4 * n + 2) \div 3

-----------------------------------------------------------------------------
(* Latin-1 and UTF-8                                                       *)

\* buffer_to_buffer_utf8: a byte is a character below 256, so of its four
\* branches two are ever taken.
ToUtf8(c) ==
    IF c < 128 THEN <<c>> ELSE <<192 + c \div 64, 128 + (c % 64)>>

buffer_to_buffer_utf8(b) == FlattenSeq([i \in DOMAIN b |-> ToUtf8(b[i])])

\* '?'
Unknown == 63

\* How many bytes the character takes that begins with c.
Width(c) == IF c >= 240 THEN 4 ELSE IF c >= 224 THEN 3 ELSE IF c >= 192 THEN 2 ELSE 1

\* Mutant of CutOff: a character that ends with the input is taken for one.
CutOffAtEnd(b, i, w) == i + w > Len(b)

\* The input ends within the character.
CutOff(b, i, w) == i + w - 1 > Len(b)

\* The character at i; of three bytes the first gives 6 bits, as in the code.
Character(b, i) ==
    LET w     == Width(b[i])
        low   == IF w = 4 THEN b[i] % 8 ELSE b[i] % 64
        at(k) == b[i + k] % 64
    IN  IF w = 1 THEN b[i]
        ELSE IF CutOff(b, i, w) THEN Unknown
        ELSE IF w = 2 THEN low * 64 + at(1)
        ELSE IF w = 3 THEN (low * 64 + at(1)) * 64 + at(2)
        ELSE ((low * 64 + at(1)) * 64 + at(2)) * 64 + at(3)

Narrowed(c) == IF c > 255 THEN Unknown ELSE c

RECURSIVE Utf8From(_, _)
Utf8From(b, i) ==
    IF i > Len(b) THEN <<>>
    ELSE <<Narrowed(Character(b, i))>> \o Utf8From(b, i + Width(b[i]))

\* buffer_utf8_to_buffer
buffer_utf8_to_buffer(b) == Utf8From(b, 1)

-----------------------------------------------------------------------------
(* Properties.                                                             *)

CodecTypeOK == bytes \in Seq(Bytes) /\ safe \in BOOLEAN

\* The encoding by single bytes is base64, padded unless it is the safe one,
\* fits what base64_encode allocates, and is decoded to what it was; decoding
\* never writes more than it is told there is room for.
Base64Agrees ==
    LET out == base64_encode_b_safe(bytes, safe)
        n   == DigitCount(Len(bytes)) IN
    /\ Len(out) = IF safe THEN n ELSE n + ((-n) % 4)
    /\ \A i \in DOMAIN out :
          out[i] = IF i <= n THEN Digit(DigitAt(bytes, i - 1), safe) ELSE Pad
    /\ Len(out) + 1 <= (Len(bytes) * 4) \div 3 + 12
    /\ base64_decode(out, Len(bytes)) = bytes
    /\ \A room \in 0 .. Len(bytes) :
          base64_decode(out, room) = SubSeq(bytes, 1, room)

\* Latin-1 survives UTF-8 and fits the buffer that is made for it; whatever
\* the bytes are that are read as UTF-8, a character cut off at the end
\* included, the result is bytes, no more than there were.
Utf8Agrees ==
    LET there == buffer_to_buffer_utf8(bytes)
        back  == buffer_utf8_to_buffer(bytes) IN
    /\ buffer_utf8_to_buffer(there) = bytes
    /\ Len(there) + 1 <= 4 * Len(bytes) + 1
    /\ Len(back) <= Len(bytes) /\ \A i \in DOMAIN back : back[i] \in 0 .. 255
=============================================================================
