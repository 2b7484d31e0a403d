--------------------------- MODULE WebSocketProofs ----------------------------
(***************************************************************************)
(* What on_frame is given is what was written, and a Close is the last     *)
(* frame of its end, for all lengths, contents, keys and numbers of        *)
(* frames, however the bytes are cut.                                      *)
(***************************************************************************)
EXTENDS WebSocket, TLAPS, SequenceTheorems, FiniteSetTheorems

-----------------------------------------------------------------------------
(* Bytes and bits.                                                         *)

\* A length's bytes in network order stand for it.
LEMMA Numbers ==
    ASSUME NEW n \in Nat, n <= MaxLength
    PROVE  /\ n < 256 * 256 => Number((n \div 256) % 256, n % 256) = n
           /\ LET h == n \div (256 * 256) IN
              256 * 256 * Number((h \div 256) % 256, h % 256)
                  + Number((n \div 256) % 256, n % 256) = n
<1> DEFINE h == n \div (256 * 256)
<1>1. \A m \in Nat : 256 * ((m \div 256) % 256) + (m % 256) = m % (256 * 256)
  OBVIOUS
<1>2. \A m \in Nat : (256 * 256) * (m \div (256 * 256)) + (m % (256 * 256)) = m
  OBVIOUS
<1>3. \A m \in Nat : m < 256 * 256 => m % (256 * 256) = m
  BY SMT
<1>4. h \in Nat /\ h < 256 * 256
  BY SMT DEF MaxLength
<1>5. Number((h \div 256) % 256, h % 256) = h
  <2> HIDE DEF h
  <2> QED BY <1>1, <1>3, <1>4 DEF Number
<1>6. Number((n \div 256) % 256, n % 256) = n % (256 * 256)
  BY <1>1 DEF Number
<1> QED BY <1>2, <1>3, <1>5, <1>6

\* The powers of two below a byte's bits.
Powers == {1, 2, 4, 8, 16, 32, 64, 128}

\* A byte is the sum of its bits.
LEMMA ByteOfBits ==
    ASSUME NEW n \in Byte
    PROVE  /\ n = Bit(n, 1) + 2 * Bit(n, 2) + 4 * Bit(n, 4) + 8 * Bit(n, 8)
                  + 16 * Bit(n, 16) + 32 * Bit(n, 32) + 64 * Bit(n, 64)
                  + 128 * Bit(n, 128)
           /\ \A p \in Powers : Bit(n, p) \in {0, 1}
<1>1. n = Bit(n, 1) + 2 * Bit(n, 2) + 4 * Bit(n, 4) + 8 * Bit(n, 8)
          + 16 * Bit(n, 16) + 32 * Bit(n, 32) + 64 * Bit(n, 64) + 128 * Bit(n, 128)
  BY DEF Bit, Byte
<1>2. \A p \in Powers : Bit(n, p) \in {0, 1}
  BY DEF Bit, Byte, Powers
<1> QED BY <1>1, <1>2

\* A sum of bits is a byte that has them.
LEMMA BitsOfByte ==
    ASSUME NEW a0 \in {0, 1}, NEW a1 \in {0, 1}, NEW a2 \in {0, 1},
           NEW a3 \in {0, 1}, NEW a4 \in {0, 1}, NEW a5 \in {0, 1},
           NEW a6 \in {0, 1}, NEW a7 \in {0, 1}
    PROVE  LET n == a0 + 2 * a1 + 4 * a2 + 8 * a3 + 16 * a4 + 32 * a5 + 64 * a6
                    + 128 * a7
           IN  /\ n \in Byte
               /\ Bit(n, 1) = a0 /\ Bit(n, 2) = a1 /\ Bit(n, 4) = a2
               /\ Bit(n, 8) = a3 /\ Bit(n, 16) = a4 /\ Bit(n, 32) = a5
               /\ Bit(n, 64) = a6 /\ Bit(n, 128) = a7
  BY DEF Bit, Byte

\* Masking a byte twice gives it back.
LEMMA XorTwice ==
    ASSUME NEW a \in Byte, NEW k \in Byte
    PROVE  Xor(a, k) \in Byte /\ Xor(Xor(a, k), k) = a
<1> DEFINE x == Xor(a, k)
           d(p) == IF Bit(a, p) # Bit(k, p) THEN 1 ELSE 0
<1>1. \A p \in Powers : d(p) \in {0, 1}
  OBVIOUS
<1>2. x = d(1) + 2 * d(2) + 4 * d(4) + 8 * d(8) + 16 * d(16) + 32 * d(32)
          + 64 * d(64) + 128 * d(128)
  BY DEF Xor
<1>3. /\ x \in Byte
      /\ \A p \in Powers : Bit(x, p) = d(p)
  <2> HIDE DEF d, x
  <2> QED BY <1>1, <1>2, BitsOfByte DEF Powers
<1>4. \A p \in Powers : Bit(x, p) # Bit(k, p) <=> Bit(a, p) = 1
  BY <1>3, ByteOfBits DEF Powers
<1>5. \A p \in Powers :
         (IF Bit(x, p) # Bit(k, p) THEN p ELSE 0) = p * Bit(a, p)
  <2> HIDE DEF d, x
  <2> QED BY <1>4, ByteOfBits DEF Powers
<1>6. Xor(x, k) = 1 * Bit(a, 1) + 2 * Bit(a, 2) + 4 * Bit(a, 4) + 8 * Bit(a, 8)
                  + 16 * Bit(a, 16) + 32 * Bit(a, 32) + 64 * Bit(a, 64)
                  + 128 * Bit(a, 128)
  <2> HIDE DEF d, x
  <2> QED BY <1>5 DEF Xor, Powers
<1>7. Xor(x, k) = a
  <2> HIDE DEF x
  <2> QED BY <1>6, ByteOfBits DEF Powers
<1> QED BY <1>3, <1>7

-----------------------------------------------------------------------------
(* A frame's bytes.                                                        *)

\* A function on 1 .. n is a sequence of that length.
LEMMA FunctionIsSeq ==
    ASSUME NEW S, NEW n \in Nat, NEW s \in [1 .. n -> S]
    PROVE  s \in Seq(S) /\ Len(s) = n
  BY SeqDef

\* The elements of a concatenation.
LEMMA ConcatIs ==
    ASSUME NEW S, NEW s \in Seq(S), NEW t \in Seq(S)
    PROVE  /\ s \o t \in Seq(S) /\ Len(s \o t) = Len(s) + Len(t)
           /\ Len(s) \in Nat /\ Len(t) \in Nat
           /\ \A i \in 1 .. Len(s) : (s \o t)[i] = s[i]
           /\ \A i \in 1 .. Len(t) : (s \o t)[Len(s) + i] = t[i]
<1>1. Len(s) \in Nat /\ Len(t) \in Nat
  BY LenProperties
<1>2. /\ s \o t \in Seq(S) /\ Len(s \o t) = Len(s) + Len(t)
      /\ \A i \in 1 .. Len(s) + Len(t) :
            (s \o t)[i] = IF i <= Len(s) THEN s[i] ELSE t[i - Len(s)]
  BY ConcatProperties
<1>3. ASSUME NEW i \in 1 .. Len(s) PROVE (s \o t)[i] = s[i]
  BY <1>1, <1>2
<1>4. ASSUME NEW i \in 1 .. Len(t) PROVE (s \o t)[Len(s) + i] = t[i]
  <2>1. /\ Len(s) + i \in 1 .. Len(s) + Len(t)
        /\ ~ Len(s) + i <= Len(s)
        /\ Len(s) + i - Len(s) = i
    BY <1>1
  <2> QED BY <1>2, <2>1
<1> QED BY <1>1, <1>2, <1>3, <1>4

\* How many bytes the length takes, and the header.
FieldLen(n)  == IF n <= Direct THEN 1 ELSE IF n <= Short THEN 3 ELSE 9
Header(p, n) == 1 + FieldLen(n) + (IF p = "client" THEN 4 ELSE 0)

\* The first byte of the length's field.
FieldByte(n) == IF n <= Direct THEN n ELSE IF n <= Short THEN 126 ELSE 127

\* The length's field is bytes, and its last ones say the length.
LEMMA FieldIs ==
    ASSUME NEW n \in Nat, n <= MaxLength
    PROVE  LET f == LengthField(n) IN
           /\ f \in Seq(Byte) /\ Len(f) = FieldLen(n)
           /\ f[1] = FieldByte(n) /\ f[1] < 128
           /\ FieldLen(n) = 3 => Number(f[2], f[3]) = n
           /\ FieldLen(n) = 9 =>
                 256 * 256 * Number(f[6], f[7]) + Number(f[8], f[9]) = n
<1>1. \A m \in Nat : /\ TwoBytes(m) \in Seq(Byte) /\ Len(TwoBytes(m)) = 2
                     /\ TwoBytes(m)[1] = (m \div 256) % 256
                     /\ TwoBytes(m)[2] = m % 256
  <2> SUFFICES ASSUME NEW m \in Nat
               PROVE  /\ TwoBytes(m) \in Seq(Byte) /\ Len(TwoBytes(m)) = 2
                      /\ TwoBytes(m)[1] = (m \div 256) % 256
                      /\ TwoBytes(m)[2] = m % 256
    OBVIOUS
  <2>1. (m \div 256) % 256 \in Byte /\ m % 256 \in Byte
    BY DEF Byte
  <2> QED BY <2>1 DEF TwoBytes
<1> DEFINE h == n \div (256 * 256)
           t == TwoBytes(n)
           u == TwoBytes(h)
<1>2. h \in Nat
  OBVIOUS
<1>3. /\ t \in Seq(Byte) /\ Len(t) = 2
      /\ t[1] = (n \div 256) % 256 /\ t[2] = n % 256
  BY <1>1
<1>4. /\ u \in Seq(Byte) /\ Len(u) = 2
      /\ u[1] = (h \div 256) % 256 /\ u[2] = h % 256
  <2> HIDE DEF h
  <2> QED BY <1>1, <1>2
<1>a. t \in Seq(Byte) /\ u \in Seq(Byte)
  BY <1>3, <1>4
<1>5. CASE n <= Direct
  <2>1. LengthField(n) = <<n>>
    <3>1. ~ (Direct < n /\ n <= Short)
      BY <1>5, WebSocketAssumption
    <3> QED BY <1>5, <3>1, Zenon DEF LengthField
  <2>2. n \in Byte /\ n < 128
    BY <1>5, WebSocketAssumption DEF Byte
  <2> QED BY <2>1, <2>2, <1>5 DEF FieldLen, FieldByte
<1>6. CASE Direct < n /\ n <= Short
  <2>1. LengthField(n) = <<126>> \o t
    BY <1>6, WebSocketAssumption DEF LengthField
  <2>2. <<126>> \in Seq(Byte) /\ Len(<<126>>) = 1 /\ <<126>>[1] = 126
    BY DEF Byte
  <2>3. /\ <<126>> \o t \in Seq(Byte) /\ Len(<<126>> \o t) = 3
        /\ (<<126>> \o t)[1] = 126
        /\ (<<126>> \o t)[2] = t[1] /\ (<<126>> \o t)[3] = t[2]
    <3> DEFINE d == <<126>>
    <3> HIDE DEF t, d
    <3>1. d \in Seq(Byte) /\ Len(d) = 1 /\ d[1] = 126
      BY <2>2 DEF d
    <3>a. d \in Seq(Byte)
      BY <3>1
    <3>2. /\ d \o t \in Seq(Byte) /\ Len(d \o t) = Len(d) + Len(t)
          /\ \A i \in 1 .. Len(d) : (d \o t)[i] = d[i]
          /\ \A i \in 1 .. Len(t) : (d \o t)[Len(d) + i] = t[i]
      BY <3>a, <1>a, ConcatIs
    <3>3. /\ (d \o t)[Len(d) + 1] = t[1] /\ (d \o t)[Len(d) + 2] = t[2]
          /\ (d \o t)[1] = d[1]
      BY <3>1, <1>3, <3>2
    <3>4. Len(d) + 1 = 2 /\ Len(d) + 2 = 3
      BY <3>1
    <3>5. (d \o t)[2] = t[1] /\ (d \o t)[3] = t[2]
      BY <3>3, <3>4
    <3> QED BY <3>1, <1>3, <3>2, <3>3, <3>5 DEF d
  <2>4. Number(t[1], t[2]) = n
    BY <1>6, <1>3, Numbers, WebSocketAssumption
  <2>5. ~ n <= Direct
    BY <1>6, WebSocketAssumption
  <2> HIDE DEF t
  <2> QED BY <2>1, <2>3, <2>4, <2>5, <1>6 DEF FieldLen, FieldByte
<1>7. CASE Direct < n /\ ~ n <= Short
  <2> DEFINE z == <<127, 0, 0, 0, 0>>
             q == u \o t
  <2>1. LengthField(n) = z \o q
    <3>1. n \in Int /\ Direct \in Int /\ Short \in Int
      BY WebSocketAssumption
    <3>2. ~ (n <= Direct) /\ ~ (Direct < n /\ n <= Short)
      BY <1>7, <3>1
    <3>3. LengthField(n) = z \o FourBytes(n)
      BY <3>2, Zenon DEF LengthField
    <3> QED BY <3>3 DEF FourBytes
  <2>2. z \in Seq(Byte) /\ Len(z) = 5 /\ z[1] = 127
    BY DEF Byte
  <2>3. /\ q \in Seq(Byte) /\ Len(q) = 4
        /\ q[1] = u[1] /\ q[2] = u[2] /\ q[3] = t[1] /\ q[4] = t[2]
    <3> HIDE DEF t, u
    <3>1. /\ u \o t \in Seq(Byte) /\ Len(u \o t) = Len(u) + Len(t)
          /\ \A i \in 1 .. Len(u) : (u \o t)[i] = u[i]
          /\ \A i \in 1 .. Len(t) : (u \o t)[Len(u) + i] = t[i]
      BY <1>a, ConcatIs
    <3>2. /\ (u \o t)[Len(u) + 1] = t[1] /\ (u \o t)[Len(u) + 2] = t[2]
          /\ (u \o t)[1] = u[1] /\ (u \o t)[2] = u[2]
      BY <1>3, <1>4, <3>1
    <3>3. Len(u) + 1 = 3 /\ Len(u) + 2 = 4
      BY <1>4
    <3> QED BY <1>3, <1>4, <3>1, <3>2, <3>3
  <2>4. /\ z \o q \in Seq(Byte) /\ Len(z \o q) = 9 /\ (z \o q)[1] = 127
        /\ (z \o q)[6] = u[1] /\ (z \o q)[7] = u[2]
        /\ (z \o q)[8] = t[1] /\ (z \o q)[9] = t[2]
    <3> HIDE DEF q, z, u, t
    <3>a. z \in Seq(Byte) /\ q \in Seq(Byte)
      BY <2>2, <2>3
    <3>1. /\ z \o q \in Seq(Byte) /\ Len(z \o q) = Len(z) + Len(q)
          /\ \A i \in 1 .. Len(z) : (z \o q)[i] = z[i]
          /\ \A i \in 1 .. Len(q) : (z \o q)[Len(z) + i] = q[i]
      BY <3>a, ConcatIs
    <3>2. /\ (z \o q)[Len(z) + 1] = q[1] /\ (z \o q)[Len(z) + 2] = q[2]
          /\ (z \o q)[Len(z) + 3] = q[3] /\ (z \o q)[Len(z) + 4] = q[4]
      <4>1. Len(q) = 4
        BY <2>3
      <4> QED BY <4>1, <3>1
    <3>4. (z \o q)[1] = z[1]
      BY <2>2, <3>1
    <3>3. /\ Len(z) + 1 = 6 /\ Len(z) + 2 = 7 /\ Len(z) + 3 = 8
          /\ Len(z) + 4 = 9
      BY <2>2
    <3> QED BY <2>2, <2>3, <3>1, <3>2, <3>3, <3>4
  <2>5. 256 * 256 * Number(u[1], u[2]) + Number(t[1], t[2]) = n
    <3>1. 256 * 256 * Number((h \div 256) % 256, h % 256)
          + Number((n \div 256) % 256, n % 256) = n
      BY Numbers
    <3> HIDE DEF h, u, t
    <3> QED BY <3>1, <1>3, <1>4
  <2>6. ~ n <= Direct
    BY <1>7, WebSocketAssumption
  <2> HIDE DEF q, z, u, t
  <2> QED BY <2>1, <2>4, <2>5, <2>6, <1>7 DEF FieldLen, FieldByte
<1> QED BY <1>5, <1>6, <1>7, WebSocketAssumption

\* The mask bit is added to the field's first byte.
LEMMA MaskBitIs ==
    ASSUME NEW f \in Seq(Byte), f # <<>>, f[1] < 128
    PROVE  LET m == WithMaskBit(f) IN
           /\ m \in Seq(Byte) /\ Len(m) = Len(f)
           /\ m[1] = f[1] + 128
           /\ \A i \in 2 .. Len(f) : m[i] = f[i]
<1> DEFINE d == <<f[1] + 128>>
           t == Tail(f)
<1>1. Len(f) \in Nat /\ Len(f) >= 1 /\ f[1] \in Byte
  <2>1. Len(f) \in Nat /\ Len(f) # 0
    BY LenProperties, EmptySeq
  <2> QED BY <2>1, ElementOfSeq
<1>2. d \in Seq(Byte) /\ Len(d) = 1 /\ d[1] = f[1] + 128
  <2> DEFINE x == f[1]
  <2>a. x \in Byte /\ x < 128
    BY <1>1
  <2> HIDE DEF x
  <2>b. x + 128 \in Byte
    BY <2>a DEF Byte
  <2>1. f[1] + 128 \in Byte
    BY <2>b DEF x
  <2> QED BY <2>1
<1>3. t \in Seq(Byte) /\ Len(t) = Len(f) - 1 /\ \A i \in 1 .. Len(t) : t[i] = f[i + 1]
  BY HeadTailProperties
<1> HIDE DEF d, t
<1>4. /\ d \o t \in Seq(Byte) /\ Len(d \o t) = Len(d) + Len(t)
      /\ \A i \in 1 .. Len(d) : (d \o t)[i] = d[i]
      /\ \A i \in 1 .. Len(t) : (d \o t)[Len(d) + i] = t[i]
  <2>1. d \in Seq(Byte) /\ t \in Seq(Byte)
    BY <1>2, <1>3
  <2> QED BY <2>1, ConcatIs
<1>5. (d \o t)[1] = f[1] + 128
  BY <1>2, <1>4
<1>6. ASSUME NEW i \in 2 .. Len(f) PROVE (d \o t)[i] = f[i]
  <2>1. i - 1 \in 1 .. Len(t) /\ (i - 1) + 1 = i /\ Len(d) + (i - 1) = i
    BY <1>1, <1>2, <1>3
  <2>2. t[i - 1] = f[(i - 1) + 1]
    BY <1>3, <2>1
  <2>3. (d \o t)[Len(d) + (i - 1)] = t[i - 1]
    BY <1>4, <2>1
  <2> QED BY <2>1, <2>2, <2>3
<1>7. WithMaskBit(f) = d \o t
  BY DEF WithMaskBit, d, t
<1>8. Len(d \o t) = Len(f)
  BY <1>1, <1>2, <1>3, <1>4
<1> QED BY <1>4, <1>5, <1>6, <1>7, <1>8

\* The bytes of a key are used in turn.
LEMMA KeyByteIs ==
    ASSUME NEW key \in [1 .. 4 -> Byte], NEW i \in Nat, i >= 1
    PROVE  KeyByte(key, i) \in Byte
<1>1. ((i - 1) % 4) + 1 \in 1 .. 4
  OBVIOUS
<1> QED BY <1>1 DEF KeyByte

\* Masked data is bytes, as many as there were.
LEMMA MaskedIs ==
    ASSUME NEW data \in Seq(Byte), NEW key \in [1 .. 4 -> Byte]
    PROVE  LET m == Masked(data, key) IN
           /\ m \in Seq(Byte) /\ Len(m) = Len(data)
           /\ \A i \in 1 .. Len(data) : m[i] = Xor(data[i], KeyByte(key, i))
<1>1. Len(data) \in Nat /\ DOMAIN data = 1 .. Len(data)
  BY LenProperties
<1>2. \A i \in 1 .. Len(data) : Xor(data[i], KeyByte(key, i)) \in Byte
  <2> SUFFICES ASSUME NEW i \in 1 .. Len(data)
               PROVE  Xor(data[i], KeyByte(key, i)) \in Byte
    OBVIOUS
  <2>1. data[i] \in Byte
    BY ElementOfSeq
  <2>2. KeyByte(key, i) \in Byte
    BY <1>1, KeyByteIs
  <2> QED BY <2>1, <2>2, XorTwice
<1>3. Masked(data, key) \in [1 .. Len(data) -> Byte]
  BY <1>1, <1>2 DEF Masked
<1>4. Masked(data, key) \in Seq(Byte) /\ Len(Masked(data, key)) = Len(data)
  BY <1>1, <1>3, FunctionIsSeq
<1>5. \A i \in 1 .. Len(data) : Masked(data, key)[i] = Xor(data[i], KeyByte(key, i))
  BY <1>1 DEF Masked
<1> QED BY <1>4, <1>5

\* A frame's bytes: the opcode, the length's field, of a client the key, and
\* the data.
HasParts(b, p, o, data, key) ==
    LET n == Len(data)
        k == FieldLen(n)
        h == Header(p, n)
    IN  /\ b \in Seq(Byte) /\ Len(b) = h + n
        /\ b[1] = 128 + o
        /\ b[2] = FieldByte(n) + (IF p = "client" THEN 128 ELSE 0)
        /\ \A i \in 2 .. k : b[1 + i] = LengthField(n)[i]
        /\ p = "client" => \A i \in 1 .. 4 : b[1 + k + i] = key[i]
        /\ \A i \in 1 .. n :
             b[h + i] = IF p = "client" THEN Xor(data[i], KeyByte(key, i)) ELSE data[i]

\* That is how a frame is written.
LEMMA EncodeIs ==
    ASSUME NEW p \in Ends, NEW o \in 0 .. 15, NEW data \in Seq(Byte),
           Len(data) <= MaxLength, NEW key \in [1 .. 4 -> Byte]
    PROVE  HasParts(Encode(p, o, data, key), p, o, data, key)
<1> DEFINE n == Len(data)
           k == FieldLen(n)
           h == Header(p, n)
           b == Encode(p, o, data, key)
           f == LengthField(n)
           first == <<128 + o>>
<1>1. n \in Nat /\ k \in {1, 3, 9}
  BY LenProperties DEF FieldLen
<1>2. first \in Seq(Byte) /\ Len(first) = 1 /\ first[1] = 128 + o
  <2>1. 128 + o \in Byte
    BY DEF Byte
  <2> QED BY <2>1
<1>3. f \in Seq(Byte) /\ Len(f) = k /\ f[1] = FieldByte(n) /\ f[1] < 128
  BY <1>1, FieldIs
<1>4. CASE p = "client"
  <2> DEFINE g == WithMaskBit(f)
             m == Masked(data, key)
             q == g \o key
             r == q \o m
  <2>1. /\ g \in Seq(Byte) /\ Len(g) = k /\ g[1] = FieldByte(n) + 128
        /\ \A i \in 2 .. k : g[i] = f[i]
    <3>1. f # <<>>
      BY <1>1, <1>3, EmptySeq
    <3> HIDE DEF f
    <3> QED BY <1>3, <3>1, MaskBitIs
  <2>2. key \in Seq(Byte) /\ Len(key) = 4
    <3> DEFINE l == 4
    <3>1. l \in Nat /\ key \in [1 .. l -> Byte]
      OBVIOUS
    <3> HIDE DEF l
    <3>2. key \in Seq(Byte) /\ Len(key) = l
      BY <3>1, FunctionIsSeq
    <3> QED BY <3>2 DEF l
  <2>3. /\ m \in Seq(Byte) /\ Len(m) = n
        /\ \A i \in 1 .. n : m[i] = Xor(data[i], KeyByte(key, i))
    BY MaskedIs
  <2> HIDE DEF g, m, f, k, n, h, first
  <2>a. g \in Seq(Byte) /\ key \in Seq(Byte) /\ m \in Seq(Byte)
    BY <2>1, <2>2, <2>3, Zenon
  <2>4. /\ q \in Seq(Byte) /\ Len(q) = Len(g) + Len(key)
        /\ \A i \in 1 .. Len(g) : q[i] = g[i]
        /\ \A i \in 1 .. Len(key) : q[Len(g) + i] = key[i]
    BY <2>a, ConcatIs
  <2> HIDE DEF q
  <2>b. q \in Seq(Byte) /\ first \in Seq(Byte)
    BY <1>2, <2>4
  <2>5. /\ r \in Seq(Byte) /\ Len(r) = Len(q) + Len(m)
        /\ \A i \in 1 .. Len(q) : r[i] = q[i]
        /\ \A i \in 1 .. Len(m) : r[Len(q) + i] = m[i]
    BY <2>a, <2>b, ConcatIs
  <2> HIDE DEF r
  <2>c. r \in Seq(Byte)
    BY <2>5
  <2>6. /\ first \o r \in Seq(Byte) /\ Len(first \o r) = 1 + Len(r)
        /\ (first \o r)[1] = first[1]
        /\ \A i \in 1 .. Len(r) : (first \o r)[1 + i] = r[i]
    <3>1. /\ first \o r \in Seq(Byte) /\ Len(first \o r) = Len(first) + Len(r)
          /\ \A i \in 1 .. Len(first) : (first \o r)[i] = first[i]
          /\ \A i \in 1 .. Len(r) : (first \o r)[Len(first) + i] = r[i]
      BY <2>b, <2>c, ConcatIs
    <3> QED BY <3>1, <1>2
  <2>7. b = first \o r
    BY <1>4 DEF Encode, first, r, q, g, f, m, n
  <2>8. h = 5 + k
    BY <1>1, <1>4 DEF Header, h, k
  <2>9. Len(q) = k + 4 /\ Len(r) = k + 4 + n
    BY <1>1, <2>1, <2>2, <2>3, <2>4, <2>5
  <2> HIDE DEF b
  <2>10. b \in Seq(Byte) /\ Len(b) = h + n /\ b[1] = 128 + o
    <3>1. Len(b) = 1 + (k + 4 + n)
      BY <2>6, <2>7, <2>9
    <3> QED BY <1>1, <1>2, <2>6, <2>7, <2>8, <3>1
  <2>11. b[2] = FieldByte(n) + 128
    <3>1. 1 \in 1 .. Len(r) /\ 1 \in 1 .. Len(q) /\ 1 \in 1 .. Len(g) /\ 1 + 1 = 2
      BY <1>1, <2>1, <2>9
    <3>2. b[1 + 1] = r[1] /\ r[1] = q[1] /\ q[1] = g[1]
      BY <3>1, <2>4, <2>5, <2>6, <2>7
    <3> QED BY <3>1, <3>2, <2>1
  <2>12. ASSUME NEW i \in 2 .. k PROVE b[1 + i] = f[i]
    <3>1. i \in 1 .. Len(r) /\ i \in 1 .. Len(q) /\ i \in 1 .. Len(g)
      <4>1. Len(g) = k
        BY <2>1
      <4> QED BY <4>1, <1>1, <2>9
    <3>2. b[1 + i] = r[i]
      BY <3>1, <2>6, <2>7
    <3>3. r[i] = q[i]
      BY <3>1, <2>5
    <3>4. q[i] = g[i]
      BY <3>1, <2>4
    <3>5. g[i] = f[i]
      BY <2>1
    <3> QED BY <3>2, <3>3, <3>4, <3>5
  <2>13. ASSUME NEW i \in 1 .. 4 PROVE b[1 + k + i] = key[i]
    <3>1. /\ k + i \in 1 .. Len(r) /\ k + i \in 1 .. Len(q) /\ i \in 1 .. Len(key)
          /\ 1 + (k + i) = 1 + k + i
      BY <1>1, <2>2, <2>9
    <3>2. b[1 + (k + i)] = r[k + i] /\ r[k + i] = q[k + i]
      BY <3>1, <2>5, <2>6, <2>7
    <3>3. q[Len(g) + i] = key[i]
      BY <3>1, <2>4
    <3> QED BY <3>1, <3>2, <3>3, <2>1
  <2>14. ASSUME NEW i \in 1 .. n PROVE b[h + i] = Xor(data[i], KeyByte(key, i))
    <3>1. /\ k + 4 + i \in 1 .. Len(r) /\ i \in 1 .. Len(m)
          /\ 1 + (k + 4 + i) = h + i
      BY <1>1, <2>3, <2>8, <2>9
    <3>2. b[1 + (k + 4 + i)] = r[k + 4 + i]
      BY <3>1, <2>6, <2>7
    <3>3. r[Len(q) + i] = m[i]
      BY <3>1, <2>5
    <3> QED BY <3>1, <3>2, <3>3, <2>3, <2>9
  <2> QED BY <1>4, <2>10, <2>11, <2>12, <2>13, <2>14 DEF HasParts, b, f, h, k, n
<1>5. CASE p # "client"
  <2> DEFINE r == f \o data
  <2> HIDE DEF f, k, n, h, first
  <2>a. f \in Seq(Byte) /\ first \in Seq(Byte)
    BY <1>2, <1>3
  <2>1. /\ r \in Seq(Byte) /\ Len(r) = Len(f) + Len(data)
        /\ \A i \in 1 .. Len(f) : r[i] = f[i]
        /\ \A i \in 1 .. Len(data) : r[Len(f) + i] = data[i]
    BY <2>a, ConcatIs
  <2> HIDE DEF r
  <2>b. r \in Seq(Byte)
    BY <2>1
  <2>2. /\ first \o r \in Seq(Byte) /\ Len(first \o r) = 1 + Len(r)
        /\ (first \o r)[1] = first[1]
        /\ \A i \in 1 .. Len(r) : (first \o r)[1 + i] = r[i]
    <3>1. /\ first \o r \in Seq(Byte) /\ Len(first \o r) = Len(first) + Len(r)
          /\ \A i \in 1 .. Len(first) : (first \o r)[i] = first[i]
          /\ \A i \in 1 .. Len(r) : (first \o r)[Len(first) + i] = r[i]
      BY <2>a, <2>b, ConcatIs
    <3> QED BY <3>1, <1>2
  <2>3. b = first \o r
    BY <1>5 DEF Encode, first, r, f, n
  <2>4. h = 1 + k
    BY <1>1, <1>5 DEF Header, h, k
  <2>5. Len(r) = k + n
    BY <1>3, <2>1 DEF n
  <2> HIDE DEF b
  <2>6. b \in Seq(Byte) /\ Len(b) = h + n /\ b[1] = 128 + o
    BY <1>1, <1>2, <2>2, <2>3, <2>4, <2>5
  <2>7. b[2] = FieldByte(n)
    <3>1. 1 \in 1 .. Len(r) /\ 1 \in 1 .. Len(f) /\ 1 + 1 = 2
      BY <1>1, <1>3, <2>5
    <3>2. b[1 + 1] = r[1] /\ r[1] = f[1]
      BY <3>1, <2>1, <2>2, <2>3
    <3> QED BY <3>1, <3>2, <1>3
  <2>8. ASSUME NEW i \in 2 .. k PROVE b[1 + i] = f[i]
    <3>1. i \in 1 .. Len(r) /\ i \in 1 .. Len(f)
      BY <1>1, <1>3, <2>5
    <3> QED BY <3>1, <2>1, <2>2, <2>3
  <2>9. ASSUME NEW i \in 1 .. n PROVE b[h + i] = data[i]
    <3>1. k + i \in 1 .. Len(r) /\ i \in 1 .. Len(data) /\ 1 + (k + i) = h + i
      BY <1>1, <2>4, <2>5 DEF n
    <3>2. b[1 + (k + i)] = r[k + i]
      BY <3>1, <2>2, <2>3
    <3>3. r[Len(f) + i] = data[i]
      BY <3>1, <2>1
    <3> QED BY <3>1, <3>2, <3>3, <1>3
  <2>10. FieldByte(n) + 0 = FieldByte(n)
    BY <1>1, WebSocketAssumption DEF FieldByte
  <2> QED BY <1>5, <2>6, <2>7, <2>8, <2>9, <2>10 DEF HasParts, b, f, h, k, n
<1> QED BY <1>4, <1>5

-----------------------------------------------------------------------------
(* The parser, a byte further.                                             *)

\* What is recorded of a frame.
FrameSet ==
    {f \in [opcode : 0 .. 15, data : Seq(Byte), key : [1 .. 4 -> Byte], to : Nat] :
        Len(f.data) <= MaxLength}
IsFrame(f) == f \in FrameSet

Bytes(p, f) == Encode(p, f.opcode, f.data, f.key)

\* Nothing of a frame was parsed.
AtStart(w) ==
    w.step = "START" /\ w.frame_pos = 0 /\ w.keypos = 0 /\ w.data = <<>>

\* The length's field of `size' bytes is parsed, up to its k-th byte.
InField(w, n, size, k) ==
    /\ w.step = IF size = 3 THEN "SHORT_LENGTH" ELSE "EXTENDED_LENGTH"
    /\ w.keypos = 0
    /\ \A j \in 2 .. k - 1 : w.payload[j] = LengthField(n)[j]

\* j bytes of the key were parsed.
InKey(w, f, j) ==
    /\ w.step = "KEY" /\ w.length = Len(f.data) /\ w.keypos = j
    /\ \A i \in 1 .. j : w.key[i] = f.key[i]

\* The buffer when j bytes of the data are stored.
Filled(data, j) ==
    [i \in 1 .. Len(data) + 1 |-> IF i <= j THEN data[i] ELSE 0]

\* j bytes of the data were parsed.
InData(w, p, f, j) ==
    /\ w.step = "DATA" /\ w.length = Len(f.data) - j /\ w.inkey = j
    /\ p = "client" => w.key = f.key
    /\ w.data = IF j = 0 THEN <<>> ELSE Filled(f.data, j)

\* The parser's state when k bytes of the frame f of p were parsed.
ParserAt(w, p, f, k) ==
    LET n    == Len(f.data)
        size == FieldLen(n)
        h    == Header(p, n)
    IN  /\ w.frame_pos = k
        /\ k = 0 => AtStart(w)
        /\ k > 0 => w.opcode = f.opcode
        /\ k > 0 /\ k < h => w.inkey = 0 /\ w.data = <<>>
        /\ k = 1 => w.step = "LENGTH" /\ w.keypos = 0
        /\ k > 1 => w.mask = (p = "client")
        /\ k > 1 /\ k <= size => InField(w, n, size, k)
        /\ k > size /\ k < h /\ k > 1 => InKey(w, f, k - size - 1)
        /\ k >= h => InData(w, p, f, k - h)

\* What the byte b makes of w is the parser's state behind k + 1 bytes; the
\* frame is complete with its last byte.
Advances(w, p, f, k, b) ==
    LET now == Parsed(w, b) IN
    /\ now \in WebSocketState /\ now.close_sent = w.close_sent
    /\ ParserAt(Advanced(now), p, f, k + 1)
    /\ Complete(w.step, now) <=> k + 1 = Len(Bytes(p, f))

\* The fields of a frame's record.
LEMMA FrameIs ==
    ASSUME NEW f, IsFrame(f)
    PROVE  /\ f.opcode \in 0 .. 15 /\ f.data \in Seq(Byte)
           /\ Len(f.data) <= MaxLength /\ f.key \in [1 .. 4 -> Byte]
           /\ f.to \in Nat
  BY DEF IsFrame, FrameSet

\* The bytes of a recorded frame.
LEMMA BytesAre ==
    ASSUME NEW p \in Ends, NEW f, IsFrame(f)
    PROVE  HasParts(Bytes(p, f), p, f.opcode, f.data, f.key)
<1>1. /\ f.opcode \in 0 .. 15 /\ f.data \in Seq(Byte)
      /\ Len(f.data) <= MaxLength /\ f.key \in [1 .. 4 -> Byte]
  BY FrameIs
<1>2. HasParts(Encode(p, f.opcode, f.data, f.key), p, f.opcode, f.data, f.key)
  BY <1>1, EncodeIs
<1> QED BY <1>2 DEF Bytes

\* The sizes of a frame's parts.
LEMMA Sizes ==
    ASSUME NEW p \in Ends, NEW f, IsFrame(f)
    PROVE  LET n == Len(f.data)
               size == FieldLen(n)
               h == Header(p, n)
           IN  /\ n \in Nat /\ size \in {1, 3, 9} /\ h \in Nat
               /\ h = size + (IF p = "client" THEN 5 ELSE 1)
               /\ Bytes(p, f) \in Seq(Byte) /\ Len(Bytes(p, f)) = h + n
               /\ size # 1 => n > 0
<1>1. Len(f.data) \in Nat
  BY FrameIs, LenProperties
<1>2. FieldLen(Len(f.data)) \in {1, 3, 9}
  BY DEF FieldLen
<1>3. FieldLen(Len(f.data)) # 1 => Len(f.data) > 0
  BY <1>1, WebSocketAssumption DEF FieldLen
<1>4. /\ Bytes(p, f) \in Seq(Byte)
      /\ Len(Bytes(p, f)) = Header(p, Len(f.data)) + Len(f.data)
  BY BytesAre DEF HasParts
<1>5. Header(p, Len(f.data)) = FieldLen(Len(f.data)) + (IF p = "client" THEN 5 ELSE 1)
  BY <1>2 DEF Header
<1> QED BY <1>1, <1>2, <1>3, <1>4, <1>5

\* A frame's first byte.
LEMMA StartAdvances ==
    ASSUME NEW w \in WebSocketState, NEW p \in Ends, NEW f, IsFrame(f),
           ParserAt(w, p, f, 0)
    PROVE  Advances(w, p, f, 0, Bytes(p, f)[1])
<1> DEFINE b == Bytes(p, f)[1]
           n == Len(f.data)
           size == FieldLen(n)
           h == Header(p, n)
           now == Parsed(w, b)
<1>1. b = 128 + f.opcode /\ f.opcode \in 0 .. 15
  BY FrameIs, BytesAre DEF HasParts
<1>2. b % 16 = f.opcode
  BY <1>1
<1>3. AtStart(w) /\ w.frame_pos = 0
  BY DEF ParserAt
<1>4. now = [w EXCEPT !.opcode = f.opcode, !.step = "LENGTH", !.inkey = 0]
  BY <1>2, <1>3 DEF Parsed, StepStart, AtStart
<1>5. /\ n \in Nat /\ size \in {1, 3, 9} /\ h \in Nat
      /\ h = size + (IF p = "client" THEN 5 ELSE 1)
      /\ Len(Bytes(p, f)) = h + n
  BY Sizes
<1> HIDE DEF b, n, size, h
<1>a. now \in WebSocketState
  <2> DEFINE o == f.opcode
  <2>1. o \in 0 .. 15 /\ now = [w EXCEPT !.opcode = o, !.step = "LENGTH", !.inkey = 0]
    BY <1>1, <1>4
  <2> HIDE DEF o, now
  <2> QED BY <2>1 DEF WebSocketState
<1>6. /\ now \in WebSocketState /\ now.close_sent = w.close_sent
      /\ now.opcode = f.opcode /\ now.step = "LENGTH" /\ now.inkey = 0
      /\ now.keypos = 0 /\ now.data = <<>> /\ now.frame_pos = 0
  BY <1>a, <1>3, <1>4 DEF WebSocketState, AtStart
<1> HIDE DEF now
<1>7. LET a == Advanced(now) IN
      /\ a.frame_pos = 1 /\ a.opcode = f.opcode /\ a.step = "LENGTH"
      /\ a.inkey = 0 /\ a.keypos = 0 /\ a.data = <<>>
  BY <1>6 DEF Advanced, WebSocketState
<1>8. ParserAt(Advanced(now), p, f, 0 + 1)
  BY <1>5, <1>7 DEF ParserAt, n, size, h
<1>9. ~ Complete(w.step, now) /\ 0 + 1 # Len(Bytes(p, f))
  BY <1>3, <1>5, <1>6 DEF Complete, AtStart
<1> QED BY <1>6, <1>8, <1>9 DEF Advances, now, b
\* The byte with the mask bit and the length or its kind.
LEMMA LengthAdvances ==
    ASSUME NEW w \in WebSocketState, NEW p \in Ends, NEW f, IsFrame(f),
           ParserAt(w, p, f, 1)
    PROVE  Advances(w, p, f, 1, Bytes(p, f)[2])
<1> DEFINE b == Bytes(p, f)[2]
           n == Len(f.data)
           size == FieldLen(n)
           h == Header(p, n)
           now == Parsed(w, b)
           a == Advanced(now)
           masked == p = "client"
<1>1. b = FieldByte(n) + (IF p = "client" THEN 128 ELSE 0)
  BY BytesAre DEF HasParts
<1>2. /\ n \in Nat /\ size \in {1, 3, 9} /\ h \in Nat
      /\ h = size + (IF p = "client" THEN 5 ELSE 1)
      /\ Len(Bytes(p, f)) = h + n
      /\ size # 1 => n > 0
  BY Sizes
<1>3. /\ FieldByte(n) \in 0 .. 127
      /\ size = 1 => FieldByte(n) = n /\ n < 126
      /\ size = 3 => FieldByte(n) = 126
      /\ size = 9 => FieldByte(n) = 127
  <2>1. Direct \in 0 .. 125 /\ n \in Nat
    BY <1>2, WebSocketAssumption
  <2> HIDE DEF n
  <2>2. CASE n <= Direct
    BY <2>1, <2>2 DEF FieldByte, FieldLen, size
  <2>3. CASE ~ n <= Direct /\ n <= Short
    BY <2>1, <2>3 DEF FieldByte, FieldLen, size
  <2>4. CASE ~ n <= Direct /\ ~ n <= Short
    BY <2>1, <2>4 DEF FieldByte, FieldLen, size
  <2> QED BY <2>2, <2>3, <2>4
<1>4. b % 128 = FieldByte(n) /\ (b >= 128) = masked
  <2> DEFINE x == FieldByte(n)
  <2>1. x \in 0 .. 127 /\ b = x + (IF masked THEN 128 ELSE 0)
    BY <1>1, <1>3
  <2> HIDE DEF x, b
  <2>2. b % 128 = x
    BY <2>1
  <2>3. (b >= 128) <=> masked
    BY <2>1
  <2> QED BY <2>2, <2>3 DEF x
<1>5. /\ w.step = "LENGTH" /\ w.keypos = 0 /\ w.inkey = 0 /\ w.data = <<>>
      /\ w.frame_pos = 1 /\ w.opcode = f.opcode
  BY <1>2 DEF ParserAt
<1> DEFINE m == [w EXCEPT !.mask = masked]
<1>6. now = StepLength(w, b)
  BY <1>5 DEF Parsed
<1>7. m \in WebSocketState /\ m.mask = masked
  BY DEF WebSocketState
<1>8. CASE size = 1
  <2>1. now = [m EXCEPT !.length = n, !.step = IF masked THEN "KEY" ELSE "DATA"]
    <3>1. b % 128 = n /\ n # 126 /\ n # 127
      <4>1. b % 128 = FieldByte(n) /\ FieldByte(n) = n /\ n < 126 /\ n \in Nat
        BY <1>2, <1>3, <1>4, <1>8
      <4> HIDE DEF n, b
      <4> QED BY <4>1
    <3>2. now = [m EXCEPT !.length = n, !.step = AfterLength(m)]
      BY <1>4, <1>6, <3>1 DEF StepLength
    <3> QED BY <3>2, <1>7 DEF AfterLength
  <2> HIDE DEF n, size, h, masked, b
  <2>2. /\ now \in WebSocketState /\ now.close_sent = w.close_sent
        /\ now.step = IF masked THEN "KEY" ELSE "DATA"
        /\ now.mask = masked /\ now.length = n
        /\ now.keypos = 0 /\ now.inkey = 0 /\ now.data = <<>>
        /\ now.opcode = f.opcode /\ now.frame_pos = 1
    BY <1>2, <1>5, <2>1 DEF WebSocketState, masked
  <2> HIDE DEF now
  <2>3. /\ a.step = (IF masked THEN "KEY" ELSE "DATA")
        /\ a.mask = masked /\ a.length = n
        /\ a.keypos = 0 /\ a.inkey = 0 /\ a.data = <<>>
        /\ a.opcode = f.opcode /\ a.frame_pos = 2
    BY <2>2 DEF Advanced, WebSocketState
  <2> HIDE DEF a
  <2>4. masked => InKey(a, f, 2 - size - 1)
    BY <1>8, <2>3 DEF InKey, n
  <2>5. ~ masked => InData(a, p, f, 2 - h)
    BY <1>2, <1>8, <2>3 DEF InData, n, masked
  <2>6. ParserAt(a, p, f, 2)
    BY <1>2, <1>8, <2>3, <2>4, <2>5 DEF ParserAt, n, size, h, masked
  <2>7. Complete(w.step, now) <=> 2 = Len(Bytes(p, f))
    BY <1>2, <1>5, <1>8, <2>2 DEF Complete, masked
  <2> QED BY <2>2, <2>6, <2>7 DEF Advances, now, b, a
<1>9. CASE size # 1
  <2> DEFINE s == IF size = 3 THEN "SHORT_LENGTH" ELSE "EXTENDED_LENGTH"
  <2>1. now = [m EXCEPT !.step = s]
    <3>1. b % 128 = IF size = 3 THEN 126 ELSE 127
      BY <1>2, <1>3, <1>4, <1>9
    <3> HIDE DEF b, size
    <3>2. CASE size = 3
      <4>1. b % 128 = 126 /\ b % 128 # 127 /\ s = "SHORT_LENGTH"
        BY <3>1, <3>2
      <4> HIDE DEF s
      <4>2. StepLength(w, b) = [[w EXCEPT !.mask = b >= 128] EXCEPT !.step = "SHORT_LENGTH"]
        BY <4>1 DEF StepLength
      <4>3. now = [m EXCEPT !.step = "SHORT_LENGTH"]
        BY <1>4, <1>6, <4>2
      <4> QED BY <4>1, <4>3
    <3>3. CASE size # 3
      <4>1. b % 128 = 127 /\ b % 128 # 126 /\ s = "EXTENDED_LENGTH"
        BY <3>1, <3>3
      <4> HIDE DEF s
      <4>2. StepLength(w, b) = [[w EXCEPT !.mask = b >= 128] EXCEPT !.step = "EXTENDED_LENGTH"]
        BY <4>1 DEF StepLength
      <4>3. now = [m EXCEPT !.step = "EXTENDED_LENGTH"]
        BY <1>4, <1>6, <4>2
      <4> QED BY <4>1, <4>3
    <3> QED BY <3>2, <3>3
  <2> HIDE DEF n, size, h, masked, b
  <2>2. /\ now \in WebSocketState /\ now.close_sent = w.close_sent
        /\ now.step = s
        /\ now.mask = masked
        /\ now.keypos = 0 /\ now.inkey = 0 /\ now.data = <<>>
        /\ now.opcode = f.opcode /\ now.frame_pos = 1
    BY <1>2, <1>5, <2>1 DEF WebSocketState, masked
  <2> HIDE DEF now
  <2>3. /\ a.step = s /\ a.mask = masked
        /\ a.keypos = 0 /\ a.inkey = 0 /\ a.data = <<>>
        /\ a.opcode = f.opcode /\ a.frame_pos = 2
    BY <2>2 DEF Advanced, WebSocketState
  <2> HIDE DEF a
  <2>4. InField(a, n, size, 2)
    BY <1>2, <1>9, <2>3 DEF InField
  <2>5. ParserAt(a, p, f, 2)
    BY <1>2, <1>9, <2>3, <2>4 DEF ParserAt, n, size, h, masked
  <2>6. ~ Complete(w.step, now) /\ 2 # Len(Bytes(p, f))
    BY <1>2, <1>9, <2>2 DEF Complete
  <2> QED BY <2>2, <2>5, <2>6 DEF Advances, now, b, a
<1> QED BY <1>8, <1>9
\* A byte of a longer length.
LEMMA FieldAdvances ==
    ASSUME NEW w \in WebSocketState, NEW p \in Ends, NEW f, IsFrame(f),
           NEW k \in 2 .. FieldLen(Len(f.data)), ParserAt(w, p, f, k)
    PROVE  Advances(w, p, f, k, Bytes(p, f)[k + 1])
<1> DEFINE b == Bytes(p, f)[k + 1]
           n == Len(f.data)
           size == FieldLen(n)
           h == Header(p, n)
           now == Parsed(w, b)
           a == Advanced(now)
           masked == p = "client"
           field == LengthField(n)
           number == IF size = 3 THEN Number(field[2], field[3])
                     ELSE 256 * 256 * Number(field[6], field[7])
                              + Number(field[8], field[9])
           z == Stored(w, b)
<1>1. /\ n \in Nat /\ size \in {1, 3, 9} /\ h \in Nat
      /\ h = size + (IF p = "client" THEN 5 ELSE 1)
      /\ Len(Bytes(p, f)) = h + n
      /\ size # 1 => n > 0
  BY Sizes
<1>2. size \in {3, 9} /\ k \in 2 .. size /\ k \in 2 .. 9 /\ k \in Nat
  BY <1>1
<1>3. b = field[k]
  <2>1. \A i \in 2 .. size : Bytes(p, f)[1 + i] = field[i]
    BY BytesAre DEF HasParts
  <2>2. 1 + k = k + 1
    BY <1>2
  <2> QED BY <1>2, <2>1, <2>2
<1>4. field \in Seq(Byte) /\ Len(field) = size /\ number = n
  <2>1. n <= MaxLength
    BY FrameIs
  <2>2. /\ field \in Seq(Byte) /\ Len(field) = size
        /\ size = 3 => Number(field[2], field[3]) = n
        /\ size = 9 =>
             256 * 256 * Number(field[6], field[7]) + Number(field[8], field[9]) = n
    BY <1>1, <2>1, FieldIs
  <2> QED BY <1>2, <2>2
<1>5. b \in Byte
  <2> HIDE DEF field, b, n, size
  <2>1. k \in 1 .. Len(field)
    BY <1>2, <1>4
  <2> QED BY <1>3, <1>4, <2>1, ElementOfSeq
<1> HIDE DEF n, size, h, b, field
<1>6. /\ w.step = IF size = 3 THEN "SHORT_LENGTH" ELSE "EXTENDED_LENGTH"
      /\ w.keypos = 0 /\ \A j \in 2 .. k - 1 : w.payload[j] = field[j]
      /\ w.frame_pos = k /\ w.opcode = f.opcode /\ w.inkey = 0
      /\ w.data = <<>> /\ w.mask = masked
  <2>1. k > 0 /\ k < h /\ k > 1 /\ k <= size
    BY <1>1, <1>2
  <2>2. InField(w, n, size, k) /\ w.frame_pos = k /\ w.opcode = f.opcode
        /\ w.inkey = 0 /\ w.data = <<>> /\ w.mask = masked
    BY <2>1 DEF ParserAt, n, size, h
  <2> QED BY <2>2 DEF InField, field
<1>7. /\ z \in WebSocketState /\ z = [w EXCEPT !.payload = [w.payload EXCEPT ![k] = b]]
      /\ \A j \in 2 .. k : z.payload[j] = field[j]
  <2>1. z = [w EXCEPT !.payload = [w.payload EXCEPT ![k] = b]]
    BY <1>6 DEF Stored
  <2>2. w.payload \in [2 .. 9 -> Byte]
    BY DEF WebSocketState
  <2>3. [w.payload EXCEPT ![k] = b] \in [2 .. 9 -> Byte]
    BY <1>2, <1>5, <2>2
  <2>4. z.payload = [w.payload EXCEPT ![k] = b]
    BY <2>1 DEF WebSocketState
  <2>5. \A j \in 2 .. k : z.payload[j] = field[j]
    BY <1>2, <1>3, <1>6, <2>2, <2>4
  <2>6. z \in WebSocketState
    BY <2>1, <2>3 DEF WebSocketState
  <2> QED BY <2>1, <2>5, <2>6
<1>8. /\ z.step = w.step /\ z.mask = masked /\ z.keypos = 0 /\ z.inkey = 0
      /\ z.data = <<>> /\ z.opcode = f.opcode /\ z.frame_pos = k
      /\ z.close_sent = w.close_sent
  BY <1>6, <1>7 DEF WebSocketState
<1>9. now = IF k # size THEN z
            ELSE [z EXCEPT !.step = AfterLength(w), !.length = n]
  <2>1. CASE size = 3
    <3>1. now = StepShort(w, b)
      BY <1>6, <2>1 DEF Parsed
    <3>2. k = size => Number(z.payload[2], z.payload[3]) = n
      BY <1>2, <1>4, <1>7, <2>1
    <3>3. StepShort(w, b) = StepField(w, b, 3, Number(z.payload[2], z.payload[3]))
      BY DEF StepShort
    <3> HIDE DEF now
    <3> QED BY <1>6, <2>1, <3>1, <3>2, <3>3 DEF StepField
  <2>2. CASE size = 9
    <3>1. now = StepExtended(w, b)
      BY <1>6, <2>2 DEF Parsed
    <3> DEFINE m == 256 * 256 * Number(z.payload[6], z.payload[7])
                         + Number(z.payload[8], z.payload[9])
    <3>2. k = size => m = n
      <4> SUFFICES ASSUME k = size PROVE m = n
        OBVIOUS
      <4>1. /\ z.payload[6] = field[6] /\ z.payload[7] = field[7]
            /\ z.payload[8] = field[8] /\ z.payload[9] = field[9]
        BY <1>7, <2>2
      <4> QED BY <1>4, <2>2, <4>1
    <3>3. StepExtended(w, b) = StepField(w, b, 9, m)
      BY DEF StepExtended
    <3> HIDE DEF now, m, z
    <3>4. StepField(w, b, 9, m) =
            IF w.frame_pos # 9 THEN z
            ELSE [z EXCEPT !.step = AfterLength(w), !.length = m]
      BY DEF StepField, z
    <3> QED BY <1>6, <2>2, <3>1, <3>2, <3>3, <3>4
  <2> QED BY <1>2, <2>1, <2>2
<1> HIDE DEF z, now, masked
<1>10. CASE k # size
  <2>1. /\ a.frame_pos = k + 1 /\ a.step = w.step /\ a.mask = masked
        /\ a.keypos = 0 /\ a.inkey = 0 /\ a.data = <<>> /\ a.opcode = f.opcode
        /\ a.payload = z.payload
    BY <1>2, <1>7, <1>8, <1>9, <1>10 DEF Advanced, WebSocketState
  <2> HIDE DEF a
  <2>2. InField(a, n, size, k + 1)
    <3>1. \A j \in 2 .. (k + 1) - 1 : a.payload[j] = field[j]
      BY <1>2, <1>7, <2>1
    <3> QED BY <1>6, <2>1, <3>1 DEF InField, field
  <2>3. ParserAt(a, p, f, k + 1)
    BY <1>1, <1>2, <1>10, <2>1, <2>2 DEF ParserAt, n, size, h, masked
  <2>4. ~ Complete(w.step, now) /\ k + 1 # Len(Bytes(p, f))
    BY <1>1, <1>2, <1>6, <1>10 DEF Complete
  <2> QED BY <1>7, <1>8, <1>9, <1>10, <2>3, <2>4 DEF Advances, a, now, b
<1>11. CASE k = size
  <2>1. AfterLength(w) = IF masked THEN "KEY" ELSE "DATA"
    BY <1>6 DEF AfterLength
  <2>2. now = [z EXCEPT !.step = IF masked THEN "KEY" ELSE "DATA", !.length = n]
    BY <1>9, <1>11, <2>1
  <2>3. /\ now \in WebSocketState /\ now.close_sent = w.close_sent
        /\ now.step = (IF masked THEN "KEY" ELSE "DATA") /\ now.length = n
        /\ now.mask = masked /\ now.keypos = 0 /\ now.inkey = 0
        /\ now.data = <<>> /\ now.opcode = f.opcode /\ now.frame_pos = k
    BY <1>1, <1>7, <1>8, <2>2 DEF WebSocketState
  <2>4. /\ a.step = (IF masked THEN "KEY" ELSE "DATA") /\ a.length = n
        /\ a.mask = masked /\ a.keypos = 0 /\ a.inkey = 0
        /\ a.data = <<>> /\ a.opcode = f.opcode /\ a.frame_pos = k + 1
    BY <1>2, <2>3 DEF Advanced, WebSocketState
  <2> HIDE DEF a
  <2>5. masked => InKey(a, f, ((k + 1) - size) - 1)
    <3>1. ((k + 1) - size) - 1 = 0
      BY <1>2, <1>11
    <3> QED BY <2>4, <3>1 DEF InKey, n
  <2>6. ~ masked => InData(a, p, f, (k + 1) - h)
    <3>1. ~ masked => (k + 1) - h = 0
      BY <1>1, <1>2, <1>11 DEF masked
    <3> QED BY <1>1, <2>4, <3>1 DEF InData, n, masked
  <2>7. ParserAt(a, p, f, k + 1)
    <3>1. /\ k + 1 > 1 /\ ~ k + 1 <= size /\ k + 1 # 0 /\ k + 1 # 1
          /\ k + 1 < h => masked
          /\ k + 1 >= h => ~ masked
      BY <1>1, <1>2, <1>11 DEF masked
    <3>2. k + 1 > 0
      BY <1>2
    <3> QED BY <2>4, <2>5, <2>6, <3>1, <3>2 DEF ParserAt, n, size, h, masked
  <2>8. ~ Complete(w.step, now) /\ k + 1 # Len(Bytes(p, f))
    BY <1>1, <1>2, <1>6, <1>11 DEF Complete
  <2> QED BY <2>3, <2>7, <2>8 DEF Advances, a, now, b
<1> QED BY <1>10, <1>11

\* A byte of the key.
LEMMA KeyAdvances ==
    ASSUME NEW w \in WebSocketState, NEW p \in Ends, NEW f, IsFrame(f),
           NEW k \in Nat, k > 1, k > FieldLen(Len(f.data)),
           k < Header(p, Len(f.data)), ParserAt(w, p, f, k)
    PROVE  Advances(w, p, f, k, Bytes(p, f)[k + 1])
<1> DEFINE b == Bytes(p, f)[k + 1]
           n == Len(f.data)
           size == FieldLen(n)
           h == Header(p, n)
           now == Parsed(w, b)
           a == Advanced(now)
           j == k - size - 1
           y == [w EXCEPT !.key[j + 1] = b, !.keypos = j + 1]
<1>1. /\ n \in Nat /\ size \in {1, 3, 9} /\ h \in Nat
      /\ h = size + (IF p = "client" THEN 5 ELSE 1)
      /\ Len(Bytes(p, f)) = h + n
  BY Sizes
<1>2. p = "client" /\ h = size + 5 /\ j \in 0 .. 3 /\ j + 1 \in 1 .. 4
  <2>1. k \in Nat /\ k > size /\ k < h
    OBVIOUS
  <2> HIDE DEF n, size, h
  <2>2. p = "client"
    BY <1>1, <2>1
  <2> QED BY <1>1, <2>1, <2>2
<1>3. b = f.key[j + 1]
  <2>1. \A i \in 1 .. 4 : Bytes(p, f)[1 + size + i] = f.key[i]
    BY <1>2, BytesAre DEF HasParts
  <2>2. 1 + size + (j + 1) = k + 1
    BY <1>1
  <2> HIDE DEF j, size
  <2> QED BY <1>2, <2>1, <2>2
<1>4. f.key \in [1 .. 4 -> Byte] /\ b \in Byte
  <2>1. f.key \in [1 .. 4 -> Byte]
    BY FrameIs
  <2> HIDE DEF b, j
  <2> QED BY <1>2, <1>3, <2>1
<1>5. /\ w.step = "KEY" /\ w.length = n /\ w.keypos = j
      /\ \A i \in 1 .. j : w.key[i] = f.key[i]
      /\ w.frame_pos = k /\ w.opcode = f.opcode /\ w.inkey = 0
      /\ w.data = <<>> /\ w.mask = (p = "client")
  <2>1. k > 0 /\ k < h /\ k > 1 /\ k > size
    OBVIOUS
  <2>2. InKey(w, f, j) /\ w.frame_pos = k /\ w.opcode = f.opcode
        /\ w.inkey = 0 /\ w.data = <<>> /\ w.mask = (p = "client")
    BY <2>1 DEF ParserAt
  <2> QED BY <2>2 DEF InKey
<1>6. now = IF j + 1 < 4 THEN y ELSE [y EXCEPT !.step = "DATA", !.inkey = 0]
  <2>1. now = StepKey(w, b)
    BY <1>5 DEF Parsed
  <2> HIDE DEF j, b, n, size, h, now
  <2>2. [w EXCEPT !.key[w.keypos + 1] = b, !.keypos = @ + 1] = y
    BY <1>5
  <2>3. y.keypos = j + 1
    BY DEF WebSocketState
  <2> QED BY <2>1, <2>2, <2>3 DEF StepKey
<1> HIDE DEF j, b, n, size, h, now
<1>7. /\ y \in WebSocketState /\ y.step = "KEY" /\ y.length = n
      /\ y.keypos = j + 1 /\ y.frame_pos = k /\ y.opcode = f.opcode
      /\ y.inkey = 0 /\ y.data = <<>> /\ y.mask = (p = "client")
      /\ y.close_sent = w.close_sent
      /\ \A i \in 1 .. j + 1 : y.key[i] = f.key[i]
  <2>1. w.key \in [1 .. 4 -> Byte]
    BY DEF WebSocketState
  <2>2. y = [w EXCEPT !.key = [w.key EXCEPT ![j + 1] = b], !.keypos = j + 1]
    OBVIOUS
  <2>3. [w.key EXCEPT ![j + 1] = b] \in [1 .. 4 -> Byte]
    BY <1>2, <1>4, <2>1
  <2> HIDE DEF y
  <2>4. y \in WebSocketState
    <3> DEFINE key == [w.key EXCEPT ![j + 1] = b]
               m == j + 1
    <3>1. key \in [1 .. 4 -> Byte] /\ m \in 0 .. 4 /\ y = [w EXCEPT !.key = key, !.keypos = m]
      BY <1>2, <2>2, <2>3
    <3> HIDE DEF key, m
    <3> QED BY <3>1 DEF WebSocketState
  <2>5. y.key = [w.key EXCEPT ![j + 1] = b]
    BY <2>2 DEF WebSocketState
  <2>6. \A i \in 1 .. j + 1 : y.key[i] = f.key[i]
    BY <1>2, <1>3, <1>5, <2>1, <2>5
  <2>7. /\ y.step = "KEY" /\ y.length = n
        /\ y.keypos = j + 1 /\ y.frame_pos = k /\ y.opcode = f.opcode
        /\ y.inkey = 0 /\ y.data = <<>> /\ y.mask = (p = "client")
        /\ y.close_sent = w.close_sent
    BY <1>5, <2>2 DEF WebSocketState
  <2> QED BY <2>4, <2>6, <2>7
<1> HIDE DEF y
<1>8. CASE j + 1 < 4
  <2>1. now = y
    BY <1>6, <1>8
  <2>2. /\ a.step = "KEY" /\ a.length = n /\ a.keypos = j + 1
        /\ a.frame_pos = k + 1 /\ a.opcode = f.opcode /\ a.inkey = 0
        /\ a.data = <<>> /\ a.mask = (p = "client") /\ a.key = y.key
    BY <1>7, <2>1 DEF Advanced, WebSocketState
  <2> HIDE DEF a
  <2>3. k + 1 < h /\ k + 1 - size - 1 = j + 1
    BY <1>1, <1>2, <1>8 DEF j
  <2>4. InKey(a, f, j + 1)
    BY <1>7, <2>2 DEF InKey, n
  <2>5. ParserAt(a, p, f, k + 1)
    BY <1>1, <2>2, <2>3, <2>4 DEF ParserAt, n, size, h
  <2>6. ~ Complete(w.step, now) /\ k + 1 # Len(Bytes(p, f))
    BY <1>1, <1>7, <2>1, <2>3 DEF Complete
  <2> QED BY <1>7, <2>1, <2>5, <2>6 DEF Advances, a, now, b
<1>9. CASE ~ j + 1 < 4
  <2>1. now = [y EXCEPT !.step = "DATA", !.inkey = 0]
    BY <1>6, <1>9
  <2>2. j + 1 = 4 /\ k + 1 = h
    BY <1>1, <1>2, <1>9 DEF j
  <2>3. /\ now \in WebSocketState /\ now.close_sent = w.close_sent
        /\ now.step = "DATA" /\ now.length = n /\ now.frame_pos = k
        /\ now.opcode = f.opcode /\ now.inkey = 0 /\ now.data = <<>>
        /\ now.mask = (p = "client") /\ now.key = y.key
    <3>1. y \in WebSocketState
      BY <1>7
    <3>2. now \in WebSocketState
      BY <2>1, <3>1 DEF WebSocketState
    <3>3. /\ now.step = "DATA" /\ now.inkey = 0 /\ now.length = y.length
          /\ now.frame_pos = y.frame_pos /\ now.opcode = y.opcode /\ now.data = y.data
          /\ now.mask = y.mask /\ now.key = y.key /\ now.close_sent = y.close_sent
      BY <2>1, <3>1 DEF WebSocketState
    <3> QED BY <1>7, <3>2, <3>3
  <2>4. /\ a.step = "DATA" /\ a.length = n /\ a.frame_pos = k + 1
        /\ a.opcode = f.opcode /\ a.inkey = 0 /\ a.data = <<>>
        /\ a.mask = (p = "client") /\ a.key = y.key
    BY <2>3 DEF Advanced, WebSocketState
  <2>5. y.key = f.key
    <3>1. y.key \in [1 .. 4 -> Byte]
      BY <1>7 DEF WebSocketState
    <3>2. \A i \in 1 .. 4 : y.key[i] = f.key[i]
      BY <1>7, <2>2
    <3> QED BY <1>4, <3>1, <3>2
  <2> HIDE DEF a
  <2>6. InData(a, p, f, 0)
    BY <1>1, <2>4, <2>5 DEF InData, n
  <2>7. k + 1 - h = 0 /\ k + 1 > size /\ ~ k + 1 < h /\ k + 1 >= h
    BY <1>1, <1>2, <2>2
  <2>8. ParserAt(a, p, f, k + 1)
    BY <1>1, <2>4, <2>6, <2>7 DEF ParserAt, n, size, h
  <2>9. Complete(w.step, now) <=> k + 1 = Len(Bytes(p, f))
    BY <1>1, <1>5, <2>2, <2>3 DEF Complete
  <2> QED BY <2>3, <2>8, <2>9 DEF Advances, a, now, b
<1> QED BY <1>8, <1>9
\* A byte of the data.
LEMMA DataAdvances ==
    ASSUME NEW w \in WebSocketState, NEW p \in Ends, NEW f, IsFrame(f),
           NEW k \in Nat, k >= Header(p, Len(f.data)), k < Len(Bytes(p, f)),
           ParserAt(w, p, f, k)
    PROVE  Advances(w, p, f, k, Bytes(p, f)[k + 1])
<1> DEFINE b == Bytes(p, f)[k + 1]
           n == Len(f.data)
           size == FieldLen(n)
           h == Header(p, n)
           now == Parsed(w, b)
           a == Advanced(now)
           j == k - h
           x == f.data[j + 1]
<1>1. /\ n \in Nat /\ size \in {1, 3, 9} /\ h \in Nat
      /\ h = size + (IF p = "client" THEN 5 ELSE 1)
      /\ Len(Bytes(p, f)) = h + n
  BY Sizes
<1>2. /\ j \in 0 .. n - 1 /\ j \in Nat /\ j + 1 \in 1 .. n /\ h + (j + 1) = k + 1
      /\ k > 1 /\ k > size /\ k >= h /\ k \in Nat
  <2>1. k >= h /\ k < Len(Bytes(p, f))
    OBVIOUS
  <2> HIDE DEF n, size, h
  <2> QED BY <1>1, <2>1
<1>3. b = IF p = "client" THEN Xor(x, KeyByte(f.key, j + 1)) ELSE x
  <2>1. \A i \in 1 .. n :
           Bytes(p, f)[h + i] = IF p = "client" THEN Xor(f.data[i], KeyByte(f.key, i))
                                ELSE f.data[i]
    BY BytesAre DEF HasParts
  <2> HIDE DEF j, h, n
  <2> QED BY <1>2, <2>1
<1>4. x \in Byte
  <2>1. f.data \in Seq(Byte)
    BY FrameIs
  <2> HIDE DEF j
  <2> QED BY <1>2, <2>1, ElementOfSeq
<1>5. /\ w.step = "DATA" /\ w.length = n - j /\ w.inkey = j
      /\ p = "client" => w.key = f.key
      /\ w.data = (IF j = 0 THEN <<>> ELSE Filled(f.data, j))
      /\ w.frame_pos = k /\ w.opcode = f.opcode /\ w.mask = (p = "client")
  <2>1. InData(w, p, f, j) /\ w.frame_pos = k /\ w.opcode = f.opcode
        /\ w.mask = (p = "client")
    BY <1>2 DEF ParserAt
  <2> QED BY <2>1 DEF InData
<1>6. Unmasked(w, b) = x
  <2>1. CASE p = "client"
    <3>1. KeyByte(f.key, j + 1) \in Byte
      <4>1. f.key \in [1 .. 4 -> Byte]
        BY FrameIs
      <4> HIDE DEF j
      <4> QED BY <1>2, <4>1, KeyByteIs
    <3>2. Xor(Xor(x, KeyByte(f.key, j + 1)), KeyByte(f.key, j + 1)) = x
      BY <1>4, <3>1, XorTwice
    <3> HIDE DEF j, x, b, n, h
    <3>3. w.mask = TRUE /\ w.inkey = j /\ w.key = f.key
      BY <1>5, <2>1
    <3> QED BY <1>3, <2>1, <3>2, <3>3 DEF Unmasked
  <2>2. CASE p # "client"
    <3>1. w.mask = FALSE /\ b = x
      BY <1>3, <1>5, <2>2
    <3> HIDE DEF x, b
    <3> QED BY <3>1 DEF Unmasked
  <2> QED BY <2>1, <2>2
<1>7. Allocated(w) = Filled(f.data, j)
  <2>1. CASE j = 0
    <3>1. w.data = <<>> /\ w.length = n
      BY <1>1, <1>5, <2>1
    <3>2. Allocated(w) = [i \in 1 .. n + 1 |-> 0]
      BY <3>1 DEF Allocated
    <3>3. Filled(f.data, j) = [i \in 1 .. n + 1 |-> 0]
      <4> HIDE DEF j
      <4>1. \A i \in 1 .. n + 1 : ~ i <= j
        BY <1>1, <2>1
      <4>2. Filled(f.data, j) = [i \in 1 .. n + 1 |-> IF i <= j THEN f.data[i] ELSE 0]
        BY DEF Filled
      <4> QED BY <4>1, <4>2
    <3> QED BY <3>2, <3>3
  <2>2. CASE j # 0
    <3>1. w.data = Filled(f.data, j)
      BY <1>5, <2>2
    <3>2. Filled(f.data, j) # <<>>
      <4>1. DOMAIN Filled(f.data, j) = 1 .. n + 1 /\ 1 \in 1 .. n + 1
        BY <1>1 DEF Filled
      <4>2. DOMAIN <<>> = {}
        OBVIOUS
      <4> QED BY <4>1, <4>2
    <3> QED BY <3>1, <3>2 DEF Allocated
  <2> QED BY <2>1, <2>2
<1>8. [Filled(f.data, j) EXCEPT ![j + 1] = x] = Filled(f.data, j + 1)
  <2> HIDE DEF j, n
  <2> DEFINE u == Filled(f.data, j)
             v == Filled(f.data, j + 1)
  <2>1. /\ u = [i \in 1 .. n + 1 |-> IF i <= j THEN f.data[i] ELSE 0]
        /\ v = [i \in 1 .. n + 1 |-> IF i <= j + 1 THEN f.data[i] ELSE 0]
    BY DEF Filled, n
  <2> HIDE DEF u, v
  <2>2. \A i \in 1 .. n + 1 : i # j + 1 => (i <= j <=> i <= j + 1)
    BY <1>1, <1>2
  <2>3. ASSUME NEW i \in 1 .. n + 1 PROVE [u EXCEPT ![j + 1] = x][i] = v[i]
    <3>1. CASE i = j + 1
      <4>1. j + 1 \in 1 .. n + 1 /\ j + 1 <= j + 1
        BY <1>1, <1>2
      <4> QED BY <2>1, <3>1, <4>1
    <3>2. CASE i # j + 1
      <4>1. v[i] = u[i]
        BY <2>1, <2>2, <3>2
      <4> QED BY <2>1, <3>2, <4>1
    <3> QED BY <3>1, <3>2
  <2>4. v = [i \in 1 .. n + 1 |-> v[i]]
    BY <2>1
  <2>5. [u EXCEPT ![j + 1] = x] = [i \in 1 .. n + 1 |-> [u EXCEPT ![j + 1] = x][i]]
    BY <2>1
  <2>6. [u EXCEPT ![j + 1] = x] = v
    BY <2>3, <2>4, <2>5
  <2> QED BY <2>6 DEF u, v
<1>9. Filled(f.data, j + 1) \in Seq(Byte) /\ Filled(f.data, j + 1) # <<>>
  <2> HIDE DEF j, n
  <2>1. \A i \in 1 .. n + 1 : i <= j + 1 => f.data[i] \in Byte
    <3>1. f.data \in Seq(Byte)
      BY FrameIs
    <3>2. \A i \in 1 .. n : f.data[i] \in Byte
      BY <3>1, ElementOfSeq DEF n
    <3> QED BY <1>1, <1>2, <3>2
  <2>2. 0 \in Byte
    BY DEF Byte
  <2>3. Filled(f.data, j + 1) \in [1 .. n + 1 -> Byte]
    BY <2>1, <2>2 DEF Filled, n
  <2>4. n + 1 \in Nat /\ n + 1 # 0
    BY <1>1
  <2>5. Filled(f.data, j + 1) \in Seq(Byte) /\ Len(Filled(f.data, j + 1)) = n + 1
    BY <2>3, <2>4, FunctionIsSeq
  <2> QED BY <2>4, <2>5, EmptySeq
<1>10. now = [w EXCEPT !.data = Filled(f.data, j + 1), !.inkey = j + 1,
                       !.length = n - (j + 1)]
  <2>1. now = StepData(w, b)
    BY <1>5 DEF Parsed
  <2> HIDE DEF now, j, n, x, b
  <2>2. [Allocated(w) EXCEPT ![w.inkey + 1] = Unmasked(w, b)] = Filled(f.data, j + 1)
    BY <1>5, <1>6, <1>7, <1>8
  <2>3. w.inkey + 1 = j + 1 /\ w.length - 1 = n - (j + 1)
    BY <1>1, <1>2, <1>5
  <2> QED BY <2>1, <2>2, <2>3 DEF StepData
<1> HIDE DEF j, n, size, h, x, b, now
<1>11. /\ now \in WebSocketState /\ now.close_sent = w.close_sent
       /\ now.step = "DATA" /\ now.length = n - (j + 1) /\ now.inkey = j + 1
       /\ now.data = Filled(f.data, j + 1) /\ now.key = w.key
       /\ now.frame_pos = k /\ now.opcode = f.opcode /\ now.mask = (p = "client")
  <2> DEFINE u == Filled(f.data, j + 1)
             m == j + 1
             r == n - (j + 1)
  <2>1. /\ u \in Seq(Byte) /\ m \in Nat /\ r \in Nat
        /\ now = [w EXCEPT !.data = u, !.inkey = m, !.length = r]
    BY <1>1, <1>2, <1>9, <1>10
  <2> HIDE DEF u, m, r
  <2>2. now \in WebSocketState
    BY <2>1 DEF WebSocketState
  <2>3. /\ now.close_sent = w.close_sent /\ now.step = "DATA" /\ now.length = r
        /\ now.inkey = m /\ now.data = u /\ now.key = w.key
        /\ now.frame_pos = k /\ now.opcode = f.opcode /\ now.mask = (p = "client")
    BY <1>5, <2>1 DEF WebSocketState
  <2> QED BY <2>2, <2>3 DEF u, m, r
<1>12. /\ a.step = "DATA" /\ a.length = n - (j + 1) /\ a.inkey = j + 1
       /\ a.data = Filled(f.data, j + 1) /\ a.key = w.key
       /\ a.frame_pos = k + 1 /\ a.opcode = f.opcode /\ a.mask = (p = "client")
  BY <1>11 DEF Advanced, WebSocketState
<1> HIDE DEF a
<1>13. InData(a, p, f, j + 1)
  <2>1. j + 1 # 0
    BY <1>2
  <2> QED BY <1>5, <1>12, <2>1 DEF InData, n
<1>14. (k + 1) - h = j + 1
  BY <1>1, <1>2
<1>15. ParserAt(a, p, f, k + 1)
  <2> SUFFICES ASSUME NEW m, m = k + 1
               PROVE  ParserAt(a, p, f, m)
    OBVIOUS
  <2>1. /\ m # 0 /\ m # 1 /\ m > 0 /\ m > 1
        /\ ~ m < h /\ ~ m <= size /\ m >= h
    BY <1>1, <1>2
  <2>2. m - h = j + 1
    BY <1>14
  <2>3. InData(a, p, f, m - h)
    BY <1>13, <2>2
  <2>4. a.frame_pos = m /\ a.opcode = f.opcode /\ a.mask = (p = "client")
    BY <1>12
  <2> QED BY <2>1, <2>3, <2>4 DEF ParserAt, n, size, h
<1>16. Complete(w.step, now) <=> k + 1 = Len(Bytes(p, f))
  <2>1. Complete(w.step, now) <=> n - (j + 1) = 0
    BY <1>5, <1>11 DEF Complete
  <2>2. n - (j + 1) = 0 <=> k + 1 = h + n
    BY <1>1, <1>2
  <2> QED BY <1>1, <2>1, <2>2
<1> QED BY <1>11, <1>15, <1>16 DEF Advances, a, now, b

\* Any byte of a frame.
LEMMA ParserAdvances ==
    ASSUME NEW w \in WebSocketState, NEW p \in Ends, NEW f, IsFrame(f),
           NEW k \in Nat, k < Len(Bytes(p, f)), ParserAt(w, p, f, k)
    PROVE  Advances(w, p, f, k, Bytes(p, f)[k + 1])
<1> DEFINE n == Len(f.data)
           size == FieldLen(n)
           h == Header(p, n)
<1>1. size \in {1, 3, 9} /\ h \in Nat
  BY Sizes
<1>2. CASE k = 0
  <2>1. k + 1 = 1
    BY <1>2
  <2> QED BY <1>2, <2>1, StartAdvances
<1>3. CASE k = 1
  <2>1. k + 1 = 2
    BY <1>3
  <2> QED BY <1>3, <2>1, LengthAdvances
<1>4. CASE k > 1 /\ k <= size
  <2>1. k \in 2 .. size
    BY <1>1, <1>4
  <2> QED BY <2>1, FieldAdvances
<1>5. CASE k > 1 /\ k > size /\ k < h
  BY <1>5, KeyAdvances
<1>6. CASE k >= h
  BY <1>6, DataAdvances
<1> HIDE DEF n, size, h
<1> QED BY <1>1, <1>2, <1>3, <1>4, <1>5, <1>6

-----------------------------------------------------------------------------
(* A direction of the connection: the frames fs of p, the bytes wr they    *)
(* are on the wire, n of them parsed, the parser's state w, and what       *)
(* on_frame was given.                                                     *)

\* Where the c-th frame starts on the wire.
StartOf(fs, c) == IF c = 1 THEN 0 ELSE fs[c - 1].to

\* The wire holds the frames, one behind the other.
WireOK(p, fs, wr) ==
    /\ fs \in Seq(FrameSet) /\ wr \in Seq(Byte)
    /\ StartOf(fs, Len(fs) + 1) = Len(wr)
    /\ \A c \in 1 .. Len(fs) :
          /\ fs[c].to = StartOf(fs, c) + Len(Bytes(p, fs[c]))
          /\ \A i \in 1 .. Len(Bytes(p, fs[c])) :
                wr[StartOf(fs, c) + i] = Bytes(p, fs[c])[i]
    /\ \A c, d \in 1 .. Len(fs) : c < d => fs[c].to < fs[d].to

\* The next byte is of the c-th frame, and the parser is where it is.
AtFrame(p, fs, n, w, c) ==
    /\ c \in 1 .. Len(fs) + 1 /\ StartOf(fs, c) <= n
    /\ c <= Len(fs) => n < fs[c].to /\ ParserAt(w, p, fs[c], n - StartOf(fs, c))
    /\ c = Len(fs) + 1 => AtStart(w)

\* The messages among the frames parsed.
MessagesTo(fs, n) ==
    {c \in 1 .. Len(fs) : fs[c].to <= n /\ fs[c].opcode \in {Text, Binary}}
UpTo(S, c) == {d \in S : d <= c}

\* on_frame was given them.
GotOK(fs, n, g) ==
    /\ g \in Seq([opcode : 0 .. 15, data : Seq(Byte)])
    /\ Len(g) = Cardinality(MessagesTo(fs, n))
    /\ \A c \in MessagesTo(fs, n) :
          g[Cardinality(UpTo(MessagesTo(fs, n), c))] =
              [opcode |-> fs[c].opcode, data |-> fs[c].data]

Link(p, fs, wr, n, w, g) ==
    /\ WireOK(p, fs, wr)
    /\ n \in 0 .. Len(wr)
    /\ \E c : AtFrame(p, fs, n, w, c)
    /\ GotOK(fs, n, g)

\* Of a frame on the wire: it is one, it ends behind its start, and no later
\* than the wire.
LEMMA FrameOnWire ==
    ASSUME NEW p \in Ends, NEW fs, NEW wr, WireOK(p, fs, wr),
           NEW c \in 1 .. Len(fs)
    PROVE  /\ IsFrame(fs[c]) /\ Len(fs) \in Nat /\ Len(wr) \in Nat
           /\ fs[c].to \in Nat /\ StartOf(fs, c) \in Nat
           /\ Len(Bytes(p, fs[c])) \in Nat /\ Len(Bytes(p, fs[c])) > 1
           /\ fs[c].to = StartOf(fs, c) + Len(Bytes(p, fs[c]))
           /\ fs[c].to <= Len(wr)
<1>1. Len(fs) \in Nat /\ Len(wr) \in Nat
  BY LenProperties DEF WireOK
<1>2. \A d \in 1 .. Len(fs) : IsFrame(fs[d])
  <2>1. fs \in Seq(FrameSet)
    BY DEF WireOK
  <2> QED BY <2>1, ElementOfSeq DEF IsFrame
<1>3. \A d \in 1 .. Len(fs) : fs[d].to \in Nat
  BY <1>2, FrameIs
<1>4. StartOf(fs, c) \in Nat
  <2>1. c # 1 => c - 1 \in 1 .. Len(fs)
    BY <1>1
  <2> QED BY <1>3, <2>1 DEF StartOf
<1>5. Len(Bytes(p, fs[c])) \in Nat /\ Len(Bytes(p, fs[c])) > 1
  <2>1. IsFrame(fs[c])
    BY <1>2
  <2> DEFINE n == Len(fs[c].data)
  <2>2. /\ n \in Nat /\ FieldLen(n) \in {1, 3, 9} /\ Header(p, n) \in Nat
        /\ Header(p, n) = FieldLen(n) + (IF p = "client" THEN 5 ELSE 1)
        /\ Len(Bytes(p, fs[c])) = Header(p, n) + n
    BY <2>1, Sizes
  <2> HIDE DEF n
  <2> QED BY <2>2
<1>6. fs[c].to = StartOf(fs, c) + Len(Bytes(p, fs[c]))
  BY DEF WireOK
<1>7. fs[c].to <= Len(wr)
  <2>1. fs[Len(fs)].to = Len(wr)
    <3>1. Len(fs) + 1 # 1 /\ (Len(fs) + 1) - 1 = Len(fs)
      BY <1>1
    <3> QED BY <3>1 DEF WireOK, StartOf
  <2>2. CASE c = Len(fs)
    BY <1>3, <1>1, <2>1, <2>2
  <2>3. CASE c # Len(fs)
    <3>1. c < Len(fs) /\ Len(fs) \in 1 .. Len(fs)
      BY <1>1, <2>3
    <3>2. fs[c].to < fs[Len(fs)].to
      BY <3>1 DEF WireOK
    <3> QED BY <1>1, <1>3, <2>1, <3>2
  <2> QED BY <2>2, <2>3
<1> QED BY <1>1, <1>2, <1>3, <1>4, <1>5, <1>6, <1>7

\* When the next byte is of the c-th frame, the ones before it were parsed.
LEMMA Before ==
    ASSUME NEW p \in Ends, NEW fs, NEW wr, WireOK(p, fs, wr), NEW n \in Nat,
           NEW w, NEW c, AtFrame(p, fs, n, w, c)
    PROVE  \A d \in 1 .. Len(fs) : fs[d].to <= n <=> d < c
<1> SUFFICES ASSUME NEW d \in 1 .. Len(fs)
             PROVE  fs[d].to <= n <=> d < c
  OBVIOUS
<1>1. fs[d].to \in Nat /\ Len(fs) \in Nat
  BY FrameOnWire
<1>2. c \in 1 .. Len(fs) + 1 /\ StartOf(fs, c) <= n
  BY DEF AtFrame
<1>3. CASE d < c
  <2>1. c # 1 /\ c - 1 \in 1 .. Len(fs) /\ d <= c - 1
    BY <1>1, <1>2, <1>3
  <2>2. fs[c - 1].to <= n /\ fs[c - 1].to \in Nat
    BY <1>2, <2>1, FrameOnWire DEF StartOf
  <2>3. fs[d].to <= fs[c - 1].to
    <3>1. CASE d = c - 1
      BY <1>1, <3>1
    <3>2. CASE d # c - 1
      <4>1. d < c - 1
        BY <1>1, <1>2, <2>1, <3>2
      <4>2. fs[d].to < fs[c - 1].to
        BY <2>1, <4>1 DEF WireOK
      <4> QED BY <1>1, <2>2, <4>2
    <3> QED BY <3>1, <3>2
  <2> QED BY <1>1, <1>3, <2>2, <2>3
<1>4. CASE ~ d < c
  <2>1. c <= Len(fs) /\ c \in 1 .. Len(fs)
    BY <1>1, <1>2, <1>4
  <2>2. n < fs[c].to /\ fs[c].to \in Nat
    BY <2>1, FrameOnWire DEF AtFrame
  <2>3. fs[c].to <= fs[d].to
    <3>1. CASE d = c
      BY <1>1, <3>1
    <3>2. CASE d # c
      <4>1. c < d
        BY <1>1, <1>2, <1>4, <3>2
      <4>2. fs[c].to < fs[d].to
        BY <2>1, <4>1 DEF WireOK
      <4> QED BY <1>1, <2>2, <4>2
    <3> QED BY <3>1, <3>2
  <2> QED BY <1>1, <1>4, <2>2, <2>3
<1> QED BY <1>3, <1>4

\* close_sent is not the parser's.
LEMMA CloseSentAside ==
    ASSUME NEW p \in Ends, NEW fs, NEW wr, NEW n, NEW g, NEW w, NEW v,
           Link(p, fs, wr, n, w, g),
           /\ v.step = w.step /\ v.opcode = w.opcode /\ v.mask = w.mask
           /\ v.length = w.length /\ v.payload = w.payload
           /\ v.frame_pos = w.frame_pos /\ v.key = w.key /\ v.keypos = w.keypos
           /\ v.data = w.data /\ v.inkey = w.inkey
    PROVE  Link(p, fs, wr, n, v, g)
<1>1. AtStart(w) => AtStart(v)
  BY DEF AtStart
<1>2. ASSUME NEW f, NEW k, ParserAt(w, p, f, k) PROVE ParserAt(v, p, f, k)
  <2>1. \A m, size, j : InField(w, m, size, j) => InField(v, m, size, j)
    BY DEF InField
  <2>2. \A j : InKey(w, f, j) => InKey(v, f, j)
    BY DEF InKey
  <2>3. \A j : InData(w, p, f, j) => InData(v, p, f, j)
    BY DEF InData
  <2> QED BY <1>1, <1>2, <2>1, <2>2, <2>3 DEF ParserAt
<1>3. \A c : AtFrame(p, fs, n, w, c) => AtFrame(p, fs, n, v, c)
  BY <1>1, <1>2 DEF AtFrame
<1> QED BY <1>3 DEF Link

\* What on_frame was given is right as long as no message arrives.
LEMMA GotStays ==
    ASSUME NEW fs, NEW n, NEW g, GotOK(fs, n, g), NEW hs, NEW m,
           MessagesTo(hs, m) = MessagesTo(fs, n),
           \A c \in MessagesTo(fs, n) : hs[c] = fs[c]
    PROVE  GotOK(hs, m, g)
  BY DEF GotOK

\* The messages parsed are finitely many.
LEMMA MessagesFinite ==
    ASSUME NEW fs \in Seq(FrameSet), NEW n, NEW S \in SUBSET MessagesTo(fs, n)
    PROVE  IsFiniteSet(S) /\ Cardinality(S) \in Nat
<1>1. Len(fs) \in Nat
  BY LenProperties
<1>2. IsFiniteSet(1 .. Len(fs))
  BY <1>1, FS_Interval
<1>3. S \in SUBSET (1 .. Len(fs))
  BY DEF MessagesTo
<1>4. IsFiniteSet(S)
  BY <1>2, <1>3, FS_Subset
<1> QED BY <1>4, FS_CardinalityType

\* The message that arrives is the last of them.
LEMMA GotGrows ==
    ASSUME NEW fs \in Seq(FrameSet), NEW n \in Nat, NEW g, GotOK(fs, n, g),
           NEW c \in 1 .. Len(fs),
           MessagesTo(fs, n + 1) = MessagesTo(fs, n) \union {c},
           \A d \in MessagesTo(fs, n) : d < c,
           NEW x, x = [opcode |-> fs[c].opcode, data |-> fs[c].data]
    PROVE  GotOK(fs, n + 1, Append(g, x))
<1> DEFINE M == MessagesTo(fs, n)
           N == MessagesTo(fs, n + 1)
           G == [opcode : 0 .. 15, data : Seq(Byte)]
           h == Append(g, x)
<1>1. x \in G
  <2>1. IsFrame(fs[c])
    BY ElementOfSeq DEF IsFrame
  <2>2. fs[c].opcode \in 0 .. 15 /\ fs[c].data \in Seq(Byte)
    BY <2>1, FrameIs
  <2> QED BY <2>2
<1>2. /\ g \in Seq(G) /\ Len(g) = Cardinality(M)
      /\ \A d \in M : g[Cardinality(UpTo(M, d))] =
                         [opcode |-> fs[d].opcode, data |-> fs[d].data]
  BY DEF GotOK
<1>3. \A S \in SUBSET M : IsFiniteSet(S) /\ Cardinality(S) \in Nat
  BY MessagesFinite
<1>4. M \subseteq 1 .. Len(fs) /\ Len(fs) \in Nat /\ c \in Nat
  <2>1. Len(fs) \in Nat
    BY LenProperties
  <2> QED BY <2>1 DEF MessagesTo
<1>5. c \notin M
  BY <1>4
<1>6. Cardinality(N) = Cardinality(M) + 1
  <2>1. IsFiniteSet(M)
    BY <1>3
  <2>2. Cardinality(M \union {c}) = Cardinality(M) + 1
    BY <1>5, <2>1, FS_AddElement
  <2> QED BY <2>2
<1> HIDE DEF G
<1>7. /\ h \in Seq(G) /\ Len(h) = Len(g) + 1 /\ h[Len(g) + 1] = x
      /\ \A i \in 1 .. Len(g) : h[i] = g[i]
  BY <1>1, <1>2, AppendProperties
<1> HIDE DEF h, M, N
<1>8. ASSUME NEW d \in M
      PROVE  h[Cardinality(UpTo(N, d))] = [opcode |-> fs[d].opcode, data |-> fs[d].data]
  <2>1. UpTo(N, d) = UpTo(M, d)
    <3>1. ~ c <= d
      BY <1>4 DEF M
    <3>2. N = M \union {c}
      BY DEF M, N
    <3> QED BY <3>1, <3>2 DEF UpTo
  <2>2. Cardinality(UpTo(M, d)) \in 1 .. Len(g)
    <3>1. UpTo(M, d) \in SUBSET M /\ d \in UpTo(M, d)
      BY <1>4 DEF UpTo
    <3>2. Cardinality(UpTo(M, d)) <= Cardinality(M)
      <4>1. IsFiniteSet(M)
        BY <1>3
      <4> QED BY <3>1, <4>1, FS_Subset
    <3>3. Cardinality(UpTo(M, d)) # 0
      <4>1. IsFiniteSet(UpTo(M, d)) /\ UpTo(M, d) # {}
        BY <1>3, <3>1
      <4> QED BY <4>1, FS_EmptySet
    <3>4. Cardinality(UpTo(M, d)) \in Nat /\ Cardinality(M) \in Nat
      BY <1>3, <3>1
    <3> QED BY <1>2, <3>2, <3>3, <3>4
  <2> QED BY <1>2, <1>7, <2>1, <2>2
<1>9. h[Cardinality(UpTo(N, c))] = x
  <2>1. N = M \union {c} /\ \A d \in M : d < c
    BY DEF M, N
  <2>2. \A d \in N : d <= c
    <3>1. \A d \in M : d \in Nat
      BY <1>4
    <3> QED BY <1>4, <2>1, <3>1
  <2>3. UpTo(N, c) = N
    BY <2>2 DEF UpTo
  <2> QED BY <1>2, <1>6, <1>7, <2>3
<1>10. \A d \in N : h[Cardinality(UpTo(N, d))] =
                        [opcode |-> fs[d].opcode, data |-> fs[d].data]
  <2>1. N = M \union {c}
    BY DEF M, N
  <2> QED BY <1>8, <1>9, <2>1
<1>11. Len(h) = Cardinality(N)
  BY <1>2, <1>6, <1>7
<1> QED BY <1>7, <1>10, <1>11 DEF GotOK, h, N, G

\* A frame written goes behind the others, and what was parsed stays parsed.
LEMMA LinkPut ==
    ASSUME NEW p \in Ends, NEW fs, NEW wr, NEW n, NEW w, NEW g,
           Link(p, fs, wr, n, w, g),
           NEW f, IsFrame(f), f.to = Len(wr) + Len(Bytes(p, f))
    PROVE  Link(p, Append(fs, f), wr \o Bytes(p, f), n, w, g)
<1> DEFINE hs == Append(fs, f)
           b == Bytes(p, f)
           vr == wr \o b
           L == Len(fs)
<1>1. /\ WireOK(p, fs, wr) /\ fs \in Seq(FrameSet) /\ wr \in Seq(Byte)
      /\ L \in Nat /\ Len(wr) \in Nat
  <2>1. WireOK(p, fs, wr)
    BY DEF Link
  <2>2. fs \in Seq(FrameSet) /\ wr \in Seq(Byte)
    BY <2>1 DEF WireOK
  <2> QED BY <2>1, <2>2, LenProperties
<1>2. b \in Seq(Byte) /\ Len(b) \in Nat /\ Len(b) > 1
  <2> DEFINE m == Len(f.data)
  <2>1. /\ m \in Nat /\ FieldLen(m) \in {1, 3, 9} /\ Header(p, m) \in Nat
        /\ Header(p, m) = FieldLen(m) + (IF p = "client" THEN 5 ELSE 1)
        /\ b \in Seq(Byte) /\ Len(b) = Header(p, m) + m
    BY Sizes
  <2> HIDE DEF m, b
  <2> QED BY <2>1
<1>3. /\ hs \in Seq(FrameSet) /\ Len(hs) = L + 1 /\ hs[L + 1] = f
      /\ \A c \in 1 .. L : hs[c] = fs[c]
  <2>1. f \in FrameSet
    BY DEF IsFrame
  <2> QED BY <1>1, <2>1, AppendProperties
<1> HIDE DEF b
<1>4. /\ vr \in Seq(Byte) /\ Len(vr) = Len(wr) + Len(b)
      /\ \A i \in 1 .. Len(wr) : vr[i] = wr[i]
      /\ \A i \in 1 .. Len(b) : vr[Len(wr) + i] = b[i]
  BY <1>1, <1>2, ConcatIs
<1> HIDE DEF hs, vr, L
<1>5. \A c \in 1 .. L + 1 : StartOf(hs, c) = StartOf(fs, c)
  <2> SUFFICES ASSUME NEW c \in 1 .. L + 1
               PROVE  StartOf(hs, c) = StartOf(fs, c)
    OBVIOUS
  <2>1. CASE c = 1
    BY <2>1 DEF StartOf
  <2>2. CASE c # 1
    <3>1. c - 1 \in 1 .. L
      BY <1>1, <2>2
    <3> QED BY <1>3, <2>2, <3>1 DEF StartOf
  <2> QED BY <2>1, <2>2
<1>6. StartOf(fs, L + 1) = Len(wr)
  BY <1>1 DEF WireOK, L
<1>7. StartOf(hs, Len(hs) + 1) = Len(vr)
  <2>1. Len(hs) + 1 # 1 /\ (Len(hs) + 1) - 1 = L + 1
    BY <1>1, <1>3
  <2>2. StartOf(hs, Len(hs) + 1) = f.to
    BY <1>3, <2>1 DEF StartOf
  <2> QED BY <1>4, <2>2 DEF b
<1>8. ASSUME NEW c \in 1 .. L + 1
      PROVE  /\ hs[c].to = StartOf(hs, c) + Len(Bytes(p, hs[c]))
             /\ \A i \in 1 .. Len(Bytes(p, hs[c])) :
                   vr[StartOf(hs, c) + i] = Bytes(p, hs[c])[i]
  <2>1. CASE c = L + 1
    <3>1. hs[c] = f /\ StartOf(hs, c) = Len(wr)
      BY <1>3, <1>5, <1>6, <2>1
    <3> QED BY <1>4, <3>1 DEF b
  <2>2. CASE c # L + 1
    <3>1. c \in 1 .. L
      BY <1>1, <2>2
    <3> DEFINE s == StartOf(fs, c)
               q == Bytes(p, fs[c])
    <3>2. /\ hs[c] = fs[c] /\ StartOf(hs, c) = s
          /\ fs[c].to = s + Len(q) /\ \A i \in 1 .. Len(q) : wr[s + i] = q[i]
      BY <1>1, <1>3, <1>5, <3>1 DEF WireOK, L
    <3>3. /\ s \in Nat /\ Len(q) \in Nat /\ s + Len(q) <= Len(wr)
      BY <1>1, <3>1, <3>2, FrameOnWire DEF L
    <3>4. \A i \in 1 .. Len(q) : vr[s + i] = q[i]
      <4> HIDE DEF s, q
      <4>1. \A i \in 1 .. Len(q) : s + i \in 1 .. Len(wr)
        BY <1>1, <3>3
      <4> QED BY <1>4, <3>2, <4>1
    <3> QED BY <3>2, <3>4
  <2> QED BY <2>1, <2>2
<1>9. ASSUME NEW c \in 1 .. L + 1, NEW d \in 1 .. L + 1, c < d
      PROVE  hs[c].to < hs[d].to
  <2>1. c \in 1 .. L
    BY <1>1, <1>9
  <2>2. hs[c] = fs[c] /\ fs[c].to <= Len(wr) /\ fs[c].to \in Nat
    BY <1>1, <1>3, <2>1, FrameOnWire DEF L
  <2>3. CASE d = L + 1
    <3>1. hs[d] = f /\ f.to = Len(wr) + Len(b)
      BY <1>3, <2>3 DEF b
    <3> QED BY <1>1, <1>2, <2>2, <3>1
  <2>4. CASE d # L + 1
    <3>1. d \in 1 .. L
      BY <1>1, <2>4
    <3>2. fs[c].to < fs[d].to /\ hs[d] = fs[d]
      BY <1>1, <1>3, <1>9, <2>1, <3>1 DEF WireOK, L
    <3> QED BY <2>2, <3>2
  <2> QED BY <2>3, <2>4
<1>10. WireOK(p, hs, vr)
  <2>1. 1 .. Len(hs) = 1 .. L + 1
    BY <1>3
  <2> QED BY <1>3, <1>4, <1>7, <1>8, <1>9, <2>1 DEF WireOK
<1>11. n \in 0 .. Len(wr) /\ n \in Nat /\ n \in 0 .. Len(vr)
  <2>1. n \in 0 .. Len(wr)
    BY DEF Link
  <2> QED BY <1>1, <1>2, <1>4, <2>1
<1>12. \E c : AtFrame(p, hs, n, w, c)
  <2>1. PICK c : AtFrame(p, fs, n, w, c)
    BY DEF Link
  <2>2. c \in 1 .. L + 1 /\ StartOf(fs, c) <= n
    BY <2>1 DEF AtFrame, L
  <2>3. c \in 1 .. Len(hs) + 1 /\ StartOf(hs, c) <= n /\ c # Len(hs) + 1
    BY <1>1, <1>3, <1>5, <2>2
  <2>4. n < hs[c].to /\ ParserAt(w, p, hs[c], n - StartOf(hs, c))
    <3>1. CASE c = L + 1
      <4>1. AtStart(w)
        BY <2>1, <3>1 DEF AtFrame, L
      <4>2. hs[c] = f /\ StartOf(hs, c) = Len(wr) /\ n = Len(wr)
        BY <1>1, <1>3, <1>5, <1>6, <1>11, <2>2, <3>1
      <4>3. n < f.to /\ n - Len(wr) = 0
        BY <1>1, <1>2, <4>2 DEF b
      <4>4. ParserAt(w, p, f, 0)
        <5>1. Header(p, Len(f.data)) \in Nat /\ Header(p, Len(f.data)) > 1
          BY Sizes
        <5> QED BY <4>1, <5>1 DEF ParserAt, AtStart
      <4> QED BY <4>2, <4>3, <4>4
    <3>2. CASE c # L + 1
      <4>1. c \in 1 .. L /\ c <= L
        BY <1>1, <2>2, <3>2
      <4>2. n < fs[c].to /\ ParserAt(w, p, fs[c], n - StartOf(fs, c))
        BY <2>1, <4>1 DEF AtFrame, L
      <4>3. hs[c] = fs[c] /\ StartOf(hs, c) = StartOf(fs, c)
        BY <1>3, <1>5, <2>2, <4>1
      <4> QED BY <4>2, <4>3
    <3> QED BY <3>1, <3>2
  <2>5. AtFrame(p, hs, n, w, c)
    BY <2>3, <2>4 DEF AtFrame
  <2> QED BY <2>5
<1>13. GotOK(hs, n, g)
  <2>1. ~ hs[L + 1].to <= n
    <3>1. hs[L + 1].to = Len(wr) + Len(b)
      BY <1>3 DEF b
    <3> QED BY <1>1, <1>2, <1>11, <3>1
  <2>2. 1 .. Len(hs) = 1 .. L \union {L + 1}
    BY <1>1, <1>3
  <2>3. MessagesTo(hs, n) = MessagesTo(fs, n)
    BY <1>3, <2>1, <2>2 DEF MessagesTo, L
  <2>4. \A c \in MessagesTo(fs, n) : hs[c] = fs[c]
    BY <1>3 DEF MessagesTo, L
  <2>5. GotOK(fs, n, g)
    BY DEF Link
  <2> QED BY <2>3, <2>4, <2>5, GotStays
<1>14. Link(p, hs, vr, n, w, g)
  BY <1>10, <1>11, <1>12, <1>13 DEF Link
<1> QED BY <1>14 DEF hs, vr, b

\* The next byte is one of a frame, and the parser advances with it.
LEMMA NextByte ==
    ASSUME NEW p \in Ends, NEW fs, NEW wr, NEW n, NEW w \in WebSocketState, NEW g,
           Link(p, fs, wr, n, w, g), n < Len(wr)
    PROVE  \E c \in 1 .. Len(fs) :
             LET k == n - StartOf(fs, c) IN
             /\ AtFrame(p, fs, n, w, c) /\ IsFrame(fs[c])
             /\ k \in Nat /\ k < Len(Bytes(p, fs[c]))
             /\ k + 1 = Len(Bytes(p, fs[c])) <=> n + 1 = fs[c].to
             /\ fs[c].to \in Nat /\ n + 1 <= fs[c].to /\ (n + 1) - StartOf(fs, c) = k + 1
             /\ Advances(w, p, fs[c], k, wr[n + 1])
<1>1. /\ WireOK(p, fs, wr) /\ n \in 0 .. Len(wr)
  BY DEF Link
<1>2. PICK c : AtFrame(p, fs, n, w, c)
  BY DEF Link
<1>3. Len(fs) \in Nat /\ Len(wr) \in Nat /\ n \in Nat
  <2>1. fs \in Seq(FrameSet) /\ wr \in Seq(Byte)
    BY <1>1 DEF WireOK
  <2> QED BY <1>1, <2>1, LenProperties
<1>4. c \in 1 .. Len(fs)
  <2>1. c \in 1 .. Len(fs) + 1 /\ StartOf(fs, c) <= n
    BY <1>2 DEF AtFrame
  <2>2. c # Len(fs) + 1
    <3>1. StartOf(fs, Len(fs) + 1) = Len(wr)
      BY <1>1 DEF WireOK
    <3> QED BY <1>3, <2>1, <3>1
  <2> QED BY <1>3, <2>1, <2>2
<1> DEFINE f == fs[c]
           s == StartOf(fs, c)
           k == n - s
           b == Bytes(p, f)
<1>5. /\ IsFrame(f) /\ f.to \in Nat /\ s \in Nat /\ Len(b) \in Nat
      /\ f.to = s + Len(b)
  BY <1>1, <1>4, FrameOnWire
<1>6. s <= n /\ n < f.to /\ ParserAt(w, p, f, k)
  <2>1. c <= Len(fs)
    BY <1>3, <1>4
  <2> QED BY <1>2, <2>1 DEF AtFrame
<1>7. \A i \in 1 .. Len(b) : wr[s + i] = b[i]
  BY <1>1, <1>4 DEF WireOK
<1> HIDE DEF f, s, b
<1>8. /\ k \in Nat /\ k < Len(b)
      /\ k + 1 = Len(b) <=> n + 1 = f.to
      /\ n + 1 <= f.to /\ (n + 1) - s = k + 1 /\ s + (k + 1) = n + 1
      /\ k + 1 \in 1 .. Len(b)
  BY <1>3, <1>5, <1>6
<1>9. wr[n + 1] = b[k + 1]
  BY <1>7, <1>8
<1> HIDE DEF k
<1>10. Advances(w, p, f, k, b[k + 1])
  <2>1. IsFrame(f) /\ k \in Nat /\ k < Len(Bytes(p, f)) /\ ParserAt(w, p, f, k)
    BY <1>5, <1>6, <1>8 DEF b
  <2> QED BY <2>1, ParserAdvances DEF b
<1>11. /\ AtFrame(p, fs, n, w, c) /\ IsFrame(f)
       /\ k \in Nat /\ k < Len(b)
       /\ k + 1 = Len(b) <=> n + 1 = f.to
       /\ f.to \in Nat /\ n + 1 <= f.to /\ (n + 1) - s = k + 1
       /\ Advances(w, p, f, k, wr[n + 1])
  BY <1>2, <1>5, <1>8, <1>9, <1>10
<1> QED BY <1>4, <1>11 DEF f, s, b, k

\* A byte within a frame.
LEMMA LinkByte ==
    ASSUME NEW p \in Ends, NEW fs, NEW wr, NEW n, NEW w \in WebSocketState, NEW g,
           Link(p, fs, wr, n, w, g), n < Len(wr),
           NEW now, now = Parsed(w, wr[n + 1]), ~ Complete(w.step, now)
    PROVE  /\ now \in WebSocketState /\ now.close_sent = w.close_sent
           /\ Link(p, fs, wr, n + 1, Advanced(now), g)
<1>1. PICK c \in 1 .. Len(fs) :
             LET k == n - StartOf(fs, c) IN
             /\ AtFrame(p, fs, n, w, c) /\ IsFrame(fs[c])
             /\ k \in Nat /\ k < Len(Bytes(p, fs[c]))
             /\ k + 1 = Len(Bytes(p, fs[c])) <=> n + 1 = fs[c].to
             /\ fs[c].to \in Nat /\ n + 1 <= fs[c].to /\ (n + 1) - StartOf(fs, c) = k + 1
             /\ Advances(w, p, fs[c], k, wr[n + 1])
  BY NextByte
<1> DEFINE k == n - StartOf(fs, c)
           a == Advanced(now)
<1>2. /\ WireOK(p, fs, wr) /\ n \in 0 .. Len(wr) /\ GotOK(fs, n, g)
  BY DEF Link
<1>3. Len(fs) \in Nat /\ Len(wr) \in Nat /\ n \in Nat
  <2>1. fs \in Seq(FrameSet) /\ wr \in Seq(Byte)
    BY <1>2 DEF WireOK
  <2> QED BY <1>2, <2>1, LenProperties
<1>4. /\ now \in WebSocketState /\ now.close_sent = w.close_sent
      /\ ParserAt(a, p, fs[c], k + 1) /\ n + 1 < fs[c].to
  <2>1. Advances(w, p, fs[c], k, wr[n + 1])
    BY <1>1
  <2>2. /\ now \in WebSocketState /\ now.close_sent = w.close_sent
        /\ ParserAt(a, p, fs[c], k + 1) /\ k + 1 # Len(Bytes(p, fs[c]))
    BY <2>1 DEF Advances
  <2>3. n + 1 # fs[c].to
    BY <1>1, <2>2
  <2> QED BY <1>1, <1>3, <2>2, <2>3
<1>5. AtFrame(p, fs, n + 1, a, c)
  <2>1. StartOf(fs, c) <= n /\ StartOf(fs, c) \in Nat
    BY <1>1, <1>2, FrameOnWire DEF AtFrame
  <2>2. StartOf(fs, c) <= n + 1 /\ c # Len(fs) + 1 /\ c \in 1 .. Len(fs) + 1
    BY <1>3, <2>1
  <2>3. (n + 1) - StartOf(fs, c) = k + 1
    BY <1>1
  <2>4. ParserAt(a, p, fs[c], (n + 1) - StartOf(fs, c))
    BY <1>4, <2>3
  <2> HIDE DEF a, k
  <2> QED BY <1>4, <2>2, <2>4 DEF AtFrame
<1>6. GotOK(fs, n + 1, g)
  <2>1. \A d \in 1 .. Len(fs) : fs[d].to <= n <=> d < c
    BY <1>1, <1>2, <1>3, Before
  <2>2. n + 1 \in Nat
    BY <1>3
  <2>3. \A d \in 1 .. Len(fs) : fs[d].to <= n + 1 <=> d < c
    BY <1>2, <1>5, <2>2, Before
  <2>4. MessagesTo(fs, n + 1) = MessagesTo(fs, n)
    BY <2>1, <2>3 DEF MessagesTo
  <2> QED BY <1>2, <2>4, GotStays
<1>7. n + 1 \in 0 .. Len(wr)
  BY <1>2, <1>3
<1> QED BY <1>2, <1>4, <1>5, <1>6, <1>7 DEF Link, a

\* A frame's last byte: the parser has its opcode and its data; it was given
\* them when it is a message's, and is reset.
LEMMA LinkEnd ==
    ASSUME NEW p \in Ends, NEW fs, NEW wr, NEW n, NEW w \in WebSocketState, NEW g,
           Link(p, fs, wr, n, w, g), n < Len(wr),
           NEW now, now = Parsed(w, wr[n + 1]), Complete(w.step, now)
    PROVE  /\ now \in WebSocketState /\ now.close_sent = w.close_sent
           /\ \E c \in 1 .. Len(fs) :
                 fs[c].to = n + 1 /\ fs[c].opcode = now.opcode
           /\ \A v : AtStart(v) =>
                 Link(p, fs, wr, n + 1, v,
                      IF now.opcode \in {Text, Binary}
                      THEN Append(g, [opcode |-> now.opcode,
                                      data   |-> SubSeq(now.data, 1, now.inkey)])
                      ELSE g)
<1>1. PICK c \in 1 .. Len(fs) :
             LET k == n - StartOf(fs, c) IN
             /\ AtFrame(p, fs, n, w, c) /\ IsFrame(fs[c])
             /\ k \in Nat /\ k < Len(Bytes(p, fs[c]))
             /\ k + 1 = Len(Bytes(p, fs[c])) <=> n + 1 = fs[c].to
             /\ fs[c].to \in Nat /\ n + 1 <= fs[c].to /\ (n + 1) - StartOf(fs, c) = k + 1
             /\ Advances(w, p, fs[c], k, wr[n + 1])
  BY NextByte
<1> DEFINE k == n - StartOf(fs, c)
           a == Advanced(now)
           f == fs[c]
           m == Len(f.data)
           x == [opcode |-> now.opcode, data |-> SubSeq(now.data, 1, now.inkey)]
<1>2. /\ WireOK(p, fs, wr) /\ n \in 0 .. Len(wr) /\ GotOK(fs, n, g)
  BY DEF Link
<1>3. /\ Len(fs) \in Nat /\ Len(wr) \in Nat /\ n \in Nat /\ fs \in Seq(FrameSet)
  <2>1. fs \in Seq(FrameSet) /\ wr \in Seq(Byte)
    BY <1>2 DEF WireOK
  <2> QED BY <1>2, <2>1, LenProperties
<1>4. /\ now \in WebSocketState /\ now.close_sent = w.close_sent
      /\ ParserAt(a, p, f, k + 1) /\ n + 1 = f.to /\ k + 1 = Len(Bytes(p, f))
  <2>1. Advances(w, p, fs[c], k, wr[n + 1])
    BY <1>1
  <2>2. /\ now \in WebSocketState /\ now.close_sent = w.close_sent
        /\ ParserAt(a, p, fs[c], k + 1) /\ k + 1 = Len(Bytes(p, fs[c]))
    BY <2>1 DEF Advances
  <2> QED BY <1>1, <2>2
<1>5. /\ f.data \in Seq(Byte) /\ m \in Nat /\ DOMAIN f.data = 1 .. m
  <2>1. f.data \in Seq(Byte)
    BY <1>1, FrameIs
  <2> QED BY <2>1, LenProperties
<1>6. /\ now.opcode = f.opcode /\ now.inkey = m
      /\ now.data = IF m = 0 THEN <<>> ELSE Filled(f.data, m)
  <2> DEFINE h == Header(p, m)
  <2>1. /\ h \in Nat /\ h > 1 /\ Len(Bytes(p, f)) = h + m
    <3>1. /\ FieldLen(m) \in {1, 3, 9} /\ h \in Nat /\ Len(Bytes(p, f)) = h + m
          /\ h = FieldLen(m) + (IF p = "client" THEN 5 ELSE 1)
      BY <1>1, Sizes
    <3> HIDE DEF m, h
    <3> QED BY <3>1
  <2>2. \A l : l = k + 1 => ParserAt(a, p, f, l) /\ l >= h /\ l > 0 /\ l - h = m
    <3> HIDE DEF a, f, m, k, h
    <3> QED BY <1>4, <1>5, <2>1
  <2>3. a.opcode = f.opcode /\ InData(a, p, f, m)
    <3> HIDE DEF a, f, k
    <3> QED BY <2>2 DEF ParserAt
  <2>4. /\ a.opcode = now.opcode /\ a.inkey = now.inkey /\ a.data = now.data
    BY <1>4 DEF Advanced, WebSocketState
  <2> QED BY <2>3, <2>4 DEF InData
<1>7. SubSeq(now.data, 1, now.inkey) = f.data
  <2>1. CASE m = 0
    <3>1. SubSeq(now.data, 1, now.inkey) = <<>>
      <4>1. now.inkey \in Int /\ now.inkey < 1
        BY <1>6, <2>1
      <4> QED BY <4>1, SubSeqEmpty
    <3>2. f.data = <<>>
      BY <1>5, <2>1, EmptySeq
    <3> QED BY <3>1, <3>2
  <2>2. CASE m # 0
    <3> DEFINE u == Filled(f.data, m)
               q == SubSeq(u, 1, m)
    <3>1. now.data = u /\ now.inkey = m
      BY <1>6, <2>2
    <3>2. \A i \in 1 .. m : u[i] = f.data[i]
      BY <1>5 DEF Filled
    <3>3. \A i \in 1 .. m : f.data[i] \in Byte
      BY <1>5, ElementOfSeq
    <3> HIDE DEF u
    <3>4. /\ q \in Seq(Byte) /\ Len(q) = IF 1 <= m THEN (m - 1) + 1 ELSE 0
          /\ \A i \in 1 .. (m - 1) + 1 : q[i] = u[(1 + i) - 1]
      <4>1. \A i \in 1 .. m : u[i] \in Byte
        BY <3>2, <3>3
      <4> HIDE DEF m
      <4> QED BY <1>5, <4>1, SubSeqProperties
    <3>5. Len(q) = m /\ \A i \in 1 .. m : q[i] = f.data[i]
      <4> HIDE DEF q, m
      <4>1. (m - 1) + 1 = m /\ \A i \in 1 .. m : (1 + i) - 1 = i
        BY <1>5
      <4>2. Len(q) = m
        BY <1>5, <2>2, <3>4, <4>1
      <4>3. \A i \in 1 .. m : q[i] = u[i]
        BY <3>4, <4>1
      <4> QED BY <3>2, <4>2, <4>3
    <3>6. q = f.data
      <4> HIDE DEF q
      <4> QED BY <1>5, <3>4, <3>5, SeqEqual
    <3> QED BY <3>1, <3>6
  <2> QED BY <2>1, <2>2
<1>8. n + 1 \in Nat /\ n + 1 \in 0 .. Len(wr)
  BY <1>2, <1>3
<1>9. \A d \in 1 .. Len(fs) : fs[d].to <= n <=> d < c
  BY <1>1, <1>2, <1>3, Before
<1>10. StartOf(fs, c + 1) = n + 1
  <2>1. c + 1 # 1 /\ (c + 1) - 1 = c
    BY <1>3
  <2> QED BY <1>4, <2>1 DEF StartOf
<1>11. ASSUME NEW v, AtStart(v)
       PROVE  AtFrame(p, fs, n + 1, v, c + 1)
  <2>1. c + 1 \in 1 .. Len(fs) + 1
    BY <1>3
  <2>2. StartOf(fs, c + 1) <= n + 1 /\ (n + 1) - StartOf(fs, c + 1) = 0
    BY <1>8, <1>10
  <2>3. ASSUME c + 1 <= Len(fs)
        PROVE  n + 1 < fs[c + 1].to /\ ParserAt(v, p, fs[c + 1], 0)
    <3>1. c + 1 \in 1 .. Len(fs) /\ c < c + 1
      BY <1>3, <2>3
    <3>2. n + 1 < fs[c + 1].to
      BY <1>2, <1>4, <3>1 DEF WireOK
    <3>3. IsFrame(fs[c + 1])
      BY <1>2, <3>1, FrameOnWire
    <3> DEFINE l == Len(fs[c + 1].data)
    <3>4. Header(p, l) \in Nat /\ Header(p, l) > 1
      <4>1. /\ l \in Nat /\ FieldLen(l) \in {1, 3, 9} /\ Header(p, l) \in Nat
            /\ Header(p, l) = FieldLen(l) + (IF p = "client" THEN 5 ELSE 1)
        BY <3>3, Sizes
      <4> HIDE DEF l
      <4> QED BY <4>1
    <3>5. ParserAt(v, p, fs[c + 1], 0)
      BY <1>11, <3>4 DEF ParserAt, AtStart
    <3> QED BY <3>2, <3>5
  <2>4. c + 1 <= Len(fs) => ParserAt(v, p, fs[c + 1], (n + 1) - StartOf(fs, c + 1))
    BY <2>2, <2>3
  <2> QED BY <1>11, <2>1, <2>2, <2>3, <2>4 DEF AtFrame
<1>12. \A d \in 1 .. Len(fs) : fs[d].to <= n + 1 <=> d < c + 1
  <2> DEFINE v == NewState
  <2>1. AtStart(v)
    BY DEF AtStart, NewState
  <2>2. AtFrame(p, fs, n + 1, v, c + 1)
    BY <1>11, <2>1
  <2> HIDE DEF v
  <2> QED BY <1>2, <1>8, <2>2, Before
<1>13. \A d \in 1 .. Len(fs) : fs[d].to <= n + 1 <=> fs[d].to <= n \/ d = c
  <2>1. \A d \in 1 .. Len(fs) : d < c + 1 <=> d < c \/ d = c
    BY <1>3
  <2> QED BY <1>9, <1>12, <2>1
<1>14. CASE now.opcode \in {Text, Binary}
  <2>1. x = [opcode |-> f.opcode, data |-> f.data]
    BY <1>6, <1>7
  <2>2. MessagesTo(fs, n + 1) = MessagesTo(fs, n) \union {c}
    BY <1>6, <1>13, <1>14 DEF MessagesTo
  <2>3. \A d \in MessagesTo(fs, n) : d < c
    BY <1>9 DEF MessagesTo
  <2> HIDE DEF x
  <2>4. GotOK(fs, n + 1, Append(g, x))
    BY <1>2, <1>3, <2>1, <2>2, <2>3, GotGrows
  <2>5. \A v : AtStart(v) => Link(p, fs, wr, n + 1, v, Append(g, x))
    BY <1>2, <1>8, <1>11, <2>4 DEF Link
  <2> QED BY <1>4, <1>6, <1>14, <2>5 DEF x
<1>15. CASE now.opcode \notin {Text, Binary}
  <2>1. MessagesTo(fs, n + 1) = MessagesTo(fs, n)
    BY <1>6, <1>13, <1>15 DEF MessagesTo
  <2>2. GotOK(fs, n + 1, g)
    BY <1>2, <2>1, GotStays
  <2>3. \A v : AtStart(v) => Link(p, fs, wr, n + 1, v, g)
    BY <1>2, <1>8, <1>11, <2>2 DEF Link
  <2> QED BY <1>4, <1>6, <1>15, <2>3
<1> QED BY <1>14, <1>15

-----------------------------------------------------------------------------
(* The two ends.                                                           *)

\* Whoever receives is sent to by the other end.
LEMMA Peers ==
    ASSUME NEW e \in Ends
    PROVE  /\ Peer(e) \in Ends /\ Peer(e) # e /\ Peer(Peer(e)) = e
           /\ \A r \in Ends : r = e \/ r = Peer(e)
<1>1. Peer("client") = "server" /\ Peer("server") = "client"
  BY DEF Peer, Ends
<1> QED BY <1>1 DEF Ends

LinkTo(e) ==
    Link(Peer(e), frames[Peer(e)], wire[e], eaten[e], ws[e], got[e])

\* A Close is the last frame of its end, which has noted it.
CloseNoted(e) ==
    \A i \in DOMAIN frames[e] :
        frames[e][i].opcode = Close => ws[e].close_sent /\ i = Len(frames[e])

\* The variables' types; then both directions, and the two facts the steps
\* need about who runs: on_frame is called for an end, and an end that parses
\* has a byte to parse.
WsTypes ==
    /\ ws \in [Ends -> WebSocketState]
    /\ wire \in [Ends -> Seq(Byte)]
    /\ eaten \in [Ends -> Nat]
    /\ frames \in [Ends -> Seq(FrameSet)]
    /\ got \in [Ends -> Seq([opcode : 0 .. 15, data : Seq(Byte)])]
    /\ open \in [Ends -> BOOLEAN] /\ delay \in [Ends -> BOOLEAN]
    /\ at \in Ends \union {"none"} /\ calling \in BOOLEAN
Runs ==
    /\ calling => at \in Ends
    /\ at \in Ends /\ ~calling => eaten[at] < Len(wire[at])
WsInv ==
    /\ WsTypes
    /\ Runs
    /\ \A e \in Ends : LinkTo(e) /\ CloseNoted(e)

\* The keys are four bytes.
LEMMA KeyIs ==
    ASSUME NEW n \in Nat
    PROVE  Key(n + 1) \in [1 .. 4 -> Byte]
<1>1. /\ MaskKeys \in Seq([1 .. 4 -> Byte])
      /\ Len(MaskKeys) \in Nat /\ Len(MaskKeys) # 0
  <2>1. MaskKeys \in Seq([1 .. 4 -> Byte]) /\ MaskKeys # <<>>
    BY WebSocketAssumption
  <2>2. Len(MaskKeys) \in Nat \ {0}
    BY <2>1, EmptySeq
  <2> QED BY <2>1, <2>2
<1>2. (((n + 1) - 1) % Len(MaskKeys)) + 1 \in 1 .. Len(MaskKeys)
  BY <1>1
<1>3. MaskKeys[(((n + 1) - 1) % Len(MaskKeys)) + 1] \in [1 .. 4 -> Byte]
  BY <1>1, <1>2, ElementOfSeq
<1> QED BY <1>3 DEF Key

\* What an application writes: bytes, not more than an int counts, and no
\* Close.
LEMMA FreshIs ==
    ASSUME WsInv, NEW e \in Ends, Free(e), NEW m \in Messages \union Others
    PROVE  /\ Fresh(e, m[1]) \in Seq(Byte) /\ Len(Fresh(e, m[1])) <= MaxLength
           /\ m[2] \in 0 .. 15 /\ m[2] # Close
<1>1. m[1] \in 0 .. MaxLength /\ m[2] \in 0 .. 15 /\ m[2] # Close
  BY WebSocketAssumption DEF Text, Binary, Close
<1>2. Len(frames[e]) + 1 \in 1 .. MaxFrames
  <2>1. \A r \in Ends : Len(frames[r]) \in Nat
    <3> SUFFICES ASSUME NEW r \in Ends PROVE Len(frames[r]) \in Nat
      OBVIOUS
    <3>1. frames[r] \in Seq(FrameSet)
      BY DEF WsInv, WsTypes
    <3> QED BY <3>1, LenProperties
  <2>2. Len(frames["client"]) + Len(frames["server"]) < MaxFrames
    BY DEF Free
  <2>3. MaxFrames \in Nat
    BY WebSocketAssumption
  <2> DEFINE c == Len(frames["client"])
             d == Len(frames["server"])
             l == Len(frames[e])
  <2>4. c \in Nat /\ d \in Nat
    BY <2>1 DEF Ends
  <2>5. l = c \/ l = d
    BY DEF Ends
  <2> HIDE DEF c, d, l
  <2>6. c + d < MaxFrames
    BY <2>2 DEF c, d
  <2>7. l + 1 \in 1 .. MaxFrames
    BY <2>3, <2>4, <2>5, <2>6
  <2> QED BY <2>7 DEF l
<1>3. Fresh(e, m[1]) \in [1 .. m[1] -> Byte]
  BY <1>2, WebSocketAssumption DEF Fresh
<1>4. m[1] \in Nat /\ m[1] <= MaxLength
  <2>1. MaxLength \in Nat
    BY SMT DEF MaxLength
  <2> DEFINE l == m[1]
  <2>2. l \in 0 .. MaxLength
    BY <1>1
  <2> HIDE DEF l
  <2>3. l \in Nat /\ l <= MaxLength
    BY <2>1, <2>2
  <2> QED BY <2>3 DEF l
<1>5. Fresh(e, m[1]) \in Seq(Byte) /\ Len(Fresh(e, m[1])) = m[1]
  BY <1>3, <1>4, FunctionIsSeq
<1> QED BY <1>1, <1>4, <1>5

\* What is put on the wire is a frame and its bytes.
LEMMA PutIs ==
    ASSUME WsInv, NEW e \in Ends, NEW o \in 0 .. 15, NEW data \in Seq(Byte),
           Len(data) <= MaxLength, Put(e, o, data)
    PROVE  \E f : /\ IsFrame(f) /\ f.opcode = o
                  /\ f.to = Len(wire[Peer(e)]) + Len(Bytes(e, f))
                  /\ frames' = [frames EXCEPT ![e] = Append(frames[e], f)]
                  /\ wire' = [wire EXCEPT ![Peer(e)] = wire[Peer(e)] \o Bytes(e, f)]
<1> DEFINE key == Key(Len(frames[e]) + 1)
           b == Encode(e, o, data, key)
           t == Len(wire[Peer(e)]) + Len(b)
           f == [opcode |-> o, data |-> data, key |-> key, to |-> t]
<1>1. frames[e] \in Seq(FrameSet) /\ wire[Peer(e)] \in Seq(Byte)
  BY Peers DEF WsInv, WsTypes
<1>2. Len(frames[e]) \in Nat /\ Len(wire[Peer(e)]) \in Nat
  BY <1>1, LenProperties
<1>3. key \in [1 .. 4 -> Byte]
  BY <1>2, KeyIs
<1> HIDE DEF key
<1>4. b \in Seq(Byte)
  <2>1. HasParts(b, e, o, data, key)
    BY <1>3, EncodeIs
  <2> QED BY <2>1 DEF HasParts
<1>5. t \in Nat
  <2>1. Len(b) \in Nat
    BY <1>4, LenProperties
  <2> QED BY <1>2, <2>1
<1>6. /\ frames' = [frames EXCEPT ![e] = Append(frames[e], f)]
      /\ wire' = [wire EXCEPT ![Peer(e)] = wire[Peer(e)] \o b]
  BY DEF Put, key
<1> HIDE DEF b, t
<1>7. f.opcode = o /\ f.data = data /\ f.key = key /\ f.to = t
  OBVIOUS
<1>8. IsFrame(f)
  BY <1>3, <1>5 DEF IsFrame, FrameSet
<1> HIDE DEF f
<1>9. Bytes(e, f) = b
  BY <1>7 DEF Bytes, b
<1>10. f.to = Len(wire[Peer(e)]) + Len(Bytes(e, f))
  BY <1>7, <1>9 DEF t
<1> QED BY <1>6, <1>7, <1>8, <1>9, <1>10

\* What is put on the wire disturbs nothing that was: the directions stay
\* right, and a Close is the end's last frame if there was none.
LEMMA PutKeeps ==
    ASSUME WsInv, NEW e \in Ends, ~ ws[e].close_sent, NEW o \in 0 .. 15,
           NEW data \in Seq(Byte), Len(data) <= MaxLength, Put(e, o, data)
    PROVE  /\ frames' \in [Ends -> Seq(FrameSet)] /\ wire' \in [Ends -> Seq(Byte)]
           /\ \A r \in Ends : \A n, w, g :
                 Link(Peer(r), frames[Peer(r)], wire[r], n, w, g)
                   => Link(Peer(r), frames'[Peer(r)], wire'[r], n, w, g)
           /\ \A r \in Ends : Len(wire[r]) \in Nat /\ Len(wire'[r]) \in Nat
                               /\ Len(wire[r]) <= Len(wire'[r])
           /\ \A r \in Ends : \A i \in DOMAIN frames'[r] :
                 frames'[r][i].opcode = Close
                   => /\ i = Len(frames'[r])
                      /\ IF r = e THEN o = Close ELSE ws[r].close_sent
<1>1. PICK f : /\ IsFrame(f) /\ f.opcode = o
               /\ f.to = Len(wire[Peer(e)]) + Len(Bytes(e, f))
               /\ frames' = [frames EXCEPT ![e] = Append(frames[e], f)]
               /\ wire' = [wire EXCEPT ![Peer(e)] = wire[Peer(e)] \o Bytes(e, f)]
  BY PutIs
<1> DEFINE q == Peer(e)
           b == Bytes(e, f)
<1>2. /\ q \in Ends /\ q # e /\ Peer(q) = e /\ \A r \in Ends : r = e \/ r = q
  BY Peers
<1>3. /\ frames \in [Ends -> Seq(FrameSet)] /\ wire \in [Ends -> Seq(Byte)]
      /\ \A r \in Ends : LinkTo(r) /\ CloseNoted(r)
  BY DEF WsInv, WsTypes
<1>4. \A r \in Ends : Len(frames[r]) \in Nat /\ Len(wire[r]) \in Nat
  <2> SUFFICES ASSUME NEW r \in Ends
               PROVE  Len(frames[r]) \in Nat /\ Len(wire[r]) \in Nat
    OBVIOUS
  <2>1. frames[r] \in Seq(FrameSet) /\ wire[r] \in Seq(Byte)
    BY <1>3
  <2> QED BY <2>1, LenProperties
<1>5. f \in FrameSet
  BY <1>1 DEF IsFrame
<1>6. b \in Seq(Byte)
  BY <1>1, Sizes
<1> HIDE DEF b, q
<1>7. /\ frames'[e] = Append(frames[e], f) /\ frames'[q] = frames[q]
      /\ wire'[q] = wire[q] \o b /\ wire'[e] = wire[e]
  BY <1>1, <1>2, <1>3 DEF q, b
<1>8. /\ frames'[e] \in Seq(FrameSet) /\ Len(frames'[e]) = Len(frames[e]) + 1
      /\ \A i \in 1 .. Len(frames[e]) : frames'[e][i] = frames[e][i]
      /\ frames'[e][Len(frames[e]) + 1] = f
  <2>1. frames[e] \in Seq(FrameSet)
    BY <1>3
  <2> QED BY <1>5, <1>7, <2>1, AppendProperties
<1>9. wire'[q] \in Seq(Byte) /\ Len(wire'[q]) = Len(wire[q]) + Len(b) /\ Len(b) \in Nat
  <2>1. wire[q] \in Seq(Byte)
    BY <1>2, <1>3
  <2> QED BY <1>6, <1>7, <2>1, ConcatIs
<1>10. frames' \in [Ends -> Seq(FrameSet)] /\ wire' \in [Ends -> Seq(Byte)]
  <2>1. Append(frames[e], f) \in Seq(FrameSet) /\ wire[q] \o b \in Seq(Byte)
    BY <1>7, <1>8, <1>9
  <2> QED BY <1>1, <1>2, <1>3, <2>1 DEF q, b
<1>11. ASSUME NEW r \in Ends, NEW n, NEW w, NEW g,
              Link(Peer(r), frames[Peer(r)], wire[r], n, w, g)
       PROVE  Link(Peer(r), frames'[Peer(r)], wire'[r], n, w, g)
  <2>1. CASE r = q
    <3>1. Link(e, frames[e], wire[q], n, w, g)
      BY <1>2, <1>11, <2>1
    <3>2. f.to = Len(wire[q]) + Len(Bytes(e, f))
      BY <1>1 DEF q
    <3>3. Link(e, Append(frames[e], f), wire[q] \o Bytes(e, f), n, w, g)
      BY <1>1, <3>1, <3>2, LinkPut
    <3> QED BY <1>2, <1>7, <2>1, <3>3 DEF b
  <2>2. CASE r = e
    BY <1>7, <1>11, <2>2 DEF q
  <2> QED BY <1>2, <2>1, <2>2
<1>12. ASSUME NEW r \in Ends
       PROVE  Len(wire'[r]) \in Nat /\ Len(wire[r]) <= Len(wire'[r])
  <2>1. CASE r = q
    BY <1>4, <1>9, <2>1
  <2>2. CASE r = e
    BY <1>4, <1>7, <2>2
  <2> QED BY <1>2, <2>1, <2>2
<1>13. ASSUME NEW r \in Ends, NEW i \in DOMAIN frames'[r], frames'[r][i].opcode = Close
       PROVE  /\ i = Len(frames'[r])
              /\ IF r = e THEN o = Close ELSE ws[r].close_sent
  <2>1. CASE r = e
    <3>1. i \in 1 .. Len(frames[e]) + 1
      <4>1. DOMAIN frames'[e] = 1 .. Len(frames'[e])
        BY <1>8, LenProperties
      <4> QED BY <1>8, <1>13, <2>1, <4>1
    <3>2. i = Len(frames[e]) + 1
      <4>1. ASSUME i # Len(frames[e]) + 1 PROVE FALSE
        <5>1. i \in 1 .. Len(frames[e])
          BY <1>4, <3>1, <4>1
        <5>2. frames[e][i].opcode = Close
          BY <1>8, <1>13, <2>1, <5>1
        <5>3. DOMAIN frames[e] = 1 .. Len(frames[e])
          <6>1. frames[e] \in Seq(FrameSet)
            BY <1>3
          <6> QED BY <6>1, LenProperties
        <5> QED BY <1>3, <5>1, <5>2, <5>3 DEF CloseNoted
      <4> QED BY <4>1
    <3> QED BY <1>1, <1>8, <1>13, <2>1, <3>2
  <2>2. CASE r = q
    <3>1. i \in DOMAIN frames[q] /\ frames[q][i].opcode = Close
      BY <1>7, <1>13, <2>2
    <3>2. ws[q].close_sent /\ i = Len(frames[q])
      BY <1>2, <1>3, <3>1 DEF CloseNoted
    <3> QED BY <1>2, <1>7, <2>2, <3>2
  <2> QED BY <1>2, <2>1, <2>2
<1> QED BY <1>4, <1>10, <1>11, <1>12, <1>13

\* What ape_ws_send_frame does for an end whose state is w otherwise: it sends
\* nothing behind a Close, and notes the one it sends.
LEMMA SendKeeps ==
    ASSUME WsInv, NEW e \in Ends, NEW w \in WebSocketState,
           w.close_sent = ws[e].close_sent, NEW o \in 0 .. 15,
           ape_ws_send_frame(e, w, o)
    PROVE  /\ frames' \in [Ends -> Seq(FrameSet)] /\ wire' \in [Ends -> Seq(Byte)]
           /\ ws' \in [Ends -> WebSocketState]
           /\ ws'[e] = [w EXCEPT !.close_sent = w.close_sent \/ o = Close]
           /\ \A r \in Ends : r # e => ws'[r] = ws[r]
           /\ \A r \in Ends : \A n, v, g :
                 Link(Peer(r), frames[Peer(r)], wire[r], n, v, g)
                   => Link(Peer(r), frames'[Peer(r)], wire'[r], n, v, g)
           /\ \A r \in Ends : Len(wire[r]) \in Nat /\ Len(wire'[r]) \in Nat
                               /\ Len(wire[r]) <= Len(wire'[r])
           /\ \A r \in Ends : CloseNoted(r)'
<1> DEFINE sent == w.close_sent \/ o = Close
           v == [w EXCEPT !.close_sent = sent]
<1>1. ws' = [ws EXCEPT ![e] = v]
  BY DEF ape_ws_send_frame
<1>2. /\ ws \in [Ends -> WebSocketState] /\ wire \in [Ends -> Seq(Byte)]
      /\ frames \in [Ends -> Seq(FrameSet)]
      /\ \A r \in Ends : CloseNoted(r)
  BY DEF WsInv, WsTypes
<1>3. sent \in BOOLEAN
  BY DEF WebSocketState
<1> HIDE DEF sent
<1>4. v \in WebSocketState /\ v.close_sent = sent
  BY <1>3 DEF WebSocketState
<1> HIDE DEF v
<1>5. /\ ws' \in [Ends -> WebSocketState] /\ ws'[e] = v
      /\ \A r \in Ends : r # e => ws'[r] = ws[r]
  BY <1>1, <1>2, <1>4
<1>6. CASE w.close_sent
  <2>1. wire' = wire /\ frames' = frames
    BY <1>6 DEF ape_ws_send_frame
  <2>2. ws'[e].close_sent
    BY <1>4, <1>5, <1>6 DEF sent
  <2>3. ASSUME NEW r \in Ends PROVE CloseNoted(r)'
    <3>1. ws[r].close_sent => ws'[r].close_sent
      BY <1>5, <2>2
    <3> QED BY <1>2, <2>1, <3>1 DEF CloseNoted
  <2>4. \A r \in Ends : Len(wire[r]) \in Nat
    <3> SUFFICES ASSUME NEW r \in Ends PROVE Len(wire[r]) \in Nat
      OBVIOUS
    <3>1. wire[r] \in Seq(Byte)
      BY <1>2
    <3> QED BY <3>1, LenProperties
  <2> QED BY <1>2, <1>5, <2>1, <2>3, <2>4 DEF v, sent
<1>7. CASE ~ w.close_sent
  <2>1. Put(e, o, <<>>) /\ ~ ws[e].close_sent
    BY <1>7 DEF ape_ws_send_frame
  <2>2. <<>> \in Seq(Byte) /\ Len(<<>>) <= MaxLength
    <3>1. MaxLength \in Nat
      BY SMT DEF MaxLength
    <3>2. <<>> \in Seq(Byte) /\ Len(<<>>) = 0
      OBVIOUS
    <3> QED BY <3>1, <3>2
  <2>3. /\ frames' \in [Ends -> Seq(FrameSet)] /\ wire' \in [Ends -> Seq(Byte)]
        /\ \A r \in Ends : \A n, x, g :
              Link(Peer(r), frames[Peer(r)], wire[r], n, x, g)
                => Link(Peer(r), frames'[Peer(r)], wire'[r], n, x, g)
        /\ \A r \in Ends : Len(wire[r]) \in Nat /\ Len(wire'[r]) \in Nat
                            /\ Len(wire[r]) <= Len(wire'[r])
        /\ \A r \in Ends : \A i \in DOMAIN frames'[r] :
              frames'[r][i].opcode = Close
                => /\ i = Len(frames'[r])
                   /\ IF r = e THEN o = Close ELSE ws[r].close_sent
    BY <2>1, <2>2, PutKeeps
  <2>4. ASSUME NEW r \in Ends PROVE CloseNoted(r)'
    <3>1. (IF r = e THEN o = Close ELSE ws[r].close_sent) => ws'[r].close_sent
      BY <1>4, <1>5 DEF sent
    <3> QED BY <2>3, <3>1 DEF CloseNoted
  <2> QED BY <1>5, <2>3, <2>4 DEF v, sent
<1> QED BY <1>6, <1>7

\* An application's write of a frame.
LEMMA WriteKeeps ==
    ASSUME Quiet, WsInv, NEW e \in Ends, NEW m \in Messages \union Others,
           Free(e), Quiet => ~ws[e].close_sent, Put(e, m[2], Fresh(e, m[1])),
           UNCHANGED <<ws, open, delay, at, calling, eaten, got>>
    PROVE  WsInv'
<1>1. /\ Fresh(e, m[1]) \in Seq(Byte) /\ Len(Fresh(e, m[1])) <= MaxLength
      /\ m[2] \in 0 .. 15 /\ m[2] # Close
  BY FreshIs
<1> DEFINE data == Fresh(e, m[1])
           o == m[2]
<1> HIDE DEF data, o
<1>2. /\ data \in Seq(Byte) /\ Len(data) <= MaxLength /\ o \in 0 .. 15 /\ o # Close
      /\ Put(e, o, data) /\ ~ws[e].close_sent
  BY <1>1 DEF data, o
<1>3. /\ frames' \in [Ends -> Seq(FrameSet)] /\ wire' \in [Ends -> Seq(Byte)]
      /\ \A r \in Ends : \A n, x, g :
            Link(Peer(r), frames[Peer(r)], wire[r], n, x, g)
              => Link(Peer(r), frames'[Peer(r)], wire'[r], n, x, g)
      /\ \A r \in Ends : Len(wire[r]) \in Nat /\ Len(wire'[r]) \in Nat
                          /\ Len(wire[r]) <= Len(wire'[r])
      /\ \A r \in Ends : \A i \in DOMAIN frames'[r] :
            frames'[r][i].opcode = Close
              => /\ i = Len(frames'[r])
                 /\ IF r = e THEN o = Close ELSE ws[r].close_sent
  BY <1>2, PutKeeps
<1>4. /\ ws' = ws /\ open' = open /\ delay' = delay /\ at' = at /\ calling' = calling
      /\ eaten' = eaten /\ got' = got
  OBVIOUS
<1>5. WsTypes'
  BY <1>3, <1>4 DEF WsInv, WsTypes
<1>6. Runs'
  <2>1. \A r \in Ends : eaten[r] < Len(wire[r]) => eaten[r] < Len(wire'[r])
    <3>1. \A r \in Ends : eaten[r] \in Nat
      BY DEF WsInv, WsTypes
    <3> QED BY <1>3, <3>1
  <2> QED BY <1>4, <2>1 DEF WsInv, Runs
<1>7. ASSUME NEW r \in Ends PROVE LinkTo(r)' /\ CloseNoted(r)'
  <2>1. LinkTo(r)
    BY DEF WsInv
  <2>2. LinkTo(r)'
    BY <1>3, <1>4, <2>1 DEF LinkTo
  <2>3. CloseNoted(r)'
    BY <1>2, <1>3, <1>4 DEF CloseNoted
  <2> QED BY <2>2, <2>3
<1> QED BY <1>5, <1>6, <1>7 DEF WsInv

\* An application's ping or close.
LEMMA ControlKeeps ==
    ASSUME WsInv, NEW e \in Ends, NEW o \in {Ping, Close},
           ape_ws_send_frame(e, ws[e], o),
           delay' \in [Ends -> BOOLEAN],
           UNCHANGED <<open, at, calling, eaten, got>>
    PROVE  WsInv'
<1> DEFINE w == ws[e]
<1>1. w \in WebSocketState /\ o \in 0 .. 15
  BY DEF WsInv, WsTypes, Ping, Close
<1>2. /\ frames' \in [Ends -> Seq(FrameSet)] /\ wire' \in [Ends -> Seq(Byte)]
      /\ ws' \in [Ends -> WebSocketState]
      /\ ws'[e] = [w EXCEPT !.close_sent = w.close_sent \/ o = Close]
      /\ \A r \in Ends : r # e => ws'[r] = ws[r]
      /\ \A r \in Ends : \A n, v, g :
            Link(Peer(r), frames[Peer(r)], wire[r], n, v, g)
              => Link(Peer(r), frames'[Peer(r)], wire'[r], n, v, g)
      /\ \A r \in Ends : Len(wire[r]) \in Nat /\ Len(wire'[r]) \in Nat
                          /\ Len(wire[r]) <= Len(wire'[r])
      /\ \A r \in Ends : CloseNoted(r)'
  BY <1>1, SendKeeps
<1>3. /\ open' = open /\ at' = at /\ calling' = calling
      /\ eaten' = eaten /\ got' = got
  OBVIOUS
<1>4. WsTypes'
  BY <1>2, <1>3 DEF WsInv, WsTypes
<1>5. Runs'
  <2>1. \A r \in Ends : eaten[r] < Len(wire[r]) => eaten[r] < Len(wire'[r])
    <3>1. \A r \in Ends : eaten[r] \in Nat
      BY DEF WsInv, WsTypes
    <3> QED BY <1>2, <3>1
  <2> QED BY <1>3, <2>1 DEF WsInv, Runs
<1>6. ASSUME NEW r \in Ends PROVE LinkTo(r)'
  <2>1. Link(Peer(r), frames[Peer(r)], wire[r], eaten[r], ws[r], got[r])
    BY DEF WsInv, LinkTo
  <2>2. Link(Peer(r), frames'[Peer(r)], wire'[r], eaten[r], ws[r], got[r])
    BY <1>2, <2>1
  <2>3. Link(Peer(r), frames'[Peer(r)], wire'[r], eaten[r], ws'[r], got[r])
    <3>1. CASE r = e
      <4> DEFINE v == ws'[e]
      <4>1. v = [w EXCEPT !.close_sent = w.close_sent \/ o = Close]
        BY <1>2
      <4> HIDE DEF v
      <4>2. /\ v.step = w.step /\ v.opcode = w.opcode /\ v.mask = w.mask
            /\ v.length = w.length /\ v.payload = w.payload
            /\ v.frame_pos = w.frame_pos /\ v.key = w.key /\ v.keypos = w.keypos
            /\ v.data = w.data /\ v.inkey = w.inkey
        BY <1>1, <4>1 DEF WebSocketState
      <4>3. Peer(e) \in Ends
        BY Peers
      <4>4. Link(Peer(e), frames'[Peer(e)], wire'[e], eaten[e], w, got[e])
        BY <2>2, <3>1
      <4>5. Link(Peer(e), frames'[Peer(e)], wire'[e], eaten[e], v, got[e])
        <5> HIDE DEF w
        <5> QED BY <4>2, <4>3, <4>4, CloseSentAside
      <4> QED BY <3>1, <4>5 DEF v
    <3>2. CASE r # e
      BY <1>2, <2>2, <3>2
    <3> QED BY <3>1, <3>2
  <2> QED BY <1>3, <2>3 DEF LinkTo
<1> QED BY <1>2, <1>4, <1>5, <1>6 DEF WsInv

\* How much of the wire an end has not parsed.
LEMMA RestIs ==
    ASSUME WsInv, NEW e \in Ends
    PROVE  /\ eaten[e] \in Nat /\ Len(wire[e]) \in Nat /\ eaten[e] <= Len(wire[e])
           /\ Len(Rest(e)) = Len(wire[e]) - eaten[e]
           /\ Rest(e) = <<>> <=> eaten[e] = Len(wire[e])
<1>1. wire[e] \in Seq(Byte) /\ eaten[e] \in Nat
  BY DEF WsInv, WsTypes
<1>2. Len(wire[e]) \in Nat /\ eaten[e] \in 0 .. Len(wire[e])
  <2>1. LinkTo(e)
    BY DEF WsInv
  <2> QED BY <1>1, <2>1, LenProperties DEF LinkTo, Link
<1> DEFINE s == wire[e]
           m == eaten[e] + 1
           n == Len(wire[e])
           q == SubSeq(s, m, n)
<1>3. q \in Seq(Byte) /\ Len(q) = IF m <= n THEN (n - m) + 1 ELSE 0
  <2>1. m \in Int /\ n \in Int
    BY <1>1, <1>2
  <2>2. \A i \in m .. n : s[i] \in Byte
    <3>1. \A i \in m .. n : i \in 1 .. Len(s)
      BY <1>1, <1>2
    <3> QED BY <1>1, <3>1, ElementOfSeq
  <2> HIDE DEF m, n, s
  <2> QED BY <2>1, <2>2, SubSeqProperties
<1>4. Len(q) = n - eaten[e]
  <2> HIDE DEF q
  <2> QED BY <1>1, <1>2, <1>3
<1>5. q = <<>> <=> Len(q) = 0
  <2> HIDE DEF q
  <2>1. Len(q) = 0 => q = <<>>
    BY <1>3, EmptySeq
  <2>2. q = <<>> => Len(q) = 0
    OBVIOUS
  <2> QED BY <2>1, <2>2
<1>6. Rest(e) = q
  BY DEF Rest
<1> HIDE DEF q
<1> QED BY <1>1, <1>2, <1>4, <1>5, <1>6

\* Behind a byte the parser is not left without one.
LEMMA EatKeepsRuns ==
    ASSUME WsInv, at \in Ends, ~calling, EatOne, ~calling',
           Len(wire'[at]) \in Nat, Len(wire[at]) <= Len(wire'[at])
    PROVE  Runs' /\ at' \in Ends \union {"none"}
<1>1. /\ eaten[at] \in Nat /\ Len(wire[at]) \in Nat
      /\ Len(Rest(at)) = Len(wire[at]) - eaten[at]
  BY RestIs
<1>2. eaten[at] < Len(wire[at])
  BY DEF WsInv, Runs
<1>3. eaten' = [eaten EXCEPT ![at] = @ + 1] /\ eaten \in [Ends -> Nat]
  BY DEF EatOne, Eat, WsInv, WsTypes
<1>4. at' = "none" \/ (at' = at /\ Len(Rest(at)) # 1)
  BY DEF EatOne, MayReturn
<1>5. "none" \notin Ends
  BY DEF Ends
<1>6. CASE at' = "none"
  BY <1>5, <1>6 DEF Runs
<1>7. CASE at' = at /\ Len(Rest(at)) # 1
  <2>1. eaten'[at] = eaten[at] + 1
    BY <1>3
  <2>2. eaten'[at] < Len(wire'[at])
    <3> DEFINE a == eaten[at]
               b == Len(wire[at])
               c == Len(wire'[at])
    <3>1. a \in Nat /\ b \in Nat /\ c \in Nat /\ b - a # 1 /\ a < b /\ b <= c
      BY <1>1, <1>2, <1>7
    <3> HIDE DEF a, b, c
    <3>2. a + 1 < c
      BY <3>1
    <3> QED BY <2>1, <3>2 DEF a, c
  <2> QED BY <1>7, <2>2 DEF Runs
<1> QED BY <1>4, <1>6, <1>7

\* A byte that does not end its frame.
LEMMA ByteKeeps ==
    ASSUME WsInv, at \in Ends, ~calling, NEW now, now = Now, ParseByte(now)
    PROVE  WsInv'
<1> DEFINE w == ws[at]
           n == eaten[at]
           v == Advanced(now)
<1>1. /\ w \in WebSocketState /\ LinkTo(at) /\ n \in Nat
      /\ ws \in [Ends -> WebSocketState] /\ eaten \in [Ends -> Nat]
  BY DEF WsInv, WsTypes
<1>2. n < Len(wire[at])
  BY DEF WsInv, Runs
<1>3. /\ now \in WebSocketState /\ now.close_sent = w.close_sent
      /\ Link(Peer(at), frames[Peer(at)], wire[at], n + 1, v, got[at])
  <2>1. /\ Peer(at) \in Ends
        /\ Link(Peer(at), frames[Peer(at)], wire[at], n, w, got[at])
    BY <1>1, Peers DEF LinkTo
  <2>2. now = Parsed(w, wire[at][n + 1]) /\ ~Complete(w.step, now)
    BY DEF Now, ParseByte
  <2> HIDE DEF w, n
  <2> QED BY <1>1, <1>2, <2>1, <2>2, LinkByte
<1>4. v \in WebSocketState /\ v.close_sent = w.close_sent
  <2> DEFINE k == now.frame_pos + 1
  <2>1. now \in WebSocketState /\ now.frame_pos \in Nat
    BY <1>3 DEF WebSocketState
  <2>2. k \in Nat /\ v = [now EXCEPT !.frame_pos = k]
    BY <2>1 DEF Advanced
  <2> HIDE DEF k, v
  <2>3. v \in WebSocketState /\ v.close_sent = now.close_sent
    BY <2>1, <2>2 DEF WebSocketState
  <2> QED BY <1>3, <2>3
<1> HIDE DEF v
<1>5. /\ ws' = [ws EXCEPT ![at] = v] /\ eaten' = [eaten EXCEPT ![at] = n + 1]
      /\ wire' = wire /\ open' = open /\ delay' = delay /\ calling' = calling
      /\ frames' = frames /\ got' = got
  BY DEF ParseByte, EatOne, Eat, v
<1>6. /\ ws' \in [Ends -> WebSocketState] /\ eaten' \in [Ends -> Nat]
      /\ ws'[at] = v /\ eaten'[at] = n + 1
      /\ \A r \in Ends : r # at => ws'[r] = ws[r] /\ eaten'[r] = eaten[r]
  BY <1>1, <1>4, <1>5
<1>7. Runs' /\ at' \in Ends \union {"none"}
  <2>1. EatOne
    BY DEF ParseByte
  <2>2. Len(wire'[at]) \in Nat /\ Len(wire[at]) <= Len(wire'[at])
    BY <1>5, RestIs
  <2> QED BY <1>5, <2>1, <2>2, EatKeepsRuns
<1>8. WsTypes'
  BY <1>5, <1>6, <1>7 DEF WsInv, WsTypes
<1>9. ASSUME NEW r \in Ends PROVE LinkTo(r)' /\ CloseNoted(r)'
  <2>1. CloseNoted(r) /\ LinkTo(r)
    BY DEF WsInv
  <2>2. ws'[r].close_sent = ws[r].close_sent
    BY <1>4, <1>6
  <2>3. CloseNoted(r)'
    BY <1>5, <2>1, <2>2 DEF CloseNoted
  <2>4. LinkTo(r)'
    <3>1. CASE r = at
      BY <1>3, <1>5, <1>6, <3>1 DEF LinkTo
    <3>2. CASE r # at
      BY <1>5, <1>6, <2>1, <3>2 DEF LinkTo
    <3> QED BY <3>1, <3>2
  <2> QED BY <2>3, <2>4
<1> QED BY <1>7, <1>8, <1>9 DEF WsInv

\* The state behind a frame.
LEMMA ResetIs ==
    ASSUME NEW now \in WebSocketState
    PROVE  /\ ape_ws_reset_frame_state(now) \in WebSocketState
           /\ AtStart(ape_ws_reset_frame_state(now))
           /\ ape_ws_reset_frame_state(now).close_sent = now.close_sent
           /\ NextFrame(now) = ape_ws_reset_frame_state(now)
<1> DEFINE w == ape_ws_reset_frame_state(now)
<1>1. Zeros \in [2 .. 9 -> Byte]
  BY DEF Zeros, Byte
<1>2. <<>> \in Seq(Byte)
  OBVIOUS
<1>3. w \in WebSocketState
  <2> DEFINE z == Zeros
             s == <<>>
  <2>1. /\ z \in [2 .. 9 -> Byte] /\ s \in Seq(Byte) /\ 0 \in Nat /\ 0 \in 0 .. 4
        /\ w = [now EXCEPT !.step = "START", !.frame_pos = 0, !.length = 0,
                           !.payload = z, !.keypos = 0, !.data = s]
    BY <1>1, <1>2 DEF ape_ws_reset_frame_state
  <2> HIDE DEF w, z, s
  <2> QED BY <2>1 DEF WebSocketState
<1>4. /\ w.step = "START" /\ w.frame_pos = 0 /\ w.keypos = 0 /\ w.data = <<>>
      /\ w.close_sent = now.close_sent
  BY DEF ape_ws_reset_frame_state, WebSocketState
<1>5. NextFrame(now) = w
  <2> HIDE DEF w
  <2>1. NextFrame(now) = Advanced([w EXCEPT !.frame_pos = -1])
    BY DEF NextFrame, w
  <2>2. Advanced([w EXCEPT !.frame_pos = -1]) = [w EXCEPT !.frame_pos = -1 + 1]
    BY <1>3 DEF Advanced, WebSocketState
  <2>3. [w EXCEPT !.frame_pos = -1 + 1] = w
    <3>1. -1 + 1 = 0
      OBVIOUS
    <3> QED BY <1>3, <1>4, <3>1 DEF WebSocketState
  <2> QED BY <2>1, <2>2, <2>3
<1> QED BY <1>3, <1>4, <1>5 DEF AtStart

\* What on_frame was given when the frame of `now' has ended.
GotThen(now) ==
    IF now.opcode \in {Text, Binary}
    THEN Append(got[at], [opcode |-> now.opcode, data |-> SubSeq(now.data, 1, now.inkey)])
    ELSE got[at]

\* A frame's last byte: what the parser knows of it, and the direction to it.
LEMMA EndIs ==
    ASSUME WsInv, at \in Ends, ~calling, NEW now, now = Now,
           Complete(ws[at].step, now)
    PROVE  /\ now \in WebSocketState /\ now.close_sent = ws[at].close_sent
           /\ eaten[at] < Len(wire[at])
           /\ \E c \in 1 .. Len(frames[Peer(at)]) :
                 /\ frames[Peer(at)][c].to = eaten[at] + 1
                 /\ frames[Peer(at)][c].opcode = now.opcode
           /\ \A v : AtStart(v) =>
                 Link(Peer(at), frames[Peer(at)], wire[at], eaten[at] + 1, v, GotThen(now))
<1> DEFINE w == ws[at]
           n == eaten[at]
           p == Peer(at)
           fs == frames[p]
           wr == wire[at]
           g == got[at]
<1>1. w \in WebSocketState /\ LinkTo(at) /\ n < Len(wr) /\ p \in Ends
  BY Peers DEF WsInv, WsTypes, Runs
<1>2. Link(p, fs, wr, n, w, g)
  BY <1>1 DEF LinkTo
<1>3. now = Parsed(w, wr[n + 1]) /\ Complete(w.step, now)
  BY DEF Now
<1> HIDE DEF w, n, p, fs, wr, g
<1>4. /\ now \in WebSocketState /\ now.close_sent = w.close_sent
      /\ \E c \in 1 .. Len(fs) :
            fs[c].to = n + 1 /\ fs[c].opcode = now.opcode
      /\ \A v : AtStart(v) =>
            Link(p, fs, wr, n + 1, v,
                 IF now.opcode \in {Text, Binary}
                 THEN Append(g, [opcode |-> now.opcode,
                                 data   |-> SubSeq(now.data, 1, now.inkey)])
                 ELSE g)
  BY <1>1, <1>2, <1>3, LinkEnd
<1> QED BY <1>1, <1>4 DEF GotThen, w, n, p, fs, wr, g

\* Behind a frame the directions are right.
LEMMA EndKeeps ==
    ASSUME WsInv, at \in Ends, ~calling, NEW now, now = Now,
           Complete(ws[at].step, now),
           AtStart(ws'[at]), \A r \in Ends : r # at => ws'[r] = ws[r],
           \A r \in Ends : \A n, v, g :
              Link(Peer(r), frames[Peer(r)], wire[r], n, v, g)
                => Link(Peer(r), frames'[Peer(r)], wire'[r], n, v, g),
           eaten' = [eaten EXCEPT ![at] = @ + 1],
           got' = [got EXCEPT ![at] = GotThen(now)]
    PROVE  /\ \A r \in Ends : LinkTo(r)'
           /\ eaten' \in [Ends -> Nat]
           /\ got' \in [Ends -> Seq([opcode : 0 .. 15, data : Seq(Byte)])]
<1>1. Link(Peer(at), frames[Peer(at)], wire[at], eaten[at] + 1, ws'[at], GotThen(now))
  BY EndIs
<1>2. /\ eaten \in [Ends -> Nat] /\ \A r \in Ends : LinkTo(r)
      /\ got \in [Ends -> Seq([opcode : 0 .. 15, data : Seq(Byte)])]
  BY DEF WsInv, WsTypes
<1>3. GotThen(now) \in Seq([opcode : 0 .. 15, data : Seq(Byte)])
  BY <1>1 DEF Link, GotOK
<1>4. /\ eaten'[at] = eaten[at] + 1 /\ got'[at] = GotThen(now)
      /\ \A r \in Ends : r # at => eaten'[r] = eaten[r] /\ got'[r] = got[r]
  BY <1>2
<1>5. eaten' \in [Ends -> Nat]
  BY <1>2
<1>6. got' \in [Ends -> Seq([opcode : 0 .. 15, data : Seq(Byte)])]
  BY <1>2, <1>3
<1>7. ASSUME NEW r \in Ends PROVE LinkTo(r)'
  <2>1. CASE r = at
    <3>1. Link(Peer(at), frames'[Peer(at)], wire'[at], eaten[at] + 1, ws'[at], GotThen(now))
      BY <1>1
    <3> QED BY <1>4, <2>1, <3>1 DEF LinkTo
  <2>2. CASE r # at
    <3>1. Link(Peer(r), frames[Peer(r)], wire[r], eaten[r], ws[r], got[r])
      BY <1>2 DEF LinkTo
    <3>2. Link(Peer(r), frames'[Peer(r)], wire'[r], eaten[r], ws[r], got[r])
      BY <3>1
    <3> QED BY <1>4, <2>2, <3>2 DEF LinkTo
  <2> QED BY <2>1, <2>2
<1> QED BY <1>5, <1>6, <1>7

\* A frame that only resets the parser, or a message's.
LEMMA EndSilent ==
    ASSUME WsInv, at \in Ends, ~calling, NEW now, now = Now,
           Complete(ws[at].step, now), ws' = [ws EXCEPT ![at] = NextFrame(now)],
           eaten' = [eaten EXCEPT ![at] = @ + 1],
           got' = [got EXCEPT ![at] = GotThen(now)],
           UNCHANGED <<wire, open, delay, frames>>,
           at' \in Ends \union {"none"}, calling' \in BOOLEAN, Runs'
    PROVE  WsInv'
<1>1. now \in WebSocketState /\ now.close_sent = ws[at].close_sent
  BY EndIs
<1>2. /\ NextFrame(now) \in WebSocketState /\ AtStart(NextFrame(now))
      /\ NextFrame(now).close_sent = ws[at].close_sent
  BY <1>1, ResetIs
<1>3. /\ ws \in [Ends -> WebSocketState] /\ \A r \in Ends : CloseNoted(r)
  BY DEF WsInv, WsTypes
<1>4. /\ ws' \in [Ends -> WebSocketState] /\ ws'[at] = NextFrame(now)
      /\ \A r \in Ends : r # at => ws'[r] = ws[r]
  BY <1>2, <1>3
<1>5. wire' = wire /\ frames' = frames /\ open' = open /\ delay' = delay
  OBVIOUS
<1>6. AtStart(ws'[at])
  BY <1>2, <1>4
<1>7. /\ \A r \in Ends : LinkTo(r)'
      /\ eaten' \in [Ends -> Nat]
      /\ got' \in [Ends -> Seq([opcode : 0 .. 15, data : Seq(Byte)])]
  BY <1>4, <1>5, <1>6, EndKeeps
<1>8. \A r \in Ends : CloseNoted(r)'
  BY <1>2, <1>3, <1>4, <1>5 DEF CloseNoted
<1>9. WsTypes'
  BY <1>4, <1>5, <1>7 DEF WsInv, WsTypes
<1> QED BY <1>7, <1>8, <1>9 DEF WsInv

\* A ping or a Close that has arrived is answered.
LEMMA EndAnswered ==
    ASSUME WsInv, at \in Ends, ~calling, NEW now, now = Now,
           Complete(ws[at].step, now), now.opcode \notin {Text, Binary},
           NEW o \in {Pong, Close},
           ape_ws_send_frame(at, ape_ws_reset_frame_state(now), o),
           eaten' = [eaten EXCEPT ![at] = @ + 1], got' = got, open' = open,
           calling' = calling, delay' \in [Ends -> BOOLEAN],
           \/ at' = "none"
           \/ EatOne
    PROVE  WsInv'
<1> DEFINE w == ape_ws_reset_frame_state(now)
<1>1. now \in WebSocketState /\ now.close_sent = ws[at].close_sent
  BY EndIs
<1>2. w \in WebSocketState /\ AtStart(w) /\ w.close_sent = ws[at].close_sent
  BY <1>1, ResetIs
<1>3. o \in 0 .. 15
  BY DEF Pong, Close
<1> HIDE DEF w
<1>4. /\ frames' \in [Ends -> Seq(FrameSet)] /\ wire' \in [Ends -> Seq(Byte)]
      /\ ws' \in [Ends -> WebSocketState]
      /\ ws'[at] = [w EXCEPT !.close_sent = w.close_sent \/ o = Close]
      /\ \A r \in Ends : r # at => ws'[r] = ws[r]
      /\ \A r \in Ends : \A n, v, g :
            Link(Peer(r), frames[Peer(r)], wire[r], n, v, g)
              => Link(Peer(r), frames'[Peer(r)], wire'[r], n, v, g)
      /\ \A r \in Ends : Len(wire[r]) \in Nat /\ Len(wire'[r]) \in Nat
                          /\ Len(wire[r]) <= Len(wire'[r])
      /\ \A r \in Ends : CloseNoted(r)'
  <2>1. ape_ws_send_frame(at, w, o)
    BY DEF w
  <2> QED BY <1>2, <1>3, <2>1, SendKeeps
<1>5. AtStart(ws'[at])
  BY <1>2, <1>4 DEF AtStart, WebSocketState
<1>6. got' = [got EXCEPT ![at] = GotThen(now)]
  <2>1. GotThen(now) = got[at] /\ got \in [Ends -> Seq([opcode : 0 .. 15, data : Seq(Byte)])]
    BY DEF GotThen, WsInv, WsTypes
  <2> QED BY <2>1
<1>7. /\ \A r \in Ends : LinkTo(r)'
      /\ eaten' \in [Ends -> Nat]
      /\ got' \in [Ends -> Seq([opcode : 0 .. 15, data : Seq(Byte)])]
  BY <1>4, <1>5, <1>6, EndKeeps
<1>8. Runs' /\ at' \in Ends \union {"none"}
  <2>1. CASE at' = "none"
    BY <2>1 DEF Runs, Ends
  <2>2. CASE EatOne
    BY <1>4, <2>2, EatKeepsRuns
  <2> QED BY <2>1, <2>2
<1>9. WsTypes'
  BY <1>4, <1>7, <1>8 DEF WsInv, WsTypes
<1> QED BY <1>4, <1>7, <1>8, <1>9 DEF WsInv

\* A Close is the last frame on the wire: no byte behind it is dropped.
LEMMA CloseEndsWire ==
    ASSUME WsInv, at \in Ends, ~calling, NEW now, now = Now,
           Complete(ws[at].step, now), now.opcode = Close
    PROVE  Len(Rest(at)) = 1
<1> DEFINE p == Peer(at)
           fs == frames[p]
           n == eaten[at]
           l == Len(wire[at])
<1>1. /\ p \in Ends /\ WireOK(p, fs, wire[at]) /\ CloseNoted(p) /\ fs \in Seq(FrameSet)
  BY Peers DEF WsInv, WsTypes, LinkTo, Link
<1>2. PICK c \in 1 .. Len(fs) : fs[c].to = n + 1 /\ fs[c].opcode = now.opcode
  BY EndIs
<1>3. Len(fs) \in Nat /\ DOMAIN fs = 1 .. Len(fs)
  BY <1>1, LenProperties
<1>4. c = Len(fs)
  BY <1>1, <1>2, <1>3 DEF CloseNoted
<1>5. n + 1 = l
  <2>1. StartOf(fs, Len(fs) + 1) = l
    BY <1>1 DEF WireOK
  <2>2. Len(fs) + 1 # 1 /\ (Len(fs) + 1) - 1 = c
    BY <1>3, <1>4
  <2> QED BY <1>2, <2>1, <2>2 DEF StartOf
<1>6. n \in Nat /\ l \in Nat /\ Len(Rest(at)) = l - n
  BY RestIs
<1> HIDE DEF n, l
<1> QED BY <1>5, <1>6

-----------------------------------------------------------------------------
(* The invariant.                                                          *)

\* The two ends begin with nothing sent and nothing parsed.
LEMMA WsInvInit == WsInit => WsInv
<1> SUFFICES ASSUME WsInit PROVE WsInv
  OBVIOUS
<1>1. NewState \in WebSocketState
  <2>1. Zeros \in [2 .. 9 -> Byte] /\ <<0, 0, 0, 0>> \in [1 .. 4 -> Byte]
    <3>1. 0 \in Byte
      BY DEF Byte
    <3> QED BY <3>1 DEF Zeros
  <2> DEFINE z == Zeros
             k == <<0, 0, 0, 0>>
             s == <<>>
  <2>2. /\ z \in [2 .. 9 -> Byte] /\ k \in [1 .. 4 -> Byte] /\ s \in Seq(Byte)
        /\ 0 \in Nat /\ 0 \in 0 .. 4 /\ 0 \in 0 .. 15
        /\ NewState = [step |-> "START", opcode |-> 0, mask |-> FALSE, length |-> 0,
              payload |-> z, frame_pos |-> 0, key |-> k, keypos |-> 0,
              data |-> s, inkey |-> 0, close_sent |-> FALSE]
    BY <2>1 DEF NewState
  <2> HIDE DEF z, k, s
  <2> QED BY <2>2 DEF WebSocketState
<1>2. AtStart(NewState)
  BY DEF AtStart, NewState
<1>3. <<>> \in Seq(FrameSet) /\ <<>> \in Seq(Byte)
      /\ <<>> \in Seq([opcode : 0 .. 15, data : Seq(Byte)]) /\ Len(<<>>) = 0
  OBVIOUS
<1>4. /\ ws = [e \in Ends |-> NewState] /\ wire = [e \in Ends |-> <<>>]
      /\ open = [e \in Ends |-> TRUE] /\ delay = [e \in Ends |-> FALSE]
      /\ at = "none" /\ calling = FALSE
      /\ frames = [e \in Ends |-> <<>>] /\ eaten = [e \in Ends |-> 0]
      /\ got = [e \in Ends |-> <<>>]
  BY DEF WsInit
<1>5. WsTypes
  BY <1>1, <1>3, <1>4 DEF WsTypes
<1>6. Runs
  BY <1>4 DEF Runs, Ends
<1>7. ASSUME NEW e \in Ends PROVE LinkTo(e) /\ CloseNoted(e)
  <2>1. Peer(e) \in Ends
    BY Peers
  <2>2. /\ frames[Peer(e)] = <<>> /\ wire[e] = <<>> /\ eaten[e] = 0
        /\ ws[e] = NewState /\ got[e] = <<>> /\ frames[e] = <<>>
    BY <1>4, <2>1
  <2> DEFINE s == <<>>
  <2>3. /\ Len(s) = 0 /\ s \in Seq(FrameSet) /\ s \in Seq(Byte)
        /\ s \in Seq([opcode : 0 .. 15, data : Seq(Byte)]) /\ DOMAIN s = {}
    BY <1>3
  <2> HIDE DEF s
  <2>4. StartOf(s, 1) = 0
    BY DEF StartOf
  <2>5. 1 .. Len(s) = {} /\ Len(s) + 1 = 1 /\ 0 \in 0 .. Len(s)
    BY <2>3
  <2>6. WireOK(Peer(e), s, s)
    BY <2>3, <2>4, <2>5 DEF WireOK
  <2>7. AtFrame(Peer(e), s, 0, NewState, 1)
    <3>1. 1 \in 1 .. Len(s) + 1 /\ ~ 1 <= Len(s)
      BY <2>3
    <3> QED BY <1>2, <2>4, <3>1 DEF AtFrame
  <2>8. GotOK(s, 0, s)
    <3>1. MessagesTo(s, 0) = {}
      BY <2>5 DEF MessagesTo
    <3> QED BY <2>3, <3>1, FS_EmptySet DEF GotOK
  <2>9. Link(Peer(e), s, s, 0, NewState, s)
    BY <2>5, <2>6, <2>7, <2>8 DEF Link
  <2>10. LinkTo(e)
    BY <2>2, <2>9 DEF LinkTo, s
  <2>11. CloseNoted(e)
    BY <2>2, <2>3 DEF CloseNoted, s
  <2> QED BY <2>10, <2>11
<1> QED BY <1>5, <1>6, <1>7 DEF WsInv

\* A turn of the parser's loop keeps it.
LEMMA ParseKeeps ==
    ASSUME WsInv, Parse PROVE WsInv'
<1>1. at \in Ends /\ ~calling
  BY DEF Parse
<1>2. PICK now \in {Now} :
         \/ ParseByte(now)
         \/ EndClose(now) \/ EndPing(now) \/ EndOther(now) \/ EndMessage(now)
  BY DEF Parse
<1>3. now = Now
  BY <1>2
<1>4. CASE ParseByte(now)
  BY <1>1, <1>3, <1>4, ByteKeeps
<1>5. CASE EndClose(now)
  <2>1. /\ Complete(ws[at].step, now) /\ now.opcode = Close
        /\ ape_ws_send_frame(at, ape_ws_reset_frame_state(now), Close)
        /\ delay' = [delay EXCEPT ![at] = TRUE]
        /\ at' = "none" /\ open' = open /\ calling' = calling /\ got' = got
    BY <1>5 DEF EndClose, Ended, ape_ws_close
  <2>2. now.opcode \notin {Text, Binary}
    BY <2>1 DEF Close, Text, Binary
  <2>3. Len(Rest(at)) = 1
    BY <1>1, <1>3, <2>1, CloseEndsWire
  <2>4. eaten' = [eaten EXCEPT ![at] = @ + 1]
    <3>1. PICK n \in 1 .. Len(Rest(at)) : Eat(n)
      BY <1>5 DEF EndClose
    <3>2. n = 1
      BY <2>3, <3>1
    <3> QED BY <3>1, <3>2 DEF Eat
  <2>5. delay' \in [Ends -> BOOLEAN]
    BY <2>1 DEF WsInv, WsTypes
  <2> QED BY <1>1, <1>3, <2>1, <2>2, <2>4, <2>5, EndAnswered
<1>6. CASE EndPing(now)
  <2>1. /\ Complete(ws[at].step, now) /\ now.opcode = Ping
        /\ ape_ws_send_frame(at, NextFrame(now), Pong) /\ EatOne
        /\ delay' = delay /\ open' = open /\ calling' = calling /\ got' = got
    BY <1>6 DEF EndPing, Ended
  <2>2. now.opcode \notin {Text, Binary}
    BY <2>1 DEF Ping, Text, Binary
  <2>3. eaten' = [eaten EXCEPT ![at] = @ + 1]
    BY <2>1 DEF EatOne, Eat
  <2>4. delay' \in [Ends -> BOOLEAN]
    BY <2>1 DEF WsInv, WsTypes
  <2>5. ape_ws_send_frame(at, ape_ws_reset_frame_state(now), Pong)
    BY <1>1, <1>3, <2>1, EndIs, ResetIs
  <2> QED BY <1>1, <1>3, <2>1, <2>2, <2>3, <2>4, <2>5, EndAnswered
<1>7. CASE EndOther(now)
  <2>1. /\ Complete(ws[at].step, now)
        /\ now.opcode \in (0 .. 15) \ {Close, Ping, Text, Binary}
        /\ ws' = [ws EXCEPT ![at] = NextFrame(now)] /\ EatOne
        /\ UNCHANGED <<wire, open, delay, frames>> /\ calling' = calling /\ got' = got
    BY <1>7 DEF EndOther, Ended
  <2>2. got' = [got EXCEPT ![at] = GotThen(now)]
    <3>1. GotThen(now) = got[at] /\ got \in [Ends -> Seq([opcode : 0 .. 15, data : Seq(Byte)])]
      BY <2>1 DEF GotThen, WsInv, WsTypes
    <3> QED BY <2>1, <3>1
  <2>3. eaten' = [eaten EXCEPT ![at] = @ + 1]
    BY <2>1 DEF EatOne, Eat
  <2>4. Runs' /\ at' \in Ends \union {"none"}
    <3>1. Len(wire'[at]) \in Nat /\ Len(wire[at]) <= Len(wire'[at])
      BY <1>1, <2>1, RestIs
    <3> QED BY <1>1, <2>1, <3>1, EatKeepsRuns
  <2>5. calling' \in BOOLEAN
    BY <2>1 DEF WsInv, WsTypes
  <2> QED BY <1>1, <1>3, <2>1, <2>2, <2>3, <2>4, <2>5, EndSilent
<1>8. CASE EndMessage(now)
  <2>1. /\ Complete(ws[at].step, now) /\ now.opcode \in {Text, Binary}
        /\ ws' = [ws EXCEPT ![at] = NextFrame(now)] /\ calling' = TRUE /\ at' = at
        /\ got' = [got EXCEPT ![at] = Append(@,
                  [opcode |-> now.opcode, data |-> SubSeq(now.data, 1, now.inkey)])]
        /\ UNCHANGED <<wire, open, delay, frames>>
        /\ eaten' = [eaten EXCEPT ![at] = @ + 1]
    BY <1>8 DEF EndMessage, Ended, Eat
  <2>2. got' = [got EXCEPT ![at] = GotThen(now)]
    BY <2>1 DEF GotThen
  <2>3. Runs' /\ at' \in Ends \union {"none"} /\ calling' \in BOOLEAN
    BY <1>1, <2>1 DEF Runs
  <2> QED BY <1>1, <1>3, <2>1, <2>2, <2>3, EndSilent
<1> QED BY <1>2, <1>4, <1>5, <1>6, <1>7, <1>8

\* Every step keeps it, of ends whose applications are quiet.
LEMMA WsInvStep ==
    ASSUME Quiet, WsInv, [WsNext]_wsVars PROVE WsInv'
<1>1. ASSUME NEW e \in Ends, NEW m \in Messages, ape_ws_write(e, m[1], m[2])
      PROVE  WsInv'
  <2>1. m \in Messages \union Others
    OBVIOUS
  <2>2. /\ Free(e) /\ (Quiet => ~ws[e].close_sent) /\ Put(e, m[2], Fresh(e, m[1]))
        /\ UNCHANGED <<ws, open, delay, at, calling, eaten, got>>
    BY <1>1 DEF ape_ws_write
  <2> QED BY <2>1, <2>2, WriteKeeps
<1>2. ASSUME NEW e \in Ends, NEW m \in Others, OtherFrame(e, m[1], m[2])
      PROVE  WsInv'
  <2>1. m \in Messages \union Others
    OBVIOUS
  <2>2. /\ Free(e) /\ (Quiet => ~ws[e].close_sent) /\ Put(e, m[2], Fresh(e, m[1]))
        /\ UNCHANGED <<ws, open, delay, at, calling, eaten, got>>
    BY <1>2 DEF OtherFrame
  <2> QED BY <2>1, <2>2, WriteKeeps
<1>3. ASSUME NEW e \in Ends, ape_ws_ping(e)
      PROVE  WsInv'
  <2>1. /\ ape_ws_send_frame(e, ws[e], Ping) /\ delay' = delay
        /\ UNCHANGED <<open, at, calling, eaten, got>>
    BY <1>3 DEF ape_ws_ping
  <2>2. delay' \in [Ends -> BOOLEAN]
    BY <2>1 DEF WsInv, WsTypes
  <2> QED BY <2>1, <2>2, ControlKeeps
<1>4. ASSUME NEW e \in Ends, CallClose(e)
      PROVE  WsInv'
  <2>1. /\ ape_ws_send_frame(e, ws[e], Close) /\ delay' = [delay EXCEPT ![e] = TRUE]
        /\ UNCHANGED <<open, at, calling, eaten, got>>
    BY <1>4 DEF CallClose, ape_ws_close
  <2>2. delay' \in [Ends -> BOOLEAN]
    BY <2>1 DEF WsInv, WsTypes
  <2> QED BY <2>1, <2>2, ControlKeeps
<1>5. ASSUME NEW e \in Ends, Receive(e)
      PROVE  WsInv'
  <2>1. /\ at = "none" /\ Rest(e) # <<>> /\ at' = e
        /\ UNCHANGED <<ws, wire, eaten, open, delay, calling, frames, got>>
    BY <1>5 DEF Receive
  <2>2. eaten[e] < Len(wire[e])
    BY <2>1, RestIs
  <2>3. WsTypes' /\ Runs'
    BY <2>1, <2>2 DEF WsInv, WsTypes, Runs, Ends
  <2>4. \A r \in Ends : LinkTo(r)' /\ CloseNoted(r)'
    BY <2>1 DEF WsInv, LinkTo, CloseNoted
  <2> QED BY <2>3, <2>4 DEF WsInv
<1>6. ASSUME NEW e \in Ends, DelayEnds(e) \/ Disconnect(e)
      PROVE  WsInv'
  <2>1. /\ open' = [open EXCEPT ![e] = FALSE] /\ delay' = [delay EXCEPT ![e] = FALSE]
        /\ UNCHANGED <<ws, wire, eaten, at, calling, frames, got>>
    BY <1>6 DEF DelayEnds, Disconnect
  <2>2. WsTypes' /\ Runs'
    BY <2>1 DEF WsInv, WsTypes, Runs
  <2>3. \A r \in Ends : LinkTo(r)' /\ CloseNoted(r)'
    BY <2>1 DEF WsInv, LinkTo, CloseNoted
  <2> QED BY <2>2, <2>3 DEF WsInv
<1>7. CASE Parse
  BY <1>7, ParseKeeps
<1>8. CASE Return
  <2>1. /\ calling /\ calling' = FALSE /\ at \in Ends
        /\ at' = "none" \/ (at' = at /\ Rest(at) # <<>>)
        /\ UNCHANGED <<ws, wire, eaten, open, delay, frames, got>>
    BY <1>8 DEF Return, MayReturn, WsInv, Runs
  <2>2. Rest(at) # <<>> => eaten[at] < Len(wire[at])
    BY <2>1, RestIs
  <2>3. WsTypes' /\ Runs'
    BY <2>1, <2>2 DEF WsInv, WsTypes, Runs, Ends
  <2>4. \A r \in Ends : LinkTo(r)' /\ CloseNoted(r)'
    BY <2>1 DEF WsInv, LinkTo, CloseNoted
  <2> QED BY <2>3, <2>4 DEF WsInv
<1>9. CASE UNCHANGED wsVars
  <2>1. UNCHANGED <<ws, wire, eaten, open, delay, at, calling, frames, got>>
    BY <1>9 DEF wsVars
  <2>2. WsTypes' /\ Runs'
    BY <2>1 DEF WsInv, WsTypes, Runs
  <2>3. \A r \in Ends : LinkTo(r)' /\ CloseNoted(r)'
    BY <2>1 DEF WsInv, LinkTo, CloseNoted
  <2> QED BY <2>2, <2>3 DEF WsInv
<1> QED BY <1>1, <1>2, <1>3, <1>4, <1>5, <1>6, <1>7, <1>8, <1>9 DEF WsNext

-----------------------------------------------------------------------------
(* The theorems.                                                           *)

\* What a parser within a frame is known to be.
LEMMA ParserIs ==
    ASSUME NEW w \in WebSocketState, NEW p \in Ends, NEW f, IsFrame(f),
           NEW k \in Nat, ParserAt(w, p, f, k)
    PROVE  /\ w.step \in {"SHORT_LENGTH", "EXTENDED_LENGTH"} => w.frame_pos \in 2 .. 9
           /\ w.data # <<>> => Len(w.data) = w.inkey + w.length + 1
<1> DEFINE n == Len(f.data)
           size == FieldLen(n)
           h == Header(p, n)
<1>1. /\ n \in Nat /\ size \in {1, 3, 9} /\ h \in Nat
      /\ h = size + (IF p = "client" THEN 5 ELSE 1)
  BY Sizes
<1>2. \/ k = 0 \/ k = 1 \/ (k > 1 /\ k <= size)
      \/ (k > size /\ k < h /\ k > 1) \/ k >= h
  <2> HIDE DEF n, size, h
  <2> QED BY <1>1
<1>3. w.frame_pos = k
  BY DEF ParserAt
<1>4. CASE k = 0
  BY <1>4 DEF ParserAt, AtStart
<1>5. CASE k = 1
  <2>1. k > 0 /\ k < h
    <3> HIDE DEF n, size, h
    <3> QED BY <1>1, <1>5
  <2>2. w.step = "LENGTH" /\ w.data = <<>>
    BY <1>5, <2>1 DEF ParserAt
  <2> QED BY <2>2
<1>6. CASE k > 1 /\ k <= size
  <2>1. k > 0 /\ k < h /\ k \in 2 .. 9
    <3> HIDE DEF n, size, h
    <3> QED BY <1>1, <1>6
  <2>2. w.data = <<>>
    BY <2>1 DEF ParserAt
  <2> QED BY <1>3, <2>1, <2>2
<1>7. CASE k > size /\ k < h /\ k > 1
  <2>1. k > 0
    BY <1>7
  <2>2. w.data = <<>> /\ InKey(w, f, k - size - 1)
    BY <1>7, <2>1 DEF ParserAt
  <2> QED BY <2>2 DEF InKey
<1>8. CASE k >= h
  <2> DEFINE j == k - h
  <2>1. InData(w, p, f, j)
    BY <1>8 DEF ParserAt
  <2>2. j \in Nat
    <3> HIDE DEF n, size, h
    <3> QED BY <1>1, <1>8
  <2> HIDE DEF j
  <2>3. /\ w.step = "DATA" /\ w.length = n - j /\ w.inkey = j
        /\ w.data = (IF j = 0 THEN <<>> ELSE Filled(f.data, j))
    BY <2>1 DEF InData
  <2>4. ASSUME w.data # <<>> PROVE Len(w.data) = w.inkey + w.length + 1
    <3> DEFINE u == Filled(f.data, j)
    <3>1. w.data = u /\ w.data \in Seq(Byte)
      BY <2>3, <2>4 DEF WebSocketState
    <3>2. DOMAIN u = 1 .. n + 1
      BY DEF Filled
    <3> HIDE DEF u, n
    <3>3. Len(u) \in Nat /\ 1 .. Len(u) = 1 .. n + 1
      BY <3>1, <3>2, LenProperties
    <3>4. Len(u) = n + 1
      <4> DEFINE l == Len(u)
      <4>1. l \in Nat /\ 1 .. l = 1 .. n + 1
        BY <3>3
      <4> HIDE DEF l
      <4>2. n + 1 \in 1 .. l /\ (l # 0 => l \in 1 .. n + 1)
        BY <1>1, <4>1
      <4>3. l = n + 1
        BY <1>1, <4>1, <4>2
      <4> QED BY <4>3 DEF l
    <3>5. w.inkey + w.length = n
      BY <1>1, <2>2, <2>3
    <3>6. w.inkey + w.length + 1 = (w.inkey + w.length) + 1
      OBVIOUS
    <3> QED BY <3>1, <3>4, <3>5, <3>6
  <2> QED BY <2>3, <2>4
<1> QED BY <1>2, <1>4, <1>5, <1>6, <1>7, <1>8

\* What a parser is known to be, anywhere.
LEMMA EndParserIs ==
    ASSUME WsInv, NEW e \in Ends
    PROVE  /\ ws[e].step \in {"SHORT_LENGTH", "EXTENDED_LENGTH"}
                => ws[e].frame_pos \in 2 .. 9
           /\ ws[e].data # <<>> => Len(ws[e].data) = ws[e].inkey + ws[e].length + 1
<1> DEFINE w == ws[e]
           p == Peer(e)
           fs == frames[p]
           wr == wire[e]
           n == eaten[e]
<1>1. /\ w \in WebSocketState /\ p \in Ends /\ WireOK(p, fs, wr) /\ n \in Nat
      /\ \E c : AtFrame(p, fs, n, w, c)
  BY Peers DEF WsInv, WsTypes, LinkTo, Link
<1>2. PICK c : AtFrame(p, fs, n, w, c)
  BY <1>1
<1> HIDE DEF w, p, fs, wr, n
<1>3. Len(fs) \in Nat
  <2>1. fs \in Seq(FrameSet)
    BY <1>1 DEF WireOK
  <2> QED BY <2>1, LenProperties
<1>4. CASE c = Len(fs) + 1
  <2>1. w.step = "START" /\ w.data = <<>>
    BY <1>2, <1>4 DEF AtFrame, AtStart
  <2> QED BY <2>1 DEF w
<1>5. CASE c # Len(fs) + 1
  <2>1. c \in 1 .. Len(fs) + 1 /\ StartOf(fs, c) <= n
    BY <1>2 DEF AtFrame
  <2>2. c \in 1 .. Len(fs) /\ c <= Len(fs)
    BY <1>3, <1>5, <2>1
  <2>3. ParserAt(w, p, fs[c], n - StartOf(fs, c))
    BY <1>2, <2>2 DEF AtFrame
  <2>4. IsFrame(fs[c]) /\ StartOf(fs, c) \in Nat
    BY <1>1, <2>2, FrameOnWire
  <2>5. n - StartOf(fs, c) \in Nat
    BY <1>1, <2>1, <2>4
  <2>6. /\ w.step \in {"SHORT_LENGTH", "EXTENDED_LENGTH"} => w.frame_pos \in 2 .. 9
        /\ w.data # <<>> => Len(w.data) = w.inkey + w.length + 1
    BY <1>1, <2>3, <2>4, <2>5, ParserIs
  <2> QED BY <2>6 DEF w
<1> QED BY <1>4, <1>5

\* The invariant holds throughout.
LEMMA WsInvAlways == Quiet => (WsSpec => []WsInv)
<1> SUFFICES ASSUME Quiet PROVE WsSpec => []WsInv
  OBVIOUS
<1>1. WsInit => WsInv
  BY WsInvInit
<1>2. WsInv /\ [WsNext]_wsVars => WsInv'
  BY WsInvStep
<1> QED BY <1>1, <1>2, PTL DEF WsSpec

\* The parser's fields have their types and frame_pos points into the header
\* while a field is stored there (ape_ws_process_frame).
THEOREM WsTypeCorrect == Quiet => (WsSpec => []WsTypeOK)
<1> SUFFICES ASSUME Quiet PROVE WsSpec => []WsTypeOK
  OBVIOUS
<1>1. WsInv => WsTypeOK
  <2> SUFFICES ASSUME WsInv PROVE WsTypeOK
    OBVIOUS
  <2>1. WsTypes
    BY DEF WsInv
  <2>2. \A e \in Ends : ws[e].step \in {"SHORT_LENGTH", "EXTENDED_LENGTH"}
                          => ws[e].frame_pos \in 2 .. 9
    BY EndParserIs
  <2>3. \A e \in Ends : eaten[e] \in 0 .. Len(wire[e])
    BY RestIs
  <2> QED BY <2>1, <2>2, <2>3 DEF WsTypes, WsTypeOK
<1> QED BY <1>1, WsInvAlways, PTL

\* What was stored of a payload, what is to come and the final NUL fill the
\* buffer that was allocated for it (ape_ws_process_frame).
THEOREM PayloadsFit == Quiet => (WsSpec => []PayloadFits)
<1> SUFFICES ASSUME Quiet PROVE WsSpec => []PayloadFits
  OBVIOUS
<1>1. WsInv => PayloadFits
  BY EndParserIs DEF PayloadFits
<1> QED BY <1>1, WsInvAlways, PTL

\* on_frame is given exactly the messages that have arrived, in order, with
\* their data and kind, however the bytes are cut and the two ends' calls
\* interleave (ape_ws_write, ape_ws_process_frame).
THEOREM MessagesArriveAsWritten == Quiet => (WsSpec => []MessagesAsWritten)
<1> SUFFICES ASSUME Quiet PROVE WsSpec => []MessagesAsWritten
  OBVIOUS
<1>1. WsInv => MessagesAsWritten
  <2> SUFFICES ASSUME WsInv, NEW e \in Ends
               PROVE  LET fs == frames[Peer(e)]
                          ms == ArrivedMessages(e)
                      IN  /\ Len(got[e]) = Cardinality(ms)
                          /\ \A n \in ms : got[e][Cardinality({m \in ms : m <= n})] =
                                [opcode |-> fs[n].opcode, data |-> fs[n].data]
    BY DEF MessagesAsWritten
  <2>1. frames[Peer(e)] \in Seq(FrameSet) /\ GotOK(frames[Peer(e)], eaten[e], got[e])
    BY Peers DEF WsInv, WsTypes, LinkTo, Link
  <2>2. DOMAIN frames[Peer(e)] = 1 .. Len(frames[Peer(e)])
    BY <2>1, LenProperties
  <2>3. ArrivedMessages(e) = MessagesTo(frames[Peer(e)], eaten[e])
    BY <2>2 DEF ArrivedMessages, Arrived, MessagesTo
  <2> QED BY <2>1, <2>3 DEF GotOK, UpTo
<1> QED BY <1>1, WsInvAlways, PTL

\* Nothing is put on the wire behind an end's Close (close_sent).
THEOREM ClosesAreLast == Quiet => (WsSpec => []CloseIsLast)
<1> SUFFICES ASSUME Quiet PROVE WsSpec => []CloseIsLast
  OBVIOUS
<1>1. WsInv => CloseIsLast
  BY DEF WsInv, CloseNoted, CloseIsLast
<1> QED BY <1>1, WsInvAlways, PTL

=============================================================================
