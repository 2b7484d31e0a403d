--------------------------- MODULE BuffersProofs ----------------------------
(***************************************************************************)
(* Proofs about Buffers, for texts of any length and every chunk and page. *)
(*                                                                         *)
(* All ways of putting something in are one of two shapes: the cells go    *)
(* behind what is used, all of them counted (a character, a read) or all   *)
(* but a NUL (the strings).  Each is right if the allocation has room for  *)
(* the cells, which is what buffer_prepare is asked for.                   *)
(***************************************************************************)
EXTENDS Buffers, SequenceTheorems, TLAPS

\* What is in an allocation: characters, and cells that were never written.
Cell == Char \union {Junk}

\* What a buffer holds, cell by cell.
Held ==
    /\ Len(text) = used
    /\ \A i \in 1 .. used : data[i] = text[i]

\* The inductive invariant.
HoldsInv ==
    /\ BufferTypeOK
    /\ ~bad /\ used <= size /\ Held
    /\ terminated => used < size /\ data[used + 1] = Nul

\* The characters the code names, and the case of one, are characters.
LEMMA Characters ==
    /\ Nul \in Char /\ Dash \in Char /\ 97 \in Char
    /\ \A c \in Char : ToLower(c) \in Char /\ ToUpper(c) \in Char
    /\ ToUpper(Junk) = Junk /\ ToUpper(Nul) = Nul
    BY DEF Char, Nul, Dash, Junk, ToLower, ToUpper

\* The types, without the bound on what is used, and cell by cell.
LEMMA Types ==
    ASSUME HoldsInv
    PROVE  /\ MaxUsed \in Nat /\ size \in Nat /\ used \in Nat /\ used <= size
           /\ data \in Seq(Cell) /\ Len(data) = size /\ DOMAIN data = 1 .. size
           /\ text \in Seq(Char) /\ Len(text) = used /\ DOMAIN text = 1 .. used
           /\ \A i \in 1 .. size : data[i] \in Cell
           /\ \A i \in 1 .. used : text[i] \in Char /\ data[i] = text[i]
<1>1. MaxUsed \in Nat
    BY BufferAssumption DEF BufferAssumption
<1>2. /\ size \in Nat /\ used \in 0 .. MaxUsed /\ used <= size
      /\ data \in Seq(Cell) /\ Len(data) = size
      /\ text \in Seq(Char) /\ Len(text) = used
      /\ \A i \in 1 .. used : data[i] = text[i]
    BY DEF HoldsInv, BufferTypeOK, Held, Cell
<1>3. DOMAIN data = 1 .. size /\ \A i \in 1 .. size : data[i] \in Cell
    BY <1>2, LenProperties, ElementOfSeq
<1>4. DOMAIN text = 1 .. used /\ \A i \in 1 .. used : text[i] \in Char
    BY <1>2, LenProperties, ElementOfSeq
<1> QED BY <1>1, <1>2, <1>3, <1>4

\* What is to be shown of a step that keeps the bounds.
LEMMA Kept ==
    ASSUME size' \in Nat, used' \in Nat, used' <= MaxUsed, used' <= size',
           data' \in Seq(Cell), Len(data') = size',
           text' \in Seq(Char), Len(text') = used',
           \A i \in 1 .. used' : data'[i] = text'[i],
           terminated' \in BOOLEAN, bad' = FALSE,
           terminated' => used' < size' /\ data'[used' + 1] = Nul
    PROVE  HoldsInv'
<1>1. used' \in 0 .. MaxUsed
    BY BufferAssumption DEF BufferAssumption
<1>2. BufferTypeOK'
    BY <1>1 DEF BufferTypeOK, Cell
<1> QED BY <1>2 DEF HoldsInv, Held

\* A function on the first numbers is a sequence.
LEMMA FunSeq ==
    ASSUME NEW S, NEW n \in Nat, NEW f \in [1 .. n -> S]
    PROVE  f \in Seq(S) /\ Len(f) = n
<1>1. f \in Seq(S)
    BY SeqDef
<1>2. DOMAIN f = 1 .. n /\ DOMAIN f = 1 .. Len(f) /\ Len(f) \in Nat
    BY <1>1, LenProperties
<1> QED BY <1>1, <1>2

\* It says what the property says.
LEMMA HoldsInvHolds == HoldsInv => BufferHolds
<1> SUFFICES ASSUME HoldsInv PROVE BufferHolds
    OBVIOUS
<1> DEFINE s == SubSeq(data, 1, used)
<1>1. \A i \in 1 .. used : data[i] \in Char
    BY Types
<1>2. s \in Seq(Char) /\ Len(s) = used /\ \A i \in 1 .. used : s[i] = data[i]
  <2>1. used \in Nat /\ used - 1 + 1 = used /\ \A i \in 1 .. used : 1 + i - 1 = i
      BY Types
  <2>2. /\ s \in Seq(Char)
        /\ Len(s) = IF 1 <= used THEN used - 1 + 1 ELSE 0
        /\ \A i \in 1 .. used - 1 + 1 : s[i] = data[1 + i - 1]
      BY <1>1, <2>1, SubSeqProperties
  <2> QED BY <2>1, <2>2
<1>3. s = text
  <2> HIDE DEF s
  <2>1. /\ text \in Seq(Char) /\ Len(text) = used
        /\ \A i \in 1 .. used : data[i] = text[i]
      BY Types
  <2> QED BY <1>2, <2>1, SeqEqual
<1> QED BY <1>3, Types DEF HoldsInv, BufferHolds

\* Cells written where there is room for them are there afterwards, behind what
\* was there before.
LEMMA WriteCells ==
    ASSUME HoldsInv, NEW n \in Nat, NEW cells \in Seq(Char),
           used + Len(cells) <= n, size <= n, Write(n, cells)
    PROVE  /\ size' = n /\ Len(data') = n /\ data' \in Seq(Cell)
           /\ \A i \in 1 .. used : data'[i] = data[i]
           /\ \A i \in 1 .. Len(cells) : data'[used + i] = cells[i]
<1>1. /\ size \in Nat /\ used \in Nat /\ used <= size
      /\ \A i \in 1 .. size : data[i] \in Cell
    BY Types
<1>2. /\ Len(cells) \in Nat /\ DOMAIN cells = 1 .. Len(cells)
      /\ \A i \in 1 .. Len(cells) : cells[i] \in Cell
    BY LenProperties, ElementOfSeq DEF Cell
<1>3. /\ size' = n
      /\ data' = [i \in 1 .. n |->
                    IF i - used \in DOMAIN cells THEN cells[i - used]
                    ELSE IF i <= size THEN data[i] ELSE Junk]
    BY DEF Write
<1>4. \A i \in 1 .. n : data'[i] \in Cell
  <2> SUFFICES ASSUME NEW i \in 1 .. n PROVE data'[i] \in Cell
      OBVIOUS
  <2>1. data'[i] = IF i - used \in DOMAIN cells THEN cells[i - used]
                   ELSE IF i <= size THEN data[i] ELSE Junk
      BY <1>3
  <2>2. i <= size => data[i] \in Cell
      BY <1>1
  <2>3. Junk \in Cell
      BY DEF Cell
  <2> QED BY <1>2, <2>1, <2>2, <2>3
<1>5. data' \in [1 .. n -> Cell]
    BY <1>3, <1>4
<1>6. data' \in Seq(Cell) /\ Len(data') = n
    BY <1>5, FunSeq
<1>7. ASSUME NEW i \in 1 .. used PROVE data'[i] = data[i]
  <2>1. i \in 1 .. n /\ i <= size /\ i - used \notin 1 .. Len(cells)
      BY <1>1, <1>2
  <2> QED BY <1>2, <1>3, <2>1
<1>8. ASSUME NEW i \in 1 .. Len(cells) PROVE data'[used + i] = cells[i]
  <2>1. used + i \in 1 .. n /\ (used + i) - used = i
      BY <1>1, <1>2
  <2> QED BY <1>2, <1>3, <2>1
<1> QED BY <1>3, <1>6, <1>7, <1>8

\* What is put in is put behind what is held, if there is room for it; a NUL
\* that is not counted is behind it.
LEMMA PutIn ==
    ASSUME HoldsInv, NEW n \in Nat, NEW cells \in Seq(Char), NEW m \in Nat,
           m <= Len(cells), used + m <= MaxUsed,
           used + Len(cells) <= n, size <= n,
           Write(n, cells), used' = used + m,
           text' = text \o SubSeq(cells, 1, m), bad' = FALSE,
           terminated' \in BOOLEAN,
           terminated' => m < Len(cells) /\ cells[m + 1] = Nul
    PROVE  HoldsInv'
<1>1. /\ size \in Nat /\ used \in Nat /\ MaxUsed \in Nat
      /\ text \in Seq(Char) /\ Len(text) = used
      /\ \A i \in 1 .. used : data[i] = text[i]
    BY Types
<1>2. /\ size' = n /\ Len(data') = n /\ data' \in Seq(Cell)
      /\ \A i \in 1 .. used : data'[i] = data[i]
      /\ \A i \in 1 .. Len(cells) : data'[used + i] = cells[i]
    BY WriteCells
<1>3. Len(cells) \in Nat /\ \A i \in 1 .. m : cells[i] \in Char
    BY LenProperties, ElementOfSeq
<1> DEFINE s == SubSeq(cells, 1, m)
<1>4. s \in Seq(Char) /\ Len(s) = m /\ \A i \in 1 .. m : s[i] = cells[i]
  <2>1. m - 1 + 1 = m /\ \A i \in 1 .. m : 1 + i - 1 = i
      OBVIOUS
  <2>2. /\ s \in Seq(Char)
        /\ Len(s) = IF 1 <= m THEN m - 1 + 1 ELSE 0
        /\ \A i \in 1 .. m - 1 + 1 : s[i] = cells[1 + i - 1]
      BY <1>3, SubSeqProperties
  <2> QED BY <2>1, <2>2
<1>5. text' = text \o s
    OBVIOUS
<1> HIDE DEF s
<1>6. /\ text' \in Seq(Char) /\ Len(text') = used + m
      /\ \A i \in 1 .. used + m : text'[i] = IF i <= used THEN text[i] ELSE s[i - used]
  <2>1. /\ text \o s \in Seq(Char) /\ Len(text \o s) = Len(text) + Len(s)
        /\ \A i \in 1 .. Len(text) + Len(s) :
              (text \o s)[i] = IF i <= Len(text) THEN text[i] ELSE s[i - Len(text)]
      BY <1>1, <1>4, ConcatProperties
  <2> QED BY <1>1, <1>4, <1>5, <2>1
<1>7. \A i \in 1 .. used' : data'[i] = text'[i]
  <2> SUFFICES ASSUME NEW i \in 1 .. used + m PROVE data'[i] = text'[i]
      OBVIOUS
  <2>1. CASE i <= used
    <3>1. i \in 1 .. used
        BY <1>1, <2>1
    <3> QED BY <1>1, <1>2, <1>6, <3>1, <2>1
  <2>2. CASE ~(i <= used)
    <3>1. i - used \in 1 .. m /\ i - used \in 1 .. Len(cells) /\ i = used + (i - used)
        BY <1>1, <1>3, <2>2
    <3>2. text'[i] = cells[i - used]
        BY <1>4, <1>6, <2>2, <3>1
    <3>3. data'[used + (i - used)] = cells[i - used]
        BY <1>2, <3>1
    <3> QED BY <3>1, <3>2, <3>3
  <2> QED BY <2>1, <2>2
<1>8. terminated' => used' < size' /\ data'[used' + 1] = Nul
  <2> SUFFICES ASSUME terminated' PROVE used' < size' /\ data'[used' + 1] = Nul
      OBVIOUS
  <2>1. m + 1 \in 1 .. Len(cells) /\ used' + 1 = used + (m + 1) /\ used' < n
      BY <1>1, <1>3
  <2>2. data'[used + (m + 1)] = cells[m + 1]
      BY <1>2, <2>1
  <2> QED BY <1>2, <2>1, <2>2
<1>9. used' \in Nat /\ used' <= MaxUsed /\ used' <= size'
    BY <1>1, <1>2, <1>3
<1> QED BY <1>2, <1>6, <1>7, <1>8, <1>9, Kept

\* A text with its NUL.
LEMMA WithNul ==
    ASSUME NEW t \in Seq(Char)
    PROVE  /\ Append(t, Nul) \in Seq(Char) /\ Len(Append(t, Nul)) = Len(t) + 1
           /\ Append(t, Nul)[Len(t) + 1] = Nul /\ Len(t) \in Nat
<1>1. Nul \in Char /\ Len(t) \in Nat
    BY Characters, LenProperties
<1> QED BY <1>1, AppendProperties

\* buffer_prepare makes the room it is asked for, and keeps what there is.
LEMMA Room ==
    ASSUME HoldsInv, NEW n \in Nat, NEW fewer \in 0 .. n
    PROVE  /\ buffer_prepare(n) \in Nat /\ size <= buffer_prepare(n)
           /\ used + n <= buffer_prepare(n)
           /\ buffer_prepare_for(n, fewer) \in Nat
           /\ size <= buffer_prepare_for(n, fewer)
           /\ used + fewer <= buffer_prepare_for(n, fewer)
    BY Types DEF buffer_prepare, buffer_prepare_for

\* The strings: the cells are a text and its NUL.
LEMMA PutString ==
    ASSUME HoldsInv, NEW t \in Seq(Char),
           Write(buffer_prepare(Len(t) + 1), Append(t, Nul)),
           Use(Len(t), Append(t, Nul))
    PROVE  HoldsInv'
<1> DEFINE cells == Append(t, Nul)
           n == buffer_prepare(Len(t) + 1)
<1>1. /\ cells \in Seq(Char) /\ Len(cells) = Len(t) + 1
      /\ cells[Len(t) + 1] = Nul /\ Len(t) \in Nat
    BY WithNul
<1>2. n \in Nat /\ size <= n /\ used + Len(cells) <= n
  <2>1. Len(t) + 1 \in Nat /\ 0 \in 0 .. Len(t) + 1
      BY <1>1
  <2>2. n \in Nat /\ size <= n /\ used + (Len(t) + 1) <= n
      BY <2>1, Room
  <2> QED BY <1>1, <2>2
<1>3. Write(n, cells) /\ Use(Len(t), cells)
    OBVIOUS
<1> HIDE DEF cells, n
<1>4. size' = n
    BY <1>3 DEF Write
<1>5. /\ used + Len(t) <= MaxUsed /\ used' = used + Len(t)
      /\ text' = text \o SubSeq(cells, 1, Len(t))
      /\ terminated' = (Len(cells) > Len(t))
      /\ bad' = (bad \/ used + Len(cells) > size')
    BY <1>3 DEF Use
<1>6. used \in Nat /\ ~bad
    BY Types DEF HoldsInv
<1>7. bad' = FALSE /\ terminated' \in BOOLEAN
  <2>1. ~(used + Len(cells) > size') /\ Len(cells) > Len(t)
      BY <1>1, <1>2, <1>4, <1>6
  <2> QED BY <1>5, <1>6, <2>1, Zenon
<1>8. Len(t) < Len(cells)
    BY <1>1
<1>9. Len(t) <= Len(cells)
    BY <1>1
<1> QED BY <1>1, <1>2, <1>3, <1>5, <1>7, <1>8, <1>9, PutIn

\* Lower case is a character again.
LEMMA Lowered ==
    ASSUME NEW t \in Seq(Char)
    PROVE  /\ [i \in DOMAIN t |-> ToLower(t[i])] \in Seq(Char)
           /\ Len([i \in DOMAIN t |-> ToLower(t[i])]) = Len(t)
<1>1. Len(t) \in Nat /\ DOMAIN t = 1 .. Len(t) /\ \A i \in 1 .. Len(t) : t[i] \in Char
    BY LenProperties, ElementOfSeq
<1>2. [i \in DOMAIN t |-> ToLower(t[i])] \in [1 .. Len(t) -> Char]
    BY <1>1, Characters
<1> QED BY <1>1, <1>2, FunSeq

\* A capital is a character again, and whether one is due depends on the
\* characters up to it only.
LEMMA Camels ==
    ASSUME HoldsInv, terminated
    PROVE  /\ Camel(data) \in Seq(Cell) /\ Len(Camel(data)) = size
           /\ Camel(text) \in Seq(Char) /\ Len(Camel(text)) = used
           /\ \A i \in 1 .. used : Camel(data)[i] = Camel(text)[i]
           /\ Camel(data)[used + 1] = Nul
<1>1. /\ size \in Nat /\ used \in Nat
      /\ DOMAIN data = 1 .. size /\ DOMAIN text = 1 .. used
      /\ \A i \in 1 .. size : data[i] \in Cell
      /\ \A i \in 1 .. used : text[i] \in Char /\ data[i] = text[i]
    BY Types
<1>2. used < size /\ data[used + 1] = Nul
    BY DEF HoldsInv
<1>3. \A c \in Cell : ToUpper(c) \in Cell
    BY Characters DEF Cell
<1>4. Camel(data) \in Seq(Cell) /\ Len(Camel(data)) = size
  <2>1. Camel(data) \in [1 .. size -> Cell]
      BY <1>1, <1>3 DEF Camel
  <2> QED BY <1>1, <2>1, FunSeq
<1>5. Camel(text) \in Seq(Char) /\ Len(Camel(text)) = used
  <2>1. Camel(text) \in [1 .. used -> Char]
      BY <1>1, Characters DEF Camel
  <2> QED BY <1>1, <2>1, FunSeq
<1>6. ASSUME NEW i \in 1 .. used PROVE Camel(data)[i] = Camel(text)[i]
  <2>1. i \in DOMAIN data /\ i \in DOMAIN text /\ data[i] = text[i]
      BY <1>1, <1>2
  <2>2. \A j \in 1 .. i : data[j] = text[j]
      BY <1>1
  <2>3. i = 1 \/ data[i - 1] = text[i - 1]
    <3>1. i = 1 \/ i - 1 \in 1 .. used
        BY <1>1
    <3> QED BY <1>1, <3>1
  <2> QED BY <2>1, <2>2, <2>3 DEF Camel
<1>7. Camel(data)[used + 1] = Nul
  <2>1. used + 1 \in DOMAIN data /\ used + 1 \in 1 .. used + 1
      BY <1>1, <1>2
  <2> QED BY <1>2, <2>1 DEF Camel
<1> QED BY <1>4, <1>5, <1>6, <1>7

\* Every way of filling and emptying a buffer keeps it.
LEMMA HoldsNext == HoldsInv /\ [BufferNext]_bufferVars => HoldsInv'
<1> SUFFICES ASSUME HoldsInv, [BufferNext]_bufferVars PROVE HoldsInv'
    OBVIOUS
<1> USE BufferAssumption DEF BufferAssumption
<1>1. ASSUME NEW t \in Texts, buffer_append_string_n(t) \/ buffer_append_data(t)
      PROVE  HoldsInv'
  <2>1. t \in Seq(Char)
      OBVIOUS
  <2>2. /\ Write(buffer_prepare(Len(t) + 1), Append(t, Nul))
        /\ Use(Len(t), Append(t, Nul))
      BY <1>1 DEF buffer_append_string_n, buffer_append_data
  <2> QED BY <2>1, <2>2, PutString
<1>2. ASSUME NEW t \in Texts, buffer_append_data_tolower(t) PROVE HoldsInv'
  <2> DEFINE low == [i \in DOMAIN t |-> ToLower(t[i])]
  <2>1. t \in Seq(Char)
      OBVIOUS
  <2>2. low \in Seq(Char) /\ Len(low) = Len(t)
      BY <2>1, Lowered
  <2>3. /\ Write(buffer_prepare(Len(t) + 1), Append(low, Nul))
        /\ Use(Len(t), Append(low, Nul))
      BY <1>2 DEF buffer_append_data_tolower
  <2> HIDE DEF low
  <2>4. /\ Write(buffer_prepare(Len(low) + 1), Append(low, Nul))
        /\ Use(Len(low), Append(low, Nul))
      BY <2>2, <2>3
  <2> QED BY <2>2, <2>4, PutString
<1>3. ASSUME NEW c \in {Dash, 97}, buffer_append_char(c) PROVE HoldsInv'
  <2> DEFINE n == buffer_prepare_for(Chunk, 1)
             cells == <<c>>
  <2>1. cells \in Seq(Char) /\ Len(cells) = 1 /\ SubSeq(cells, 1, 1) = cells
    <3>1. c \in Char
        BY Characters
    <3>2. cells \in Seq(Char) /\ Len(cells) = 1
        BY <3>1
    <3> QED BY <3>2, SubSeqFull
  <2>2. n \in Nat /\ size <= n /\ used + 1 <= n
    <3>1. Chunk \in Nat /\ 1 \in 0 .. Chunk
        OBVIOUS
    <3> QED BY <3>1, Room
  <2>3. Write(n, cells) /\ Use(1, cells)
      BY <1>3 DEF buffer_append_char
  <2> HIDE DEF n, cells
  <2>4. size' = n
      BY <2>3 DEF Write
  <2>5. /\ used + 1 <= MaxUsed /\ used' = used + 1
        /\ text' = text \o SubSeq(cells, 1, 1)
        /\ terminated' = (Len(cells) > 1)
        /\ bad' = (bad \/ used + Len(cells) > size')
      BY <2>3 DEF Use
  <2>6. used \in Nat /\ ~bad
      BY Types DEF HoldsInv
  <2>7. bad' = FALSE /\ terminated' = FALSE /\ used + Len(cells) <= n
    <3>1. used + Len(cells) <= n /\ ~(used + Len(cells) > size') /\ ~(Len(cells) > 1)
        BY <2>1, <2>2, <2>4, <2>6
    <3>2. bad' = FALSE
        BY <2>5, <2>6, <3>1, Zenon
    <3>3. terminated' = FALSE
      <4>1. (Len(cells) > 1) = FALSE
          BY <2>1
      <4> QED BY <2>5, <4>1
    <3> QED BY <3>1, <3>2, <3>3
  <2>8. 1 \in Nat /\ 1 <= Len(cells)
      BY <2>1
  <2> QED BY <2>1, <2>2, <2>3, <2>5, <2>7, <2>8, PutIn
<1>4. ASSUME NEW t \in Texts, ape_socket_read(t) PROVE HoldsInv'
  <2> DEFINE n == buffer_prepare(Page)
             room == n - used
             m == IF Len(t) < room THEN Len(t) ELSE room
             cells == SubSeq(t, 1, m)
  <2>1. n \in Nat /\ size <= n /\ used + Page <= n
    <3>1. Page \in Nat /\ 0 \in 0 .. Page
        OBVIOUS
    <3> QED BY <3>1, Room
  <2>2. used \in Nat /\ ~bad /\ Page \in Nat /\ Page # 0
      BY Types DEF HoldsInv
  <2>3. t \in Seq(Char) /\ Len(t) \in Nat
      BY LenProperties
  <2>4. /\ Write(n, cells) /\ used + m <= MaxUsed /\ used' = used + m
        /\ text' = text \o cells /\ terminated' = FALSE /\ bad' = (bad \/ room = 0)
      BY <1>4 DEF ape_socket_read
  <2> HIDE DEF n
  <2>5. room \in Nat /\ room # 0
      BY <2>1, <2>2
  <2>6. m \in 0 .. Len(t) /\ used + m <= n
      BY <2>1, <2>2, <2>3, <2>5
  <2>7. bad' = FALSE
      BY <2>2, <2>4, <2>5
  <2> HIDE DEF room, m
  <2>8. cells \in Seq(Char) /\ Len(cells) = m /\ SubSeq(cells, 1, m) = cells
    <3>1. \A i \in 1 .. m : t[i] \in Char
        BY <2>3, <2>6, ElementOfSeq
    <3>2. /\ cells \in Seq(Char)
          /\ Len(cells) = IF 1 <= m THEN m - 1 + 1 ELSE 0
        BY <2>6, <3>1, SubSeqProperties
    <3>3. Len(cells) = m
        BY <2>3, <2>6, <3>2
    <3> QED BY <3>2, <3>3, SubSeqFull
  <2> HIDE DEF cells
  <2>9. m \in Nat /\ m <= Len(cells) /\ used + Len(cells) <= n
      BY <2>3, <2>6, <2>8
  <2> QED BY <2>1, <2>4, <2>7, <2>8, <2>9, PutIn
<1>5. CASE Consume
  <2>1. /\ used' = 0 /\ text' = <<>> /\ terminated' = FALSE
        /\ size' = size /\ data' = data /\ bad' = bad
      BY <1>5 DEF Consume
  <2>2. /\ size \in Nat /\ data \in Seq(Cell) /\ Len(data) = size
        /\ bad = FALSE /\ MaxUsed \in Nat
      BY Types DEF HoldsInv, BufferTypeOK
  <2>3. text' \in Seq(Char) /\ Len(text') = used'
      BY <2>1, EmptySeq
  <2>4. /\ used' \in Nat /\ used' <= MaxUsed /\ used' <= size'
        /\ \A i \in 1 .. used' : FALSE
      BY <2>1, <2>2
  <2> QED BY <2>1, <2>2, <2>3, <2>4, Kept
<1>6. CASE buffer_camelify
  <2>1. /\ terminated /\ data' = Camel(data) /\ text' = Camel(text)
        /\ size' = size /\ used' = used /\ terminated' = terminated /\ bad' = bad
      BY <1>6 DEF buffer_camelify
  <2>2. /\ size \in Nat /\ used \in Nat /\ used < size /\ used <= MaxUsed
        /\ bad = FALSE /\ terminated \in BOOLEAN
      BY <2>1, Types DEF HoldsInv, BufferTypeOK
  <2>3. used <= size
      BY <2>2
  <2> QED BY <2>1, <2>2, <2>3, Camels, Kept
<1>7. CASE buffer_delete
  <2>1. /\ size' = 0 /\ used' = 0 /\ data' = <<>>
        /\ text' = <<>> /\ terminated' = FALSE /\ bad' = bad
      BY <1>7 DEF buffer_delete
  <2>2. bad = FALSE /\ MaxUsed \in Nat
      BY Types DEF HoldsInv, BufferTypeOK
  <2>3. /\ text' \in Seq(Char) /\ Len(text') = used'
        /\ data' \in Seq(Cell) /\ Len(data') = size'
      BY <2>1, EmptySeq
  <2>4. /\ size' \in Nat /\ used' \in Nat /\ used' <= MaxUsed /\ used' <= size'
        /\ \A i \in 1 .. used' : FALSE
      BY <2>1, <2>2
  <2> QED BY <2>1, <2>2, <2>3, <2>4, Kept
<1>8. CASE UNCHANGED bufferVars
    BY <1>8 DEF bufferVars, HoldsInv, BufferTypeOK, Held
<1> QED
    BY <1>1, <1>2, <1>3, <1>4, <1>5, <1>6, <1>7, <1>8 DEF BufferNext

\* An empty buffer, allocated or not.
LEMMA HoldsInit == BufferInit => HoldsInv
<1> SUFFICES ASSUME BufferInit PROVE HoldsInv
    OBVIOUS
<1>1. /\ size \in 0 .. 2 /\ used = 0 /\ data = [i \in 1 .. size |-> Junk]
      /\ text = <<>> /\ terminated = FALSE /\ bad = FALSE
    BY DEF BufferInit, Junks
<1>2. size \in Nat
    BY <1>1
<1>3. data \in [1 .. size -> Cell]
    BY <1>1 DEF Cell
<1>4. data \in Seq(Cell) /\ Len(data) = size
    BY <1>2, <1>3, FunSeq
<1>5. text \in Seq(Char) /\ Len(text) = 0
    BY <1>1, EmptySeq
<1>6. used \in 0 .. MaxUsed
    BY <1>1, BufferAssumption DEF BufferAssumption
<1>7. BufferTypeOK
    BY <1>1, <1>2, <1>4, <1>5, <1>6 DEF BufferTypeOK, Cell
<1>8. used <= size /\ \A i \in 1 .. used : FALSE
    BY <1>1
<1> QED
    BY <1>1, <1>5, <1>7, <1>8 DEF HoldsInv, Held

\* The variables of a buffer keep their types: the allocation is as large as
\* size says (buffer_prepare).
THEOREM BufferTypeCorrect == BufferInit /\ [][BufferNext]_bufferVars => []BufferTypeOK
<1>1. HoldsInv => BufferTypeOK
    BY DEF HoldsInv
<1> QED
    BY <1>1, HoldsInit, HoldsNext, PTL

\* A buffer holds what was appended and read, in order, with its NUL if one was
\* written; no write leaves the allocation, and no read is given an empty one
\* (buffer_prepare, buffer_append_string_n, ape_socket_read).
THEOREM BufferCorrect == BufferInit /\ [][BufferNext]_bufferVars => []BufferHolds
    BY HoldsInit, HoldsNext, HoldsInvHolds, PTL
=============================================================================
