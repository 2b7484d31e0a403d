------------------------------ MODULE Buffers -------------------------------
(***************************************************************************)
(* ape_buffer.c without zlib: an allocation that grows and how much of it  *)
(* is used, as the array (keys and values) and sockets (data_in) use it.   *)
(* data is the memory, as long as it was allocated; cells that were never  *)
(* written are Junk.  Characters are their numbers.                        *)
(***************************************************************************)
EXTENDS Integers, Sequences

CONSTANTS
    Texts,    \* what is appended, or read
    Chunk,    \* 1024: growth for a single character
    Page,     \* 2048: room for what is read
    MaxUsed   \* bound: how much a buffer holds

Char == 0 .. 255

ASSUME BufferAssumption ==
    /\ Texts \subseteq Seq(Char)
    /\ Chunk \in Nat \ {0} /\ Page \in Nat \ {0} /\ MaxUsed \in Nat

VARIABLES
    size, used, data,  \* the buffer
    text,              \* history: what it should hold
    terminated,        \* history: a NUL was written behind it
    bad                \* history: a write behind the allocation, or a read
                       \* with no room, whose 0 bytes pass for the end

bufferVars == <<size, used, data, text, terminated, bad>>

Junk == -1
Nul  == 0
Dash == 45

ToLower(c) == IF c \in 65 .. 90 THEN c + 32 ELSE c
ToUpper(c) == IF c \in 97 .. 122 THEN c - 32 ELSE c

Junks(n) == [i \in 1 .. n |-> Junk]

\* buffer_init, buffer_new
BufferInit ==
    /\ size \in 0 .. 2 /\ used = 0 /\ data = Junks(size)
    /\ text = <<>> /\ terminated = FALSE /\ bad = FALSE

\* The new size.
buffer_prepare(n) ==
    IF size = 0 THEN n ELSE IF used + n > size THEN size + n ELSE size

\* Growth by n, if there is no room for fewer.
buffer_prepare_for(n, fewer) ==
    IF size = 0 THEN n ELSE IF used + fewer > size THEN size + n ELSE size

\* The allocation has newSize cells (realloc keeps the old ones), and cells go
\* behind what is used.
Write(newSize, cells) ==
    /\ size' = newSize
    /\ data' = [i \in 1 .. newSize |->
                  IF i - used \in DOMAIN cells THEN cells[i - used]
                  ELSE IF i <= size THEN data[i] ELSE Junk]

\* So many of the cells are counted as used.
Use(n, cells) ==
    /\ used + n <= MaxUsed
    /\ used' = used + n
    /\ text' = text \o SubSeq(cells, 1, n)
    /\ terminated' = (Len(cells) > n)
    /\ bad' = (bad \/ used + Len(cells) > size')

\* Mutant of buffer_append_string_n: no room for the NUL.
AppendTight(t) ==
    Write(buffer_prepare(Len(t)), Append(t, Nul)) /\ Use(Len(t), Append(t, Nul))

\* buffer_append_string as well
buffer_append_string_n(t) ==
    Write(buffer_prepare(Len(t) + 1), Append(t, Nul)) /\ Use(Len(t), Append(t, Nul))

buffer_append_data(t) ==
    /\ t # <<>>
    /\ Write(buffer_prepare(Len(t) + 1), Append(t, Nul)) /\ Use(Len(t), Append(t, Nul))

buffer_append_data_tolower(t) ==
    LET cells == Append([i \in DOMAIN t |-> ToLower(t[i])], Nul) IN
    Write(buffer_prepare(Len(t) + 1), cells) /\ Use(Len(t), cells)

\* No NUL.
buffer_append_char(c) ==
    Write(buffer_prepare_for(Chunk, 1), <<c>>) /\ Use(1, <<c>>)

\* ape_socket_read: what read() finds, as much as there is room for.
ape_socket_read(t) ==
    LET newSize == buffer_prepare(Page)
        room    == newSize - used
        n       == IF Len(t) < room THEN Len(t) ELSE room
    IN  /\ Write(newSize, SubSeq(t, 1, n))
        /\ used + n <= MaxUsed
        /\ used' = used + n /\ text' = text \o SubSeq(t, 1, n)
        /\ terminated' = FALSE /\ bad' = (bad \/ room = 0)

\* on_read has seen it.
Consume ==
    /\ used > 0
    /\ used' = 0 /\ text' = <<>> /\ terminated' = FALSE
    /\ UNCHANGED <<size, data, bad>>

\* The characters before the first NUL, capital where a word begins.
Camel(cells) ==
    [i \in DOMAIN cells |->
        IF (\A j \in 1 .. i : cells[j] # Nul) /\ (i = 1 \/ cells[i - 1] = Dash)
        THEN ToUpper(cells[i]) ELSE cells[i]]

\* It ends at a NUL: its callers append a string before.
buffer_camelify ==
    /\ terminated
    /\ data' = Camel(data) /\ text' = Camel(text)
    /\ UNCHANGED <<size, used, terminated, bad>>

\* The structure may be used again.
buffer_delete ==
    /\ size > 0
    /\ size' = 0 /\ used' = 0 /\ data' = <<>>
    /\ text' = <<>> /\ terminated' = FALSE /\ UNCHANGED bad

BufferNext ==
    \/ \E t \in Texts :
          \/ buffer_append_string_n(t) \/ buffer_append_data(t)
          \/ buffer_append_data_tolower(t) \/ ape_socket_read(t)
    \/ \E c \in {Dash, 97} : buffer_append_char(c)
    \/ Consume \/ buffer_camelify \/ buffer_delete

-----------------------------------------------------------------------------
(* Properties.                                                             *)

BufferTypeOK ==
    /\ size \in Nat /\ used \in 0 .. MaxUsed /\ Len(data) = size
    /\ data \in Seq(Char \union {Junk}) /\ text \in Seq(Char)
    /\ terminated \in BOOLEAN /\ bad \in BOOLEAN

\* However it grew, a buffer holds what was appended or read, in order, with
\* the NUL behind it if that was written; no write leaves the allocation and
\* no read is given an empty one (buffer_prepare, buffer_prepare_for).
BufferHolds ==
    /\ ~bad /\ used = Len(text) /\ used <= size
    /\ SubSeq(data, 1, used) = text
    /\ terminated => used < size /\ data[used + 1] = Nul
=============================================================================
