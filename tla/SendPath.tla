------------------------------ MODULE SendPath ------------------------------
(***************************************************************************)
(* What happens to the data an application writes to a plain TCP socket:   *)
(* APE_socket_write, APE_sendfile and APE_socket_shutdown, the job list    *)
(* they fill when the kernel would block, ape_socket_do_jobs that empties  *)
(* it, and the pools both are built from (ape_socket.c, ape_pool.c).       *)
(*                                                                         *)
(* A pool list is a sequence, its head first and its "queue" last; no      *)
(* pointer of it is used otherwise.  The job list is such a sequence,      *)
(* `slots', with the index of its "current".  Of a packet list, a sequence *)
(* holds the packets, and a number counts the free slots behind them.      *)
(*                                                                         *)
(* Data is a sequence of bytes <<item, index>>: an item is what one call   *)
(* of the API was given.  A file is an item of one byte.                   *)
(***************************************************************************)
EXTENDS Integers, Sequences, FiniteSets, SequencesExt

CONSTANTS
    MaxItems,     \* bound: items given in a behaviour
    Lengths,      \* their lengths
    MaxBuffer,    \* max_buffer_memory_mb, in bytes; no limit if 0
    JobChunk,     \* 2: slots of a new job list, and what it grows by
    MaxSlots,     \* bound: no shutdown is queued beyond that slot
    PacketChunk,  \* 8: the same, of a packet list
    MaxChunks,    \* IOV_MAX
    Files,        \* APE_sendfile is used
    Whole         \* after a write in part, the kernel would block

ASSUME SendPathAssumption ==
    /\ MaxItems \in Nat /\ MaxBuffer \in Nat
    /\ Lengths \subseteq Nat \ {0}
    /\ JobChunk \in Nat \ {0} /\ MaxSlots \in Nat /\ PacketChunk \in Nat \ {0, 1}
    /\ MaxChunks \in Nat \ {0}
    /\ Files \in BOOLEAN /\ Whole \in BOOLEAN

VARIABLES
    pc,        \* "user", or the call of the library in progress
    state,     \* of the socket; "FREED" after ape_socket_free
    blocked,   \* APE_SOCKET_WOULD_BLOCK
    slots, current,
    buffered,  \* current_buffer_memory_bytes
    total,     \* ape->total_memory_buffered
    writing,   \* locals of APE_socket_write: the item, and t_bytes
    njobs,     \* njobsdone of ape_socket_do_jobs
    length,    \* of the items given to the API, in order
    accepted,  \* history: the bytes of the items taken
    sent,      \* what the kernel has got
    asked,     \* history: Len(accepted) when a shutdown was queued, or -1
    ended,     \* history: "no", "orderly" by a shutdown, "cut" otherwise
    released   \* history: how often each item's buffer was released

vars == <<pc, state, blocked, slots, current, buffered, total, writing, njobs,
          length, accepted, sent, asked, ended, released>>

Items     == 1 .. MaxItems
JobTypes  == {"WRITEV", "SENDFILE", "SHUTDOWN"}
Packet    == [item : Items, len : Nat, offset : Nat]

\* "ptr" is the union: nothing, a list of packets, a file.
Slot == [flags : SUBSET (JobTypes \union {"ACTIVE"}),
         ptr   : {"null", "list", "file"},
         list  : Seq(Packet), spare : Nat, file : Items \union {0}]

EmptySlot == [flags |-> {}, ptr |-> "null", list |-> <<>>, spare |-> 0,
              file |-> 0]

NewPool(n) == [i \in 1 .. n |-> EmptySlot]

Init ==
    /\ pc = "user" /\ state = "ONLINE" /\ blocked = FALSE
    /\ slots = NewPool(JobChunk) /\ current = 1
    /\ buffered = 0 /\ total = 0
    /\ writing = [item |-> 0, t_bytes |-> 0]
    /\ njobs = 0
    /\ length = <<>> /\ accepted = <<>> /\ sent = <<>>
    /\ asked = -1 /\ ended = "no"
    /\ released = [i \in Items |-> 0]

-----------------------------------------------------------------------------
(* The pools.                                                              *)

Active(slot) == "ACTIVE" \in slot.flags
Type(slot)   == slot.flags \ {"ACTIVE"}
Left(p)      == p.len - p.offset

\* PartialSums(f)[k] = f[1] + ... + f[k].
PartialSums(f) ==
    LET sum[k \in 0 .. Len(f)] == IF k = 0 THEN 0 ELSE sum[k - 1] + f[k]
    IN  sum

SumOf(f) == PartialSums(f)[Len(f)]

Lefts(list)   == [k \in DOMAIN list |-> Left(list[k])]
LeftIn(list)  == SumOf(Lefts(list))
SlotLefts(ss) == [i \in DOMAIN ss |-> LeftIn(ss[i].list)]
SlotsLeft(ss) == SumOf(SlotLefts(ss))

\* The bytes from .. to of an item.
BytesOf(i, from, to) == [k \in 1 .. to - from + 1 |-> <<i, from + k - 1>>]

Busy == blocked \/ Active(slots[1])

\* ape_socket_job_get_slot: data joins the current write job; else an
\* inactive current slot is taken; else the next one.
Joins(type) ==
    \/ type = "WRITEV" /\ "WRITEV" \in slots[current].flags
    \/ ~Active(slots[current])

SlotIndex(type) == IF Joins(type) THEN current ELSE current + 1

Grown(type) == IF SlotIndex(type) > Len(slots)
               THEN slots \o NewPool(JobChunk) ELSE slots

ape_socket_job_get_slot(type) ==
    [Grown(type) EXCEPT ![SlotIndex(type)].flags = @ \union {"ACTIVE", type}]

\* Mutant of ape_pool_head_to_current: the head goes to the end of the list.
HeadToEnd(ss, c) ==
    IF c = 1 THEN [slots |-> ss, current |-> 1]
    ELSE [slots |-> Tail(ss) \o <<Head(ss)>>, current |-> Len(ss)]

\* ape_pool_head_to_current: the head goes behind the current slot, and is
\* the current one.
ape_pool_head_to_current(ss, c) ==
    IF c = 1 THEN [slots |-> ss, current |-> 1]
    ELSE [slots |-> InsertAt(Tail(ss), c, Head(ss)), current |-> c]

-----------------------------------------------------------------------------
(* The end of a socket.                                                    *)

\* ape_shutdown: the release is scheduled.
ape_shutdown(how) ==
    IF state = "ONLINE" THEN state' = "SHUTDOWN" /\ ended' = how
                        ELSE UNCHANGED <<state, ended>>

\* The buffers released by ape_socket_job_pool_cleaner, and what was left.
Cleaned == {i \in DOMAIN slots : Active(slots[i])
                                 /\ Type(slots[i]) = {"WRITEV"}}

Holds(item) == \E i \in Cleaned : \E k \in DOMAIN slots[i].list :
                  slots[i].list[k].item = item

\* Mutant of ape_socket_free: the jobs are not cleaned.
FreeUncleaned ==
    /\ pc = "user" /\ state = "SHUTDOWN"
    /\ state' = "FREED"
    /\ slots' = NewPool(JobChunk) /\ current' = 1
    /\ UNCHANGED <<pc, blocked, buffered, total, writing, njobs, length,
                   accepted, sent, asked, ended, released>>

\* The timer scheduled at the end: ape_socket_free.
ape_socket_free ==
    /\ pc = "user" /\ state = "SHUTDOWN"
    /\ state' = "FREED"
    /\ released' = [i \in Items |-> released[i] + IF Holds(i) THEN 1 ELSE 0]
    /\ total' = total - SumOf([i \in DOMAIN slots |->
                                 IF i \in Cleaned THEN LeftIn(slots[i].list)
                                                  ELSE 0])
    /\ slots' = NewPool(JobChunk) /\ current' = 1
    /\ UNCHANGED <<pc, blocked, buffered, writing, njobs, length, accepted,
                   sent, asked, ended>>

\* The stream ended or failed for ape_socket_read: ape_socket_destroy.
PeerCloses ==
    /\ pc = "user" /\ state = "ONLINE"
    /\ ape_shutdown("cut")
    /\ UNCHANGED <<pc, blocked, slots, current, buffered, total, writing,
                   njobs, length, accepted, sent, asked, released>>

-----------------------------------------------------------------------------
(* The API, called by the loop's callbacks.                                *)

InUserCode == pc \in {"user", "drain"}

\* Mutant of ape_socket_queue_data: the last free slot is used up.
QueueUngrown(item, offset) ==
    LET len == length'[item]
        at  == SlotIndex("WRITEV")
        ss  == ape_socket_job_get_slot("WRITEV")
        old == IF ss[at].ptr = "list" THEN ss[at].spare ELSE PacketChunk
        p   == [item |-> item, len |-> len, offset |-> offset]
    IN  /\ ss[at].ptr # "file"
        /\ slots' = [ss EXCEPT ![at].ptr = "list",
                               ![at].list = Append(@, p),
                               ![at].spare = old - 1]
        /\ current' = at
        /\ buffered' = buffered + len - offset
        /\ total' = total + len - offset
        /\ IF MaxBuffer # 0 /\ buffered' > MaxBuffer
           THEN ape_shutdown("cut") ELSE UNCHANGED <<state, ended>>

\* ape_socket_queue_data.  (When the slot holds a file, its number is used
\* as the address of a list: what comes then is not described.)
ape_socket_queue_data(item, offset) ==
    LET len == length'[item]
        at  == SlotIndex("WRITEV")
        ss  == ape_socket_job_get_slot("WRITEV")
        old == IF ss[at].ptr = "list" THEN ss[at].spare ELSE PacketChunk
        p   == [item |-> item, len |-> len, offset |-> offset]
    IN  /\ ss[at].ptr # "file"
        /\ slots' = [ss EXCEPT ![at].ptr = "list",
                               ![at].list = Append(@, p),
                               ![at].spare = old - 1
                                   + IF old = 1 THEN PacketChunk ELSE 0]
        /\ current' = at
        /\ buffered' = buffered + len - offset
        /\ total' = total + len - offset
        /\ IF MaxBuffer # 0 /\ buffered' > MaxBuffer
           THEN ape_shutdown("cut") ELSE UNCHANGED <<state, ended>>

\* A new item, given to the API.
Given(len) ==
    /\ InUserCode /\ state # "FREED"
    /\ Len(length) < MaxItems
    /\ length' = Append(length, len)

Item == Len(length) + 1

\* APE_socket_write to a socket that is not ONLINE.
WriteRefused ==
    /\ \E len \in Lengths : Given(len)
    /\ state # "ONLINE"
    /\ released' = [released EXCEPT ![Item] = @ + 1]
    /\ UNCHANGED <<pc, state, blocked, slots, current, buffered, total,
                   writing, njobs, accepted, sent, asked, ended>>

\* APE_socket_write behind what waits already.
WriteQueued ==
    /\ state = "ONLINE" /\ Busy
    /\ \E len \in Lengths :
          /\ Given(len)
          /\ accepted' = accepted \o BytesOf(Item, 1, len)
    /\ ape_socket_queue_data(Item, 0)
    /\ UNCHANGED <<pc, blocked, writing, njobs, sent, asked, released>>

\* APE_socket_write starts to write.
WriteStarts ==
    /\ state = "ONLINE" /\ ~Busy
    /\ \E len \in Lengths :
          /\ Given(len)
          /\ accepted' = accepted \o BytesOf(Item, 1, len)
    /\ writing' = [item |-> Item, t_bytes |-> 0]
    /\ pc' = "write"
    /\ UNCHANGED <<state, blocked, slots, current, buffered, total, njobs,
                   sent, asked, ended, released>>

\* One swrite of it: r_bytes stays the whole length, so that from the second
\* on the kernel may get bytes from behind the buffer.
WriteSome ==
    /\ pc = "write"
    /\ writing.t_bytes < length[writing.item]
    /\ Whole => writing.t_bytes = 0
    /\ \E n \in 1 .. length[writing.item] :
          /\ sent' = sent \o BytesOf(writing.item, writing.t_bytes + 1,
                                     writing.t_bytes + n)
          /\ writing' = [writing EXCEPT !.t_bytes = @ + n]
    /\ UNCHANGED <<pc, state, blocked, slots, current, buffered, total, njobs,
                   length, accepted, asked, ended, released>>

\* Mutant of WriteBlocks: what has been written is queued again.
WriteBlocksWhole ==
    /\ pc = "write"
    /\ writing.t_bytes < length[writing.item]
    /\ blocked' = TRUE
    /\ length' = length
    /\ ape_socket_queue_data(writing.item, 0)
    /\ pc' = "user"
    /\ UNCHANGED <<writing, njobs, accepted, sent, asked, released>>

\* The kernel would block: the rest is queued.
WriteBlocks ==
    /\ pc = "write"
    /\ writing.t_bytes < length[writing.item]
    /\ blocked' = TRUE
    /\ length' = length
    /\ ape_socket_queue_data(writing.item, writing.t_bytes)
    /\ pc' = "user"
    /\ UNCHANGED <<writing, njobs, accepted, sent, asked, released>>

\* All is written, or the write failed.
WriteEnds ==
    /\ pc = "write"
    /\ \/ /\ writing.t_bytes >= length[writing.item]
          /\ UNCHANGED <<state, ended>>
       \/ /\ writing.t_bytes < length[writing.item]
          /\ ape_shutdown("cut")
    /\ released' = [released EXCEPT ![writing.item] = @ + 1]
    /\ pc' = "user"
    /\ UNCHANGED <<blocked, slots, current, buffered, total, writing, njobs,
                   length, accepted, sent, asked>>

\* APE_sendfile.
APE_sendfile ==
    /\ Files /\ state = "ONLINE"
    /\ Given(1)
    /\ accepted' = accepted \o BytesOf(Item, 1, 1)
    /\ released' = [released EXCEPT ![Item] = 1]
    /\ \/ /\ ~Busy
          /\ sent' = sent \o BytesOf(Item, 1, 1)
          /\ UNCHANGED <<blocked, slots, current>>
       \/ /\ blocked' = TRUE
          /\ slots' = [ape_socket_job_get_slot("SENDFILE") EXCEPT
                          ![SlotIndex("SENDFILE")].ptr = "file",
                          ![SlotIndex("SENDFILE")].file = Item]
          /\ current' = SlotIndex("SENDFILE")
          /\ UNCHANGED sent
    /\ UNCHANGED <<pc, state, buffered, total, writing, njobs, asked, ended>>

\* Mutant of APE_socket_shutdown: it does not wait for what is queued.
ShutdownUnqueued ==
    /\ InUserCode /\ state = "ONLINE"
    /\ ape_shutdown("orderly")
    /\ UNCHANGED <<pc, blocked, slots, current, buffered, total, writing,
                   njobs, length, accepted, sent, asked, released>>

APE_socket_shutdown ==
    /\ InUserCode /\ state = "ONLINE"
    /\ \/ /\ ~Busy
          /\ ape_shutdown("orderly")
          /\ UNCHANGED <<slots, current, asked>>
       \/ /\ Busy
          /\ SlotIndex("SHUTDOWN") <= MaxSlots
          /\ slots' = ape_socket_job_get_slot("SHUTDOWN")
          /\ current' = SlotIndex("SHUTDOWN")
          /\ asked' = IF asked = -1 THEN Len(accepted) ELSE asked
          /\ UNCHANGED <<state, ended>>
    /\ UNCHANGED <<pc, blocked, buffered, total, writing, njobs, length,
                   accepted, sent, released>>

APE_socket_shutdown_now ==
    /\ InUserCode /\ state = "ONLINE"
    /\ ape_shutdown("cut")
    /\ UNCHANGED <<pc, blocked, slots, current, buffered, total, writing,
                   njobs, length, accepted, sent, asked, released>>

DrainReturns ==
    /\ pc = "drain"
    /\ pc' = "user"
    /\ UNCHANGED <<state, blocked, slots, current, buffered, total, writing,
                   njobs, length, accepted, sent, asked, ended, released>>

-----------------------------------------------------------------------------
(* The loop finds the socket writable: ape_socket_do_jobs.                 *)

WriteEvent ==
    /\ pc = "user" /\ state # "FREED"
    /\ blocked' = FALSE
    /\ IF state = "ONLINE" THEN pc' = "jobs" /\ njobs' = 0
                           ELSE UNCHANGED <<pc, njobs>>
    /\ UNCHANGED <<state, slots, current, buffered, total, writing, length,
                   accepted, sent, asked, ended, released>>

Job == Head(slots)

InJob(types) == pc = "jobs" /\ Active(Job) /\ Type(Job) = types

\* The head, as `job' leaves it, is done.
JobDone(job) ==
    LET done == [job EXCEPT !.flags = @ \ {"ACTIVE"}]
        list == ape_pool_head_to_current(<<done>> \o Tail(slots), current)
    IN  /\ slots' = list.slots
        /\ current' = list.current
        /\ njobs' = njobs + 1

\* How many bytes the packets before the k-th have left, and how many the
\* chunks of one writev hold.
Before(list, k) == PartialSums(Lefts(list))[k - 1]
Offered(list)   == Before(list, 1 + IF Len(list) < MaxChunks THEN Len(list)
                                                            ELSE MaxChunks)

\* The packet that has the j-th byte of those that are left; the first that
\* is not finished when n of them are taken.
PacketOf(list, j) ==
    CHOOSE k \in DOMAIN list :
        Before(list, k) < j /\ j <= Before(list, k) + Left(list[k])

FirstLeft(list, n) == IF n = LeftIn(list) THEN Len(list) + 1
                                          ELSE PacketOf(list, n + 1)

\* Mutant of After: the offset counts from the start of the packet.
AfterRestarts(list, n) ==
    LET k == FirstLeft(list, n) IN
    IF k > Len(list) THEN <<>>
    ELSE SubSeq([list EXCEPT ![k].offset = n - Before(list, k)], k, Len(list))

After(list, n) ==
    LET k == FirstLeft(list, n) IN
    IF k > Len(list) THEN <<>>
    ELSE SubSeq([list EXCEPT ![k].offset = @ + n - Before(list, k)],
                k, Len(list))

\* The bytes the packets have left, in order.
Wire(list) ==
    [j \in 1 .. LeftIn(list) |->
        LET k == PacketOf(list, j)
        IN  <<list[k].item, list[k].offset + j - Before(list, k)>>]

\* writev takes n bytes.  ape_pool_head_to_queue makes a free slot of each
\* packet finished; when there is none left the job is done.
JobWritev ==
    /\ InJob({"WRITEV"})
    /\ \E n \in 1 .. Offered(Job.list) :
          LET done == 1 .. FirstLeft(Job.list, n) - 1
              job  == [Job EXCEPT !.list = After(Job.list, n),
                                  !.spare = @ + Cardinality(done)]
          IN  /\ sent' = sent \o SubSeq(Wire(Job.list), 1, n)
              /\ buffered' = buffered - n
              /\ total' = total - n
              /\ released' = [i \in Items |-> released[i]
                                + Cardinality({k \in done :
                                                  Job.list[k].item = i})]
              /\ IF job.list = <<>>
                 THEN JobDone(job)
                 ELSE /\ slots' = [slots EXCEPT ![1] = job]
                      /\ UNCHANGED <<current, njobs>>
    /\ UNCHANGED <<pc, state, blocked, writing, length, accepted, asked, ended>>

\* writev, or sendfile, would block.
JobBlocks ==
    /\ InJob({"WRITEV"}) \/ InJob({"SENDFILE"})
    /\ blocked' = TRUE
    /\ pc' = "user"
    /\ UNCHANGED <<state, slots, current, buffered, total, writing, njobs,
                   length, accepted, sent, asked, ended, released>>

JobFails ==
    /\ InJob({"WRITEV"})
    /\ ape_shutdown("cut")
    /\ pc' = "user"
    /\ UNCHANGED <<blocked, slots, current, buffered, total, writing, njobs,
                   length, accepted, sent, asked, released>>

JobSendfile ==
    /\ InJob({"SENDFILE"})
    /\ sent' = sent \o BytesOf(Job.file, 1, 1)
    /\ JobDone([Job EXCEPT !.ptr = "null", !.file = 0])
    /\ UNCHANGED <<pc, state, blocked, buffered, total, writing, length,
                   accepted, asked, ended, released>>

\* Mutant of JobShutdown: the job is done, the socket is not shut down.
JobShutdownLost ==
    /\ InJob({"SHUTDOWN"})
    /\ JobDone(Job)
    /\ UNCHANGED <<pc, state, blocked, buffered, total, writing, length,
                   accepted, sent, asked, ended, released>>

JobShutdown ==
    /\ InJob({"SHUTDOWN"})
    /\ ape_shutdown("orderly")
    /\ pc' = "user"
    /\ UNCHANGED <<blocked, slots, current, buffered, total, writing, njobs,
                   length, accepted, sent, asked, released>>

\* A slot that kept the type of an earlier job has several: "default: break".
JobUnknown ==
    /\ pc = "jobs" /\ Active(Job) /\ Cardinality(Type(Job)) > 1
    /\ JobDone(Job)
    /\ UNCHANGED <<pc, state, blocked, buffered, total, writing, length,
                   accepted, sent, asked, ended, released>>

\* The list is done; on_drain if exactly one job was.
JobsEnd ==
    /\ pc = "jobs" /\ ~Active(Job)
    /\ pc' = IF njobs = 1 THEN "drain" ELSE "user"
    /\ UNCHANGED <<state, blocked, slots, current, buffered, total, writing,
                   njobs, length, accepted, sent, asked, ended, released>>

-----------------------------------------------------------------------------
(* The system.                                                             *)

User == \/ WriteRefused \/ WriteQueued \/ WriteStarts \/ APE_sendfile
        \/ APE_socket_shutdown \/ APE_socket_shutdown_now

Writing == WriteSome \/ WriteBlocks \/ WriteEnds

Jobs == \/ JobWritev \/ JobBlocks \/ JobFails \/ JobSendfile \/ JobShutdown
        \/ JobUnknown \/ JobsEnd

Next == \/ User \/ Writing \/ DrainReturns \/ WriteEvent \/ Jobs
        \/ PeerCloses \/ ape_socket_free

Spec == Init /\ [][Next]_vars

\* The thread runs on, the loop polls, and the kernel, asked again and
\* again, takes data: the peer reads.
Fairness ==
    /\ WF_vars(Writing \/ Jobs \/ DrainReturns)
    /\ WF_vars(WriteEvent)
    /\ SF_vars(JobWritev)
    /\ WF_vars(ape_socket_free)

FairSpec == Spec /\ Fairness

-----------------------------------------------------------------------------
(* Properties.                                                             *)

TypeOK ==
    /\ pc \in {"user", "write", "jobs", "drain"}
    /\ state \in {"ONLINE", "SHUTDOWN", "FREED"}
    /\ blocked \in BOOLEAN
    /\ slots \in Seq(Slot) /\ current \in DOMAIN slots
    /\ buffered \in Nat /\ total \in Nat
    /\ writing \in [item : Items \union {0}, t_bytes : Nat]
    /\ njobs \in Nat
    /\ length \in Seq(Lengths \union {1})
    /\ accepted \in Seq(Items \X (Nat \ {0}))
    /\ sent \in Seq(Items \X (Nat \ {0}))
    /\ asked \in Nat \union {-1}
    /\ ended \in {"no", "orderly", "cut"}
    /\ released \in [Items -> Nat]

\* "Always have spare slots": the place where the next packet goes exists
\* whatever was queued, sent in part and recycled before.
SpareSlots ==
    \A i \in DOMAIN slots : slots[i].ptr = "list" => slots[i].spare > 0

\* The active jobs are the first ones of the list, so that do_jobs, which
\* stops at the first that is not, reaches all; and "current" is the last of
\* them or the slot behind, so that the next job comes after all others:
\* "Execute the jobs list" (ape_events_loop.c).
JobsReachable ==
    \E n \in 0 .. Len(slots) :
        /\ \A i \in DOMAIN slots : Active(slots[i]) <=> i <= n
        /\ current \in {n, n + 1}

\* The two counters of buffered memory are what waits in the lists, in jobs
\* that will not be carried out included.
BufferAccounting ==
    state # "FREED" => /\ buffered = SlotsLeft(slots)
                       /\ total = SlotsLeft(slots)

\* Every buffer given to the library is released once: when its last byte is
\* sent, when it is refused or fails, or with the socket, which also gives
\* its share of the common counter back.
BufferReleasedOnce ==
    /\ \A i \in Items :
          /\ released[i] <= 1
          /\ state = "FREED" /\ i \in DOMAIN length => released[i] = 1
    /\ state = "FREED" => total = 0


Stream == INSTANCE ByteStream

\* The socket is the byte stream that ByteStream describes.
IsByteStream == Stream!Spec

\* With a peer that reads and an application that does not cut it short, a
\* shutdown once asked ends the connection.
ShutdownHappens == asked >= 0 ~> state = "FREED"

\* "Queue a shutdown" (ape_socket.c): a shutdown that was queued is in the
\* list until it is carried out.
ShutdownKept ==
    asked >= 0 /\ state = "ONLINE"
    => \E i \in DOMAIN slots :
          Active(slots[i]) /\ Type(slots[i]) = {"SHUTDOWN"}

=============================================================================
