------------------------------- MODULE Events -------------------------------
(***************************************************************************)
(* What is watched for events and by whom: ape_events.c over one of the    *)
(* backends epoll, kqueue and select, the loop that dispatches a batch     *)
(* (ape_events_loop.c), sockets as owners of a descriptor, and the table   *)
(* of the descriptors c-ares asks to have watched (ape_dns.c).             *)
(*                                                                         *)
(* The kernel knows of each descriptor whose it is, whether it is          *)
(* connected, what there is to read, and the edges not yet reported.       *)
(* Sending always succeeds here.  Descriptors are below FD_SETSIZE.        *)
(***************************************************************************)
EXTENDS Integers, Sequences, FiniteSets

CONSTANTS
    Handlers,   \* the backends it may be built with (ape_common.h)
    Socks,      \* sockets
    Slots,      \* 32: size of the table of c-ares descriptors
    MaxFd,      \* bound: descriptors are 1 .. MaxFd
    MaxInput,   \* bound: what may wait to be read
    MaxDrift,   \* bound: how far nfd may fall below 0
    Default,    \* 32: APE_DEFAULT_EVENTS_SIZE
    FdSetSize,  \* 1024: FD_SETSIZE
    CloseAny    \* a callback for one descriptor may close another

ASSUME EventsAssumption ==
    /\ Handlers \subseteq {"epoll", "kqueue", "select"}
    /\ Slots \in Nat \ {0} /\ MaxFd \in Nat \ {0} /\ MaxInput \in Nat \ {0}
    /\ MaxDrift \in Nat
    /\ Default \in Nat \ {0} /\ FdSetSize \in Nat \ {0}
    /\ CloseAny \in BOOLEAN

VARIABLES
    handler,  \* the backend of this build
    nfd,      \* "Number of managed file descriptor"
    basemem,  \* "Number of elements in events"
    watch,    \* of a descriptor: what the backend has registered
    events,   \* the batch of the last poll
    at,       \* the event the loop is at
    phase,    \* what the loop does
    sock,     \* of a socket: its state and its descriptor
    slot,     \* of a slot of the table: its descriptor, 0 if it is free
    owner,    \* the kernel's descriptors: whose each is,
    fds       \* and what it is ready for

regVars == <<nfd, basemem, watch>>
kernel  == <<owner, fds>>
evVars  == <<handler, regVars, events, at, phase, sock, slot, kernel>>

Fds     == 1 .. MaxFd
SlotIds == 0 .. Slots - 1
Bits    == {"r", "w"}     \* EVENT_READ, EVENT_WRITE

\* What an event leads to: an ape_event_descriptor, by its type.
Sock(s)   == <<"socket", s>>
Slot(i)   == <<"slot", i>>
Owners    == {Sock(s) : s \in Socks} \union {Slot(i) : i \in SlotIds}

Nobody    == <<"none", 0>>
CAres     == <<"ares", 0>>
Unwatched == [ptr |-> Nobody, on |-> {}, level |-> FALSE]

\* Connected or not, what there is to read, the edges not yet reported, whether
\* all of the input came before the socket was ONLINE, and of c-ares whether it
\* asked for more since.
Opened(up, input, edge) ==
    [up |-> up, input |-> input, edge |-> edge, early |-> FALSE, asked |-> FALSE]

\* event_select_setsize, whatever the size; event_select_init
event_select_setsize == FdSetSize

\* event_epoll_setsize, event_kqueue_setsize
events_setsize(size) ==
    IF handler = "select" THEN event_select_setsize ELSE size

\* events_init; ape_dns_init
EventsInit ==
    /\ handler \in Handlers
    /\ nfd = 0
    /\ basemem = events_setsize(Default)
    /\ watch = [fd \in Fds |-> Unwatched]
    /\ events = <<>> /\ at = 1 /\ phase = "timers"
    /\ sock = [s \in Socks |-> [state |-> "none", fd |-> 0]]
    /\ slot = [i \in SlotIds |-> 0]
    /\ owner = [fd \in Fds |-> Nobody]
    /\ fds = [fd \in Fds |-> Opened(FALSE, 0, {})]

-----------------------------------------------------------------------------
(* The kernel.                                                             *)

Open(fd)  == owner[fd] # Nobody
Ares(fd)  == owner[fd] = CAres
Ready(fd) == (IF fds[fd].input > 0 THEN {"r"} ELSE {})
                \union (IF fds[fd].up THEN {"w"} ELSE {})

\* socket(), accept(): the lowest number that is free.
Lowest == {fd \in Fds : ~Open(fd) /\ \A lower \in 1 .. fd - 1 : Open(lower)}

\* Registering reports what is ready already as an edge.
Watched(fd) ==
    [fds[fd] EXCEPT !.edge = IF handler = "select" THEN {} ELSE Ready(fd)]

Edge(fd, bit) == IF watch[fd].level THEN {} ELSE fds[fd].edge \union {bit}

\* The three-way handshake ends, well or not.
Connects(fd) ==
    /\ Open(fd) /\ ~Ares(fd) /\ ~fds[fd].up
    /\ sock[owner[fd][2]].state = "PROGRESS"
    /\ fds' = [fds EXCEPT ![fd].up = TRUE, ![fd].edge = Edge(fd, "w")]
    /\ UNCHANGED <<handler, regVars, events, at, phase, sock, slot, owner>>

\* There is something to read, or more; sockets read all or nothing, so theirs
\* is 0 or 1.  Early: all of it came before the socket was ONLINE.
Arrives(fd) ==
    /\ Open(fd) /\ fds[fd].up
    /\ Ares(fd) => fds[fd].input < MaxInput
    /\ fds' = [fds EXCEPT
                 ![fd].input = IF Ares(fd) THEN @ + 1 ELSE 1,
                 ![fd].edge = Edge(fd, "r"),
                 ![fd].early = /\ ~Ares(fd) /\ handler # "select"
                               /\ sock[owner[fd][2]].state # "ONLINE"]
    /\ UNCHANGED <<handler, regVars, events, at, phase, sock, slot, owner>>

-----------------------------------------------------------------------------
(* ape_events.c over the backends.                                         *)

\* _nextpoweroftwo: of what is not positive, 0 (the numbers wrap).
_nextpoweroftwo(v) ==
    LET powers == {p \in v .. 2 * v : \E k \in 0 .. v : p = 2 ^ k} IN
    IF v <= 0 \/ powers = {} THEN 0 ELSE CHOOSE p \in powers : TRUE

\* events_shrink: the new size.
events_shrink ==
    IF basemem = Default \/ nfd >= basemem \div 2 THEN basemem
    ELSE events_setsize(IF _nextpoweroftwo(nfd) > Default
                        THEN _nextpoweroftwo(nfd) ELSE Default)

\* EPOLLET unless EVENT_LEVEL; event_epoll_mod is the same.
event_epoll_add(ptr, bits, level) == [ptr |-> ptr, on |-> bits, level |-> level]

\* A filter for each bit, EV_CLEAR unless EVENT_LEVEL; the filter of a bit that
\* is not asked for is deleted.  event_kqueue_mod calls it.
event_kqueue_add(ptr, bits, level) == [ptr |-> ptr, on |-> bits, level |-> level]

\* select reports what is ready as long as it is: EVENT_LEVEL is not looked at.
event_select_add(ptr, bits) == [ptr |-> ptr, on |-> bits, level |-> TRUE]

Registered(ptr, bits, level) ==
    IF handler = "select" THEN event_select_add(ptr, bits)
    ELSE IF handler = "kqueue" THEN event_kqueue_add(ptr, bits, level)
    ELSE event_epoll_add(ptr, bits, level)

events_add(ptr, fd, bits, level) ==
    /\ nfd' = nfd + 1
    /\ basemem' = IF nfd' > basemem THEN events_setsize(2 * basemem)
                                    ELSE basemem
    /\ watch' = [watch EXCEPT ![fd] = Registered(ptr, bits, level)]

\* What the last poll found is in the entry, whose watchfor is set anew.
event_select_mod(fd) ==
    [j \in DOMAIN events |->
        IF handler = "select" /\ events[j].fd = fd
        THEN [events[j] EXCEPT !.bits = {}] ELSE events[j]]

events_mod(ptr, fd, bits, level) ==
    /\ watch' = [watch EXCEPT ![fd] = Registered(ptr, bits, level)]
    /\ events' = event_select_mod(fd)
    /\ UNCHANGED <<nfd, basemem>>

\* The entry the batch points to is freed; the others copy their events.
event_select_del(fd) ==
    [j \in DOMAIN events |->
        IF handler = "select" /\ events[j].fd = fd
        THEN [events[j] EXCEPT !.live = FALSE] ELSE events[j]]

\* Mutant of events_del: the array is shrunk at once.
DelShrinks(fd) ==
    /\ nfd' = nfd - 1
    /\ watch' = [watch EXCEPT ![fd] = Unwatched]
    /\ events' = event_select_del(fd)
    /\ owner' = [owner EXCEPT ![fd] = Nobody]
    /\ fds' = [fds EXCEPT ![fd] = Opened(FALSE, 0, {})]
    /\ basemem' = events_shrink

\* events_del and close(): epoll and kqueue drop what is closed, select's
\* entry is erased.
events_del(fd) ==
    /\ nfd' = nfd - 1
    /\ watch' = [watch EXCEPT ![fd] = Unwatched]
    /\ events' = event_select_del(fd)
    /\ owner' = [owner EXCEPT ![fd] = Nobody]
    /\ fds' = [fds EXCEPT ![fd] = Opened(FALSE, 0, {})]
    /\ UNCHANGED basemem

Event(fd, bits) == [fd |-> fd, ptr |-> watch[fd].ptr, bits |-> bits, live |-> TRUE]
Wanted(fd)      == Ready(fd) \intersect watch[fd].on
Edges(fd)       == fds[fd].edge \intersect watch[fd].on

\* What is ready, as long as it is.
event_select_poll(fd) ==
    {Event(fd, bits) : bits \in {Wanted(fd)} \ {{}}}

\* The same for EVENT_LEVEL; else all that is ready, once for any edge.
event_epoll_poll(fd) ==
    {Event(fd, bits) : bits \in IF watch[fd].level \/ Edges(fd) # {}
                               THEN {Wanted(fd)} \ {{}} ELSE {}}

\* An event for each filter, once for its own edge.
event_kqueue_poll(fd) ==
    {Event(fd, {b}) : b \in IF watch[fd].level THEN Wanted(fd)
                            ELSE Wanted(fd) \intersect Edges(fd)}

Found(fd) ==
    IF handler = "select" THEN event_select_poll(fd)
    ELSE IF handler = "kqueue" THEN event_kqueue_poll(fd)
    ELSE event_epoll_poll(fd)

\* kqueue's array has two elements for each of basemem (event_kqueue_setsize).
Capacity(size) == IF handler = "kqueue" THEN 2 * size ELSE size

\* The order of a batch: event_select_poll goes through the descriptors upwards,
\* the kernel may report them in any order.
InOrder(batch) ==
    \A i, j \in DOMAIN batch :
        i < j => IF handler = "select" THEN batch[i].fd < batch[j].fd
                                       ELSE batch[i] # batch[j]

\* A batch: all there is, or as much as there is room for, each event once.
Batches(size) ==
    LET all == UNION {Found(fd) : fd \in Fds} IN
    UNION {{f \in [1 .. n -> all] : InOrder(f)} :
              n \in {k \in 0 .. Capacity(size) :
                        \/ k = Cardinality(all)
                        \/ k = Capacity(size) /\ k < Cardinality(all)}}

\* The edges a batch takes: of an event the one or all (kqueue, epoll).
Taken(batch, fd) ==
    LET bits == UNION {batch[j].bits : j \in {i \in DOMAIN batch : batch[i].fd = fd}} IN
    IF handler = "kqueue" \/ bits = {} THEN bits ELSE Bits

\* events_shrink, then events_poll with event_epoll_poll, event_kqueue_poll or
\* event_select_poll; the loop's while.
events_poll(wanted) ==
    /\ phase = "poll"
    /\ basemem' = events_shrink
    /\ \E batch \in Batches(basemem') :
          /\ wanted \subseteq {batch[j].fd : j \in DOMAIN batch}
          /\ events' = batch
          /\ fds' = [fd \in Fds |-> [fds[fd] EXCEPT !.edge = @ \ Taken(batch, fd)]]
    /\ at' = 1 /\ phase' = "batch"
    /\ UNCHANGED <<handler, nfd, watch, sock, slot, owner>>

-----------------------------------------------------------------------------
(* The calls of callbacks: of the event's owner, or of a timer.            *)

Calling == phase \in {"callback", "timers"}

\* The descriptor the callback is for.
Own == IF phase = "callback" THEN {events[at].fd} ELSE {}

MayClose(fd) == phase = "timers" \/ CloseAny \/ fd \in Own

APE_socket_new(s) ==
    /\ Calling /\ sock[s].state = "none"
    /\ \E fd \in Lowest :
          /\ sock' = [sock EXCEPT ![s] = [state |-> "PENDING", fd |-> fd]]
          /\ owner' = [owner EXCEPT ![fd] = Sock(s)]
          /\ fds' = [fds EXCEPT ![fd] = Opened(FALSE, 0, {})]
    /\ UNCHANGED <<handler, regVars, events, at, phase, slot>>

\* APE_socket_connect, ape_socket_connect_ready_to_connect
APE_socket_connect(s) ==
    /\ Calling /\ sock[s].state = "PENDING"
    /\ sock' = [sock EXCEPT ![s] = [state |-> "PROGRESS", fd |-> sock[s].fd]]
    /\ events_add(Sock(s), sock[s].fd, Bits, FALSE)
    /\ fds' = [fds EXCEPT ![sock[s].fd] = Watched(sock[s].fd)]
    /\ UNCHANGED <<handler, events, at, phase, slot, owner>>

\* ape_socket_accept: the client, who may have written already; the descriptor of
\* its server is left out.
ape_socket_accept(s) ==
    /\ Calling /\ sock[s].state = "none"
    /\ \E fd \in Lowest, n \in {0, 1} :
          LET edge == IF handler = "select" THEN {}
                      ELSE IF n > 0 THEN Bits ELSE {"w"} IN
          /\ sock' = [sock EXCEPT ![s] = [state |-> "ONLINE", fd |-> fd]]
          /\ owner' = [owner EXCEPT ![fd] = Sock(s)]
          /\ fds' = [fds EXCEPT ![fd] = Opened(TRUE, n, edge)]
          /\ events_add(Sock(s), fd, Bits, FALSE)
    /\ UNCHANGED <<handler, events, at, phase, slot>>

\* ape_socket_close
ape_socket_close(s) ==
    /\ Calling /\ sock[s].state \in {"PENDING", "PROGRESS", "ONLINE"}
    /\ MayClose(sock[s].fd) /\ nfd > -MaxDrift
    /\ sock' = [sock EXCEPT ![s] = [state |-> "OFFLINE", fd |-> sock[s].fd]]
    /\ events_del(sock[s].fd)
    /\ UNCHANGED <<handler, at, phase, slot>>

-----------------------------------------------------------------------------
(* The descriptors of c-ares.                                              *)

\* Mutant of FreeSlot: the first slot, free or not.
FirstSlot == {0}

\* Mutant of FreeSlot: the slot behind the table stands for "none yet".
SlotBehind ==
    {i \in 1 .. Slots : /\ i = Slots \/ slot[i] = 0
                       /\ \A j \in 1 .. i - 1 : slot[j] # 0}

\* The slot for a new descriptor: the first free one behind slot 0, which is
\* taken when there is none (`f' is 0 for "none yet" as well).
FreeSlot ==
    {i \in SlotIds : slot[i] = 0 /\ IF i = 0
                                    THEN \A j \in SlotIds \ {0} : slot[j] # 0
                                    ELSE \A j \in 1 .. i - 1 : slot[j] # 0}

\* Mutant of Listenfor: descriptors of c-ares are edge triggered as well.
ListenforEdges(bits) ==
    [bits |-> IF "r" \in bits THEN {"r"} ELSE bits, level |-> FALSE]

\* read ? EVENT_READ : (0 | write ? EVENT_WRITE : 0), and EVENT_LEVEL
Listenfor(bits) ==
    [bits |-> IF "r" \in bits THEN {"r"} ELSE bits, level |-> TRUE]

\* ares_socket_cb, of a descriptor that is not in the table.  Bound: c-ares
\* opens no more than the table has slots for; slot 0 would be overwritten.
AresOpens ==
    /\ Calling
    /\ \E fd \in Lowest, i \in FreeSlot :
          /\ owner' = [owner EXCEPT ![fd] = CAres]
          /\ fds' = [fds EXCEPT ![fd] = Opened(TRUE, 0, {})]
          /\ slot' = [slot EXCEPT ![i] = fd]
          /\ events_add(Slot(i), fd, Listenfor({"r"}).bits, Listenfor({"r"}).level)
    /\ UNCHANGED <<handler, events, at, phase, sock>>

\* The slot of a descriptor.
InSlot(fd) == CHOOSE i \in SlotIds : slot[i] = fd

\* c-ares at work on an answer (ares_process_fd).
Processing == phase = "callback" /\ events[at].ptr[1] = "slot"

\* ares_socket_cb, of one that is, when c-ares turns to TCP: it always wants to
\* read.  Bound: once for each descriptor.
AresWants(fd, bits) ==
    /\ Processing /\ Ares(fd) /\ ~fds[fd].asked
    /\ fds' = [fds EXCEPT ![fd].asked = TRUE]
    /\ events_mod(Slot(InSlot(fd)), fd, Listenfor(bits).bits,
                  Listenfor(bits).level)
    /\ UNCHANGED <<handler, at, phase, sock, slot, owner>>

\* ares_socket_cb, when c-ares is done with it.
AresCloses(fd) ==
    /\ Processing /\ Ares(fd) /\ MayClose(fd)
    /\ slot' = [slot EXCEPT ![InSlot(fd)] = 0]
    /\ events_del(fd)
    /\ UNCHANGED <<handler, at, phase, sock>>

-----------------------------------------------------------------------------
(* The loop (APE_loop_run).                                                *)

\* The loop has an event to look at, through an entry that still exists: what
\* reading one that was freed does is not described.
Dispatching == phase = "batch" /\ at \in DOMAIN events /\ events[at].live

\* The event is for a socket that has none of it any more, or not yet:
\* ape_socket_read and the loop look at its state (event_kqueue_get_evd too).
Ignored(s) ==
    \/ sock[s].state = "OFFLINE"
    \/ sock[s].state = "PROGRESS" /\ "w" \notin events[at].bits

EventIgnored ==
    /\ Dispatching
    /\ \E s \in Socks : events[at].ptr = Sock(s) /\ Ignored(s)
    /\ at' = at + 1
    /\ UNCHANGED <<handler, regVars, events, phase, sock, slot, kernel>>

\* ape_socket_read of a connected socket, to the end of what there is;
\* on_read or on_drain is called.
EventOnline(s) ==
    /\ Dispatching /\ events[at].ptr = Sock(s) /\ sock[s].state = "ONLINE"
    /\ fds' = IF "r" \in events[at].bits
              THEN [fds EXCEPT ![sock[s].fd].input = 0] ELSE fds
    /\ phase' = "callback"
    /\ UNCHANGED <<handler, regVars, events, at, sock, slot, owner>>

\* PROGRESS: nothing is read; the socket is connected, and on_connected called.
EventConnected(s) ==
    /\ Dispatching /\ events[at].ptr = Sock(s)
    /\ sock[s].state = "PROGRESS" /\ "w" \in events[at].bits
    /\ sock' = [sock EXCEPT ![s] = [state |-> "ONLINE", fd |-> sock[s].fd]]
    /\ phase' = "callback"
    /\ UNCHANGED <<handler, regVars, events, at, slot, kernel>>

\* PROGRESS: SO_ERROR says it failed, and ape_socket_destroy closes it.
EventFailed(s) ==
    /\ Dispatching /\ events[at].ptr = Sock(s)
    /\ sock[s].state = "PROGRESS" /\ "w" \in events[at].bits
    /\ sock' = [sock EXCEPT ![s] = [state |-> "OFFLINE", fd |-> sock[s].fd]]
    /\ events_del(sock[s].fd)
    /\ phase' = "callback"
    /\ UNCHANGED <<handler, at, slot>>

\* APE_EVENT_DELEGATE: ares_io calls ares_process_fd for the descriptor the
\* slot has by now, which reads some of what there is.
EventDelegate(i, left) ==
    /\ Dispatching /\ events[at].ptr = Slot(i)
    /\ IF slot[i] # 0 /\ "r" \in events[at].bits /\ fds[slot[i]].input > 0
       THEN /\ left < fds[slot[i]].input
            /\ fds' = [fds EXCEPT ![slot[i]].input = left]
       ELSE left = 0 /\ fds' = fds
    /\ phase' = "callback"
    /\ UNCHANGED <<handler, regVars, events, at, sock, slot, owner>>

Return ==
    /\ phase = "callback"
    /\ phase' = "batch" /\ at' = at + 1
    /\ UNCHANGED <<handler, regVars, events, sock, slot, kernel>>

\* The batch is done; ape_timers_process.
BatchEnd ==
    /\ phase = "batch" /\ at > Len(events)
    /\ phase' = "timers" /\ at' = 1 /\ events' = <<>>
    /\ UNCHANGED <<handler, regVars, sock, slot, kernel>>

\* The timers are done, those that release closed sockets among them.
TimersEnd ==
    /\ phase = "timers" /\ phase' = "poll"
    /\ sock' = [s \in Socks |-> IF sock[s].state = "OFFLINE"
                               THEN [state |-> "none", fd |-> 0] ELSE sock[s]]
    /\ UNCHANGED <<handler, regVars, events, at, slot, kernel>>

\* APE_destroy, once the loop has ended: ares_cancel, which closes what c-ares
\* has open; events_del for every slot, free or not; the table is freed.
\* Callbacks that are told of the cancelling start no new query.
APE_destroy ==
    LET open == {fd \in Fds : Ares(fd)} IN
    /\ phase = "poll" /\ phase' = "destroyed"
    /\ nfd' = nfd - Cardinality(open) - Slots
    /\ watch' = [fd \in Fds |-> IF fd \in open THEN Unwatched ELSE watch[fd]]
    /\ owner' = [fd \in Fds |-> IF fd \in open THEN Nobody ELSE owner[fd]]
    /\ fds' = [fd \in Fds |-> IF fd \in open THEN Opened(FALSE, 0, {}) ELSE fds[fd]]
    /\ slot' = [i \in SlotIds |-> 0]
    /\ UNCHANGED <<handler, basemem, events, at, sock>>

-----------------------------------------------------------------------------
Kernel == \E fd \in Fds : Connects(fd) \/ Arrives(fd)

Application ==
    \E s \in Socks : \/ APE_socket_new(s) \/ APE_socket_connect(s)
                     \/ ape_socket_accept(s) \/ ape_socket_close(s)

Resolver ==
    \/ AresOpens
    \/ \E fd \in Fds : AresCloses(fd) \/ AresWants(fd, {"r"}) \/ AresWants(fd, Bits)

Dispatch ==
    \/ EventIgnored
    \/ \E s \in Socks : EventOnline(s) \/ EventConnected(s) \/ EventFailed(s)
    \/ \E i \in SlotIds, left \in 0 .. MaxInput : EventDelegate(i, left)

Loop == Dispatch \/ Return \/ BatchEnd \/ TimersEnd

EventsNext == Kernel \/ Application \/ Resolver \/ Loop \/ events_poll({}) \/ APE_destroy

\* The loop goes on and callbacks return; the kernel forgets no descriptor
\* that is ready when it reports others; c-ares, called again and again, reads
\* what there is.
EventsFairness ==
    /\ WF_evVars(Loop) /\ WF_evVars(events_poll({}))
    /\ \A fd \in Fds : SF_evVars(events_poll({fd}))
    /\ \A i \in SlotIds : SF_evVars(EventDelegate(i, 0))

EventsSpec == EventsInit /\ [][EventsNext]_evVars /\ EventsFairness

-----------------------------------------------------------------------------
(* Properties.                                                             *)

Registrations == [ptr : Owners, on : SUBSET Bits, level : BOOLEAN]

EventRecords == [fd : Fds, ptr : Owners, bits : SUBSET Bits, live : BOOLEAN]

Descriptors == [up : BOOLEAN, input : 0 .. MaxInput, edge : SUBSET Bits,
                early : BOOLEAN, asked : BOOLEAN]

\* The variables have their types.
EventsTypeOK ==
    /\ handler \in Handlers /\ nfd \in Int /\ basemem \in Nat
    /\ watch \in [Fds -> {Unwatched} \union Registrations]
    /\ events \in Seq(EventRecords)
    /\ at \in Nat \ {0}
    /\ phase \in {"poll", "batch", "callback", "timers", "destroyed"}
    /\ sock \in [Socks -> [state : {"none", "PENDING", "PROGRESS", "ONLINE",
                                   "OFFLINE"}, fd : Fds \union {0}]]
    /\ slot \in [SlotIds -> Fds \union {0}]
    /\ owner \in [Fds -> {Nobody, CAres} \union {Sock(s) : s \in Socks}]
    /\ fds \in [Fds -> Descriptors]

\* What is watched is what is open, for the one who has it: a socket that is
\* connected or on its way; a descriptor of c-ares through the one slot of the
\* table that has it, for reading and as long as there is something
\* (events_add, events_del, ares_socket_cb, APE_destroy).
WatchesAgree ==
    /\ \A s \in Socks : sock[s].state \in {"PROGRESS", "ONLINE"} =>
          /\ owner[sock[s].fd] = Sock(s)
          /\ watch[sock[s].fd] = Registered(Sock(s), Bits, FALSE)
    /\ \A fd \in Fds : Ares(fd) =>
          \E i \in SlotIds :
             /\ \A j \in SlotIds : slot[j] = fd <=> j = i
             /\ watch[fd] = Registered(Slot(i), {"r"}, TRUE)
    /\ \A fd \in Fds : watch[fd].on # {} => Open(fd)

\* The events of a batch stay within the array until they were looked at,
\* while callbacks add descriptors and close them (events_add, events_shrink).
BatchFits == Len(events) <= Capacity(basemem)

\* What can be read is read, or its descriptor closed.  With edges that is
\* left to the next arrival when the data came before the socket was ONLINE
\* (ape_socket_read returns; the edge is gone).
EventuallyRead ==
    \A fd \in Fds : (fds[fd].input > 0 /\ ~fds[fd].early)
                       ~> (fds[fd].input = 0 \/ fds[fd].early \/ phase = "destroyed")

\* "Pointers into fds" (ape_events.h:79): what is left of select's batch points
\* to entries of the table.
PointersIntoFds ==
    phase = "batch" => \A j \in at .. Len(events) : events[j].live
=============================================================================
