---------------------------- MODULE EventsProofs ----------------------------
(***************************************************************************)
(* Proofs about Events, for every number of sockets, slots and descriptors *)
(* and every backend: the variables keep their types, what is watched is   *)
(* what is open, and a batch stays within the array of events.             *)
(***************************************************************************)
EXTENDS Events, FiniteSetTheorems, TLAPS

\* A socket has a descriptor of its own until it is closed.
SocketsOwn ==
    \A s \in Socks : sock[s].state \in {"PENDING", "PROGRESS", "ONLINE"} =>
        sock[s].fd \in Fds /\ owner[sock[s].fd] = Sock(s)

\* From when it connects on, the descriptor is watched for it.
SocketsWatched ==
    \A s \in Socks : sock[s].state \in {"PROGRESS", "ONLINE"} =>
        watch[sock[s].fd] = Registered(Sock(s), Bits, FALSE)

\* A descriptor of c-ares is in the table.
AresInTable == \A fd \in Fds : Ares(fd) => \E i \in SlotIds : slot[i] = fd

\* A slot that is taken has a descriptor of c-ares, watched for this slot.
SlotsWatched ==
    \A i \in SlotIds : slot[i] # 0 =>
        Ares(slot[i]) /\ watch[slot[i]] = Registered(Slot(i), {"r"}, TRUE)

ClosedUnwatched == \A fd \in Fds : ~Open(fd) => watch[fd] = Unwatched

Owned == /\ SocketsOwn /\ SocketsWatched /\ AresInTable /\ SlotsWatched
         /\ ClosedUnwatched

\* The array of events is as long as its backend makes it.
Sized == (handler = "select" => basemem = FdSetSize) /\ BatchFits

EventsInv == EventsTypeOK /\ Owned /\ Sized

-----------------------------------------------------------------------------
(* What the operators of Events return.                                    *)

\* The backends register what they are given, for its owner.
LEMMA RegisteredType ==
    ASSUME NEW ptr \in Owners, NEW bits \in SUBSET Bits, NEW level \in BOOLEAN
    PROVE  /\ Registered(ptr, bits, level) \in Registrations
           /\ Registered(ptr, bits, level).ptr = ptr
           /\ Registered(ptr, bits, level).on = bits
BY DEF Registered, Registrations, event_epoll_add, event_kqueue_add, event_select_add

\* Closing or changing a descriptor leaves a batch as long as it is.
LEMMA BatchKept ==
    ASSUME events \in Seq(EventRecords), NEW fd \in Fds
    PROVE  /\ event_select_del(fd) \in Seq(EventRecords)
           /\ Len(event_select_del(fd)) = Len(events)
           /\ event_select_mod(fd) \in Seq(EventRecords)
           /\ Len(event_select_mod(fd)) = Len(events)
<1> DEFINE n == Len(events)
<1>1. n \in Nat /\ DOMAIN events = 1 .. n /\ \A j \in 1 .. n : events[j] \in EventRecords
  OBVIOUS
<1>2. event_select_del(fd) \in [1 .. n -> EventRecords]
  BY <1>1 DEF event_select_del, EventRecords
<1>3. event_select_mod(fd) \in [1 .. n -> EventRecords]
  BY <1>1 DEF event_select_mod, EventRecords
<1> QED
  BY <1>1, <1>2, <1>3

\* The size of the array is a number, whatever it grows or shrinks to.
LEMMA SizeType ==
    ASSUME nfd \in Int, basemem \in Nat
    PROVE  /\ \A n \in Nat : events_setsize(n) \in Nat
           /\ events_shrink \in Nat
<1>1. \A n \in Nat : events_setsize(n) \in Nat
  BY EventsAssumption DEF EventsAssumption, events_setsize, event_select_setsize
<1>2. _nextpoweroftwo(nfd) \in Nat
  BY DEF _nextpoweroftwo
<1> QED
  BY <1>1, <1>2, EventsAssumption DEF EventsAssumption, events_shrink

\* Registering one more keeps the counters' types.
LEMMA AddType ==
    ASSUME nfd \in Int, basemem \in Nat, watch \in [Fds -> {Unwatched} \union Registrations],
           NEW ptr \in Owners, NEW fd, NEW bits \in SUBSET Bits, NEW level \in BOOLEAN,
           events_add(ptr, fd, bits, level)
    PROVE  /\ nfd' \in Int /\ basemem' \in Nat
           /\ watch' \in [Fds -> {Unwatched} \union Registrations]
<1>1. Registered(ptr, bits, level) \in Registrations
  BY RegisteredType
<1>2. 2 * basemem \in Nat /\ nfd' \in Int
  BY DEF events_add
<1> QED
  BY <1>1, <1>2, SizeType DEF events_add

\* What a batch is made of, and how long it is.
LEMMA BatchType ==
    ASSUME handler \in Handlers, watch \in [Fds -> {Unwatched} \union Registrations],
           fds \in [Fds -> Descriptors], NEW size \in Nat, NEW batch \in Batches(size)
    PROVE  batch \in Seq(EventRecords) /\ Len(batch) <= Capacity(size)
<1> DEFINE all == UNION {Found(fd) : fd \in Fds}
<1>1. ASSUME NEW fd \in Fds, NEW bits \in SUBSET Bits, watch[fd].on # {}
      PROVE  Event(fd, bits) \in EventRecords
  <2>1. watch[fd] \in Registrations
    BY <1>1 DEF Unwatched
  <2> QED
    BY <2>1 DEF Registrations, Event, EventRecords
<1>2. ASSUME NEW fd \in Fds, NEW e \in Found(fd) PROVE e \in EventRecords
  <2>1. PICK bits \in SUBSET Wanted(fd) : bits # {} /\ e = Event(fd, bits)
    BY <1>2 DEF Found, event_select_poll, event_epoll_poll, event_kqueue_poll
  <2>2. Wanted(fd) \subseteq watch[fd].on /\ Wanted(fd) \subseteq Bits
    BY DEF Wanted, Ready, Bits
  <2> QED
    BY <2>1, <2>2, <1>1
<1>3. all \subseteq EventRecords
  BY <1>2
<1>4. Capacity(size) \in Nat
  BY DEF Capacity
<1>5. PICK n \in 0 .. Capacity(size) : batch \in [1 .. n -> all]
  BY <1>4 DEF Batches
<1>6. batch \in [1 .. n -> EventRecords] /\ n \in Nat
  BY <1>3, <1>4, <1>5
<1> QED
  BY <1>4, <1>6

\* Reading, or asking for more, keeps the type of what descriptors are ready for.
LEMMA InputType ==
    ASSUME fds \in [Fds -> Descriptors], NEW fd \in Fds, NEW n \in 0 .. MaxInput
    PROVE  /\ [fds EXCEPT ![fd].input = n] \in [Fds -> Descriptors]
           /\ [fds EXCEPT ![fd].asked = TRUE] \in [Fds -> Descriptors]
<1>1. fds[fd] \in Descriptors
  OBVIOUS
<1>2. [fds[fd] EXCEPT !.input = n] \in Descriptors
  BY <1>1, Zenon DEF Descriptors
<1>3. [fds[fd] EXCEPT !.asked = TRUE] \in Descriptors
  BY <1>1, Zenon DEF Descriptors
<1> QED
  BY <1>2, <1>3, Zenon

\* So do opening a descriptor, registering it and a new edge.
LEMMA DescriptorsType ==
    ASSUME fds \in [Fds -> Descriptors], NEW fd \in Fds
    PROVE  /\ Opened(FALSE, 0, {}) \in Descriptors
           /\ \A n \in {0, 1}, edge \in SUBSET Bits : Opened(TRUE, n, edge) \in Descriptors
           /\ Watched(fd) \in Descriptors
           /\ \A b \in Bits : Edge(fd, b) \in SUBSET Bits
<1>1. 0 \in 0 .. MaxInput /\ 1 \in 0 .. MaxInput
  BY EventsAssumption DEF EventsAssumption
<1>2. Opened(FALSE, 0, {}) \in Descriptors
  BY <1>1 DEF Opened, Descriptors
<1>3. \A n \in {0, 1}, edge \in SUBSET Bits : Opened(TRUE, n, edge) \in Descriptors
  BY <1>1 DEF Opened, Descriptors
<1>4. fds[fd] \in Descriptors
  OBVIOUS
<1>5. Watched(fd) \in Descriptors
  <2>1. Ready(fd) \in SUBSET Bits
    BY DEF Ready, Bits
  <2>2. (IF handler = "select" THEN {} ELSE Ready(fd)) \in SUBSET Bits
    BY <2>1
  <2> QED
    BY <1>4, <2>2, Zenon DEF Watched, Descriptors
<1>6. \A b \in Bits : Edge(fd, b) \in SUBSET Bits
  BY <1>4 DEF Edge, Descriptors
<1> QED
  BY <1>2, <1>3, <1>5, <1>6

\* Closing a descriptor keeps the types of what it changes.
LEMMA DelType ==
    ASSUME EventsTypeOK, NEW fd \in Fds, events_del(fd)
    PROVE  /\ nfd' \in Int /\ basemem' \in Nat
           /\ watch' \in [Fds -> {Unwatched} \union Registrations]
           /\ events' \in Seq(EventRecords)
           /\ owner' \in [Fds -> {Nobody, CAres} \union {Sock(s) : s \in Socks}]
           /\ fds' \in [Fds -> Descriptors]
<1>1. nfd' \in Int /\ basemem' \in Nat
  BY DEF EventsTypeOK, events_del
<1>2. watch' \in [Fds -> {Unwatched} \union Registrations]
  BY DEF EventsTypeOK, events_del
<1>3. events' \in Seq(EventRecords)
  BY BatchKept DEF EventsTypeOK, events_del
<1>4. owner' \in [Fds -> {Nobody, CAres} \union {Sock(s) : s \in Socks}]
  BY DEF EventsTypeOK, events_del
<1>5. fds' \in [Fds -> Descriptors]
  BY DescriptorsType DEF EventsTypeOK, events_del
<1> QED
  BY <1>1, <1>2, <1>3, <1>4, <1>5

-----------------------------------------------------------------------------
(* Types.                                                                  *)

\* Every variable keeps its type, whatever the loop, a callback, c-ares or the
\* kernel does.
LEMMA TypesNext ==
    ASSUME EventsTypeOK, Owned, [EventsNext]_evVars
    PROVE  EventsTypeOK'
<1> USE DEF EventsTypeOK
<1> DEFINE Sockets == [Socks -> [state : {"none", "PENDING", "PROGRESS", "ONLINE",
                                          "OFFLINE"}, fd : Fds \union {0}]]
           Users == [Fds -> {Nobody, CAres} \union {Sock(s) : s \in Socks}]
<1>1. CASE UNCHANGED evVars
  BY <1>1 DEF evVars, regVars, kernel
<1>2. ASSUME NEW fd \in Fds, Connects(fd) PROVE EventsTypeOK'
  <2>1. Edge(fd, "w") \in SUBSET Bits
    BY DescriptorsType DEF Bits
  <2>2. [fds[fd] EXCEPT !.up = TRUE, !.edge = Edge(fd, "w")] \in Descriptors
    <3>1. fds[fd] \in Descriptors
      OBVIOUS
    <3> QED
      BY <2>1, <3>1, Zenon DEF Descriptors
  <2>3. fds' = [fds EXCEPT ![fd] = [fds[fd] EXCEPT !.up = TRUE, !.edge = Edge(fd, "w")]]
    BY <1>2, Zenon DEF Connects
  <2> QED
    BY <1>2, <2>2, <2>3 DEF Connects, regVars
<1>3. ASSUME NEW fd \in Fds, Arrives(fd) PROVE EventsTypeOK'
  <2> DEFINE input == IF Ares(fd) THEN fds[fd].input + 1 ELSE 1
             early == /\ ~Ares(fd) /\ handler # "select"
                      /\ sock[owner[fd][2]].state # "ONLINE"
  <2>1. Edge(fd, "r") \in SUBSET Bits
    BY DescriptorsType DEF Bits
  <2>2. input \in 0 .. MaxInput
    BY <1>3, EventsAssumption DEF EventsAssumption, Arrives, Descriptors
  <2>3. early \in BOOLEAN
    OBVIOUS
  <2>4. [fds[fd] EXCEPT !.input = input, !.edge = Edge(fd, "r"), !.early = early]
           \in Descriptors
    <3>1. fds[fd] \in Descriptors
      OBVIOUS
    <3> HIDE DEF input, early
    <3> QED
      BY <2>1, <2>2, <2>3, <3>1, Zenon DEF Descriptors
  <2>5. fds' = [fds EXCEPT ![fd] = [fds[fd] EXCEPT !.input = input,
                                        !.edge = Edge(fd, "r"), !.early = early]]
    BY <1>3, Zenon DEF Arrives
  <2> QED
    BY <1>3, <2>4, <2>5 DEF Arrives, regVars
<1>4. ASSUME NEW s \in Socks, APE_socket_new(s) PROVE EventsTypeOK'
  <2>1. PICK fd \in Fds :
          /\ sock' = [sock EXCEPT ![s] = [state |-> "PENDING", fd |-> fd]]
          /\ owner' = [owner EXCEPT ![fd] = Sock(s)]
          /\ fds' = [fds EXCEPT ![fd] = Opened(FALSE, 0, {})]
    BY <1>4 DEF APE_socket_new, Lowest
  <2>2. sock' \in Sockets /\ owner' \in Users
    BY <2>1
  <2>3. fds' \in [Fds -> Descriptors]
    BY <2>1, DescriptorsType
  <2> QED
    BY <1>4, <2>2, <2>3 DEF APE_socket_new, regVars
<1>5. ASSUME NEW s \in Socks, APE_socket_connect(s) PROVE EventsTypeOK'
  <2>1. sock[s].fd \in Fds
    BY <1>5 DEF APE_socket_connect, Owned, SocketsOwn
  <2>2. Sock(s) \in Owners /\ Bits \in SUBSET Bits
    BY DEF Owners
  <2>3. /\ nfd' \in Int /\ basemem' \in Nat
        /\ watch' \in [Fds -> {Unwatched} \union Registrations]
    BY <1>5, <2>2, AddType DEF APE_socket_connect
  <2>4. sock' \in Sockets /\ fds' \in [Fds -> Descriptors]
    BY <1>5, <2>1, DescriptorsType DEF APE_socket_connect
  <2> QED
    BY <1>5, <2>3, <2>4 DEF APE_socket_connect
<1>6. ASSUME NEW s \in Socks, ape_socket_accept(s) PROVE EventsTypeOK'
  <2>1. PICK fd \in Fds, n \in {0, 1}, edge \in SUBSET Bits :
          /\ sock' = [sock EXCEPT ![s] = [state |-> "ONLINE", fd |-> fd]]
          /\ owner' = [owner EXCEPT ![fd] = Sock(s)]
          /\ fds' = [fds EXCEPT ![fd] = Opened(TRUE, n, edge)]
          /\ events_add(Sock(s), fd, Bits, FALSE)
    <3>1. \A n \in {0, 1} : (IF handler = "select" THEN {}
                             ELSE IF n > 0 THEN Bits ELSE {"w"}) \in SUBSET Bits
      BY DEF Bits
    <3> QED
      BY <1>6, <3>1, Zenon DEF ape_socket_accept, Lowest
  <2>2. Sock(s) \in Owners /\ Bits \in SUBSET Bits
    BY DEF Owners
  <2>3. /\ nfd' \in Int /\ basemem' \in Nat
        /\ watch' \in [Fds -> {Unwatched} \union Registrations]
    BY <2>1, <2>2, AddType
  <2>4. sock' \in Sockets /\ owner' \in Users
    BY <2>1
  <2>5. fds' \in [Fds -> Descriptors]
    BY <2>1, DescriptorsType
  <2>6. UNCHANGED <<handler, events, at, phase, slot>>
    BY <1>6 DEF ape_socket_accept
  <2> QED
    BY <2>3, <2>4, <2>5, <2>6
<1>7. ASSUME NEW s \in Socks, ape_socket_close(s) PROVE EventsTypeOK'
  <2>1. sock[s].fd \in Fds
    BY <1>7 DEF ape_socket_close, Owned, SocketsOwn
  <2>2. sock' \in Sockets
    BY <1>7, <2>1 DEF ape_socket_close
  <2> QED
    BY <1>7, <2>1, <2>2, DelType DEF ape_socket_close
<1>8. ASSUME AresOpens PROVE EventsTypeOK'
  <2>1. PICK fd \in Fds, i \in SlotIds :
          /\ owner' = [owner EXCEPT ![fd] = CAres]
          /\ fds' = [fds EXCEPT ![fd] = Opened(TRUE, 0, {})]
          /\ slot' = [slot EXCEPT ![i] = fd]
          /\ events_add(Slot(i), fd, {"r"}, TRUE)
    BY <1>8 DEF AresOpens, Lowest, FreeSlot, Listenfor
  <2>2. Slot(i) \in Owners /\ {"r"} \in SUBSET Bits
    BY DEF Owners, Bits
  <2>3. /\ nfd' \in Int /\ basemem' \in Nat
        /\ watch' \in [Fds -> {Unwatched} \union Registrations]
    BY <2>1, <2>2, AddType
  <2>4. owner' \in Users
    BY <2>1
  <2>5. fds' \in [Fds -> Descriptors]
    BY <2>1, DescriptorsType
  <2> QED
    BY <1>8, <2>1, <2>3, <2>4, <2>5 DEF AresOpens
<1>9. ASSUME NEW fd \in Fds, NEW bits \in SUBSET Bits, AresWants(fd, bits)
      PROVE  EventsTypeOK'
  <2>1. InSlot(fd) \in SlotIds
    BY <1>9 DEF AresWants, InSlot, Owned, AresInTable
  <2>2. Slot(InSlot(fd)) \in Owners /\ Listenfor(bits).bits \in SUBSET Bits
        /\ Listenfor(bits).level \in BOOLEAN
    BY <2>1 DEF Owners, Listenfor, Bits
  <2>3. watch' \in [Fds -> {Unwatched} \union Registrations]
    BY <1>9, <2>2, RegisteredType DEF AresWants, events_mod
  <2>4. events' \in Seq(EventRecords)
    BY <1>9, BatchKept DEF AresWants, events_mod
  <2>5. fds' \in [Fds -> Descriptors]
    <3>1. 0 \in 0 .. MaxInput
      BY EventsAssumption DEF EventsAssumption
    <3> QED
      BY <1>9, <3>1, InputType, Zenon DEF AresWants
  <2> QED
    BY <1>9, <2>3, <2>4, <2>5 DEF AresWants, events_mod
<1>10. ASSUME NEW fd \in Fds, AresCloses(fd) PROVE EventsTypeOK'
  BY <1>10, DelType DEF AresCloses
<1>11. CASE EventIgnored
  BY <1>11 DEF EventIgnored, regVars, kernel
<1>12. ASSUME NEW s \in Socks, EventOnline(s) PROVE EventsTypeOK'
  <2>1. sock[s].fd \in Fds /\ 0 \in 0 .. MaxInput
    BY <1>12, EventsAssumption DEF EventsAssumption, EventOnline, Owned, SocketsOwn
  <2>2. fds' \in [Fds -> Descriptors]
    BY <1>12, <2>1, InputType, Zenon DEF EventOnline
  <2> QED
    BY <1>12, <2>2 DEF EventOnline, regVars
<1>13. ASSUME NEW s \in Socks, EventConnected(s) PROVE EventsTypeOK'
  BY <1>13 DEF EventConnected, regVars, kernel
<1>14. ASSUME NEW s \in Socks, EventFailed(s) PROVE EventsTypeOK'
  <2>1. sock[s].fd \in Fds
    BY <1>14 DEF EventFailed, Owned, SocketsOwn
  <2>2. sock' \in Sockets
    BY <1>14, <2>1 DEF EventFailed
  <2> QED
    BY <1>14, <2>1, <2>2, DelType DEF EventFailed
<1>15. ASSUME NEW i \in SlotIds, NEW left \in 0 .. MaxInput, EventDelegate(i, left)
       PROVE  EventsTypeOK'
  <2>1. slot[i] # 0 => slot[i] \in Fds
    OBVIOUS
  <2>2. fds' \in [Fds -> Descriptors]
    <3>1. CASE fds' = fds
      BY <3>1
    <3>2. CASE slot[i] # 0 /\ fds' = [fds EXCEPT ![slot[i]].input = left]
      BY <2>1, <3>2, InputType, Zenon
    <3> QED
      BY <1>15, <3>1, <3>2, Zenon DEF EventDelegate
  <2> QED
    BY <1>15, <2>2 DEF EventDelegate, regVars
<1>16. CASE Return
  BY <1>16 DEF Return, regVars, kernel
<1>17. CASE BatchEnd
  BY <1>17 DEF BatchEnd, regVars, kernel
<1>18. CASE TimersEnd
  BY <1>18 DEF TimersEnd, regVars, kernel
<1>19. CASE events_poll({})
  <2>1. basemem' \in Nat
    BY <1>19, SizeType DEF events_poll
  <2>2. PICK batch \in Batches(basemem') :
          /\ events' = batch
          /\ fds' = [fd \in Fds |-> [fds[fd] EXCEPT !.edge = @ \ Taken(batch, fd)]]
    BY <1>19 DEF events_poll
  <2>3. events' \in Seq(EventRecords)
    BY <2>1, <2>2, BatchType
  <2>4. ASSUME NEW fd \in Fds
        PROVE  [fds[fd] EXCEPT !.edge = @ \ Taken(batch, fd)] \in Descriptors
    <3>1. fds[fd] \in Descriptors
      OBVIOUS
    <3>2. fds[fd].edge \ Taken(batch, fd) \in SUBSET Bits
      BY <3>1 DEF Descriptors
    <3> QED
      BY <3>1, <3>2, Zenon DEF Descriptors
  <2>5. fds' \in [Fds -> Descriptors]
    BY <2>2, <2>4, Zenon
  <2> QED
    BY <1>19, <2>1, <2>3, <2>5 DEF events_poll
<1>20. CASE APE_destroy
  <2> DEFINE open == {fd \in Fds : Ares(fd)}
  <2>1. Cardinality(open) \in Nat
    <3>1. IsFiniteSet(Fds)
      BY FS_Interval, EventsAssumption DEF Fds, EventsAssumption
    <3> QED
      BY <3>1, FS_Subset, FS_CardinalityType
  <2>2. nfd' \in Int
    BY <1>20, <2>1, EventsAssumption DEF APE_destroy, EventsAssumption
  <2>3. /\ watch' \in [Fds -> {Unwatched} \union Registrations]
        /\ slot' \in [SlotIds -> Fds \union {0}]
    BY <1>20 DEF APE_destroy
  <2>4. owner' \in Users
    BY <1>20 DEF APE_destroy
  <2>5. fds' \in [Fds -> Descriptors]
    BY <1>20, DescriptorsType DEF APE_destroy
  <2> QED
    BY <1>20, <2>2, <2>3, <2>4, <2>5 DEF APE_destroy
<1> QED
  BY <1>1, <1>2, <1>3, <1>4, <1>5, <1>6, <1>7, <1>8, <1>9, <1>10, <1>11, <1>12,
     <1>13, <1>14, <1>15, <1>16, <1>17, <1>18, <1>19, <1>20
  DEF EventsNext, Kernel, Application, Resolver, Loop, Dispatch, Bits

-----------------------------------------------------------------------------
(* Owners: what is watched is what is open.                                *)

\* Sockets, slots, c-ares and nobody are told apart.
LEMMA OwnersDiffer ==
    /\ \A s, t \in Socks : Sock(s) = Sock(t) => s = t
    /\ \A i, j \in SlotIds : Slot(i) = Slot(j) => i = j
    /\ \A s \in Socks : Sock(s) # CAres /\ Sock(s) # Nobody
    /\ CAres # Nobody
BY DEF Sock, Slot, CAres, Nobody

\* A descriptor of c-ares is in one slot, which InSlot finds.
LEMMA OneSlot ==
    ASSUME EventsTypeOK, Owned, NEW fd \in Fds, Ares(fd)
    PROVE  /\ InSlot(fd) \in SlotIds /\ slot[InSlot(fd)] = fd
           /\ \A j \in SlotIds : slot[j] = fd => j = InSlot(fd)
<1>1. InSlot(fd) \in SlotIds /\ slot[InSlot(fd)] = fd
  BY DEF InSlot, Owned, AresInTable
<1>2. fd # 0 /\ {"r"} \in SUBSET Bits
  BY DEF Fds, Bits
<1>3. ASSUME NEW j \in SlotIds, slot[j] = fd PROVE j = InSlot(fd)
  <2>1. /\ watch[fd] = Registered(Slot(j), {"r"}, TRUE)
        /\ watch[fd] = Registered(Slot(InSlot(fd)), {"r"}, TRUE)
    BY <1>1, <1>2, <1>3 DEF Owned, SlotsWatched
  <2>2. \A i \in SlotIds : Registered(Slot(i), {"r"}, TRUE).ptr = Slot(i)
    BY DEF Registered, event_select_add, event_kqueue_add, event_epoll_add
  <2>3. watch[fd].ptr = Slot(j)
    BY <2>1, <2>2, <1>3, Zenon
  <2>4. watch[fd].ptr = Slot(InSlot(fd))
    BY <2>1, <2>2, <1>1, Zenon
  <2> QED
    BY <1>1, <2>3, <2>4, OwnersDiffer
<1> QED
  BY <1>1, <1>3

\* Steps that open, close and register nothing keep what they found.
LEMMA OwnedKept ==
    ASSUME Owned, UNCHANGED <<handler, watch, slot, owner>>,
           \A s \in Socks : sock'[s].state \in {"PENDING", "PROGRESS", "ONLINE"} =>
               /\ sock[s].state \in {"PENDING", "PROGRESS", "ONLINE"}
               /\ sock'[s].fd = sock[s].fd
               /\ sock[s].state = "PENDING" => sock'[s].state = "PENDING"
    PROVE  Owned'
<1>1. SocketsOwn'
  BY DEF Owned, SocketsOwn
<1>2. SocketsWatched'
  <2> SUFFICES ASSUME NEW s \in Socks, sock'[s].state \in {"PROGRESS", "ONLINE"}
               PROVE  watch'[sock'[s].fd] = Registered(Sock(s), Bits, FALSE)'
    BY DEF SocketsWatched
  <2>1. sock[s].state \in {"PROGRESS", "ONLINE"} /\ sock'[s].fd = sock[s].fd
    OBVIOUS
  <2> QED
    BY <2>1 DEF Owned, SocketsWatched, Registered, event_select_add, event_kqueue_add,
                event_epoll_add
<1>3. AresInTable'
  BY DEF Owned, AresInTable, Ares
<1>4. SlotsWatched'
  BY DEF Owned, SlotsWatched, Ares, Registered, event_select_add, event_kqueue_add,
         event_epoll_add
<1>5. ClosedUnwatched'
  BY DEF Owned, ClosedUnwatched, Open
<1> QED
  BY <1>1, <1>2, <1>3, <1>4, <1>5 DEF Owned

\* Closing a descriptor that no connected socket and no slot has afterwards.
LEMMA DelOwned ==
    ASSUME EventsTypeOK, Owned, NEW fd \in Fds, events_del(fd), handler' = handler,
           \A s \in Socks : sock'[s].state \in {"PENDING", "PROGRESS", "ONLINE"} =>
               sock'[s] = sock[s] /\ sock[s].fd # fd,
           \A i \in SlotIds : slot[i] # fd => slot'[i] = slot[i],
           \A i \in SlotIds : slot'[i] # fd,
           \A i \in SlotIds : slot'[i] # 0 => slot'[i] = slot[i]
    PROVE  Owned'
<1> USE DEF EventsTypeOK, events_del
<1>1. \A ptr, bits, level : Registered(ptr, bits, level)' = Registered(ptr, bits, level)
  BY DEF Registered, event_select_add, event_kqueue_add, event_epoll_add
<1>2. SocketsOwn'
  BY DEF Owned, SocketsOwn
<1>3. SocketsWatched'
  BY <1>1 DEF Owned, SocketsOwn, SocketsWatched
<1>4. AresInTable'
  BY OwnersDiffer DEF Owned, AresInTable, Ares
<1>5. SlotsWatched'
  BY <1>1 DEF Owned, SlotsWatched, Ares
<1>6. ClosedUnwatched'
  BY DEF Owned, ClosedUnwatched, Open
<1> QED
  BY <1>2, <1>3, <1>4, <1>5, <1>6 DEF Owned

\* Closing a socket.
LEMMA CloseOwned ==
    ASSUME EventsTypeOK, Owned, NEW s \in Socks,
           sock[s].state \in {"PENDING", "PROGRESS", "ONLINE"},
           sock' = [sock EXCEPT ![s] = [state |-> "OFFLINE", fd |-> sock[s].fd]],
           events_del(sock[s].fd), UNCHANGED <<handler, slot>>
    PROVE  Owned'
<1> DEFINE fd == sock[s].fd
<1>1. fd \in Fds /\ owner[fd] = Sock(s) /\ fd # 0
  BY DEF Owned, SocketsOwn, Fds
<1>2. \A t \in Socks : sock'[t].state \in {"PENDING", "PROGRESS", "ONLINE"} =>
          sock'[t] = sock[t] /\ sock[t].fd # fd
  BY <1>1, OwnersDiffer DEF EventsTypeOK, Owned, SocketsOwn
<1>3. \A i \in SlotIds : slot[i] # fd
  BY <1>1, OwnersDiffer DEF Owned, SlotsWatched, Ares
<1> QED
  BY <1>1, <1>2, <1>3, DelOwned

\* Every step keeps what is watched and what is open in agreement.
LEMMA OwnedNext ==
    ASSUME EventsTypeOK, Owned, [EventsNext]_evVars
    PROVE  Owned'
<1>1. CASE UNCHANGED evVars
  BY <1>1, OwnedKept DEF evVars, regVars, kernel
<1>2. ASSUME NEW fd \in Fds, Connects(fd) \/ Arrives(fd) PROVE Owned'
  BY <1>2, OwnedKept DEF Connects, Arrives, regVars
<1>3. ASSUME NEW s \in Socks, APE_socket_new(s) PROVE Owned'
  <2>1. PICK fd \in Fds :
          /\ ~Open(fd)
          /\ sock' = [sock EXCEPT ![s] = [state |-> "PENDING", fd |-> fd]]
          /\ owner' = [owner EXCEPT ![fd] = Sock(s)]
    BY <1>3 DEF APE_socket_new, Lowest
  <2>2. UNCHANGED <<handler, watch, slot>>
    BY <1>3 DEF APE_socket_new, regVars
  <2>3. \A ptr, bits, level : Registered(ptr, bits, level)' = Registered(ptr, bits, level)
    BY <2>2 DEF Registered, event_select_add, event_kqueue_add, event_epoll_add
  <2>4. SocketsOwn' /\ SocketsWatched'
    BY <2>1, <2>2, <2>3, OwnersDiffer DEF EventsTypeOK, Owned, SocketsOwn, SocketsWatched, Open
  <2>5. AresInTable' /\ SlotsWatched' /\ ClosedUnwatched'
    BY <2>1, <2>2, <2>3, OwnersDiffer
    DEF EventsTypeOK, Owned, AresInTable, SlotsWatched, ClosedUnwatched, Ares, Open
  <2> QED
    BY <2>4, <2>5 DEF Owned
<1>4. ASSUME NEW s \in Socks, APE_socket_connect(s) PROVE Owned'
  <2> DEFINE fd == sock[s].fd
  <2>1. /\ sock[s].state = "PENDING" /\ fd \in Fds /\ owner[fd] = Sock(s)
        /\ sock' = [sock EXCEPT ![s] = [state |-> "PROGRESS", fd |-> fd]]
        /\ watch' = [watch EXCEPT ![fd] = Registered(Sock(s), Bits, FALSE)]
        /\ UNCHANGED <<handler, slot, owner>>
    BY <1>4 DEF APE_socket_connect, events_add, Owned, SocketsOwn
  <2>2. \A ptr, bits, level : Registered(ptr, bits, level)' = Registered(ptr, bits, level)
    BY <2>1 DEF Registered, event_select_add, event_kqueue_add, event_epoll_add
  <2>3. SocketsOwn' /\ SocketsWatched'
    BY <2>1, <2>2, OwnersDiffer DEF EventsTypeOK, Owned, SocketsOwn, SocketsWatched
  <2>4. AresInTable' /\ SlotsWatched' /\ ClosedUnwatched'
    BY <2>1, <2>2, OwnersDiffer
    DEF EventsTypeOK, Owned, AresInTable, SlotsWatched, ClosedUnwatched, Ares, Open
  <2> QED
    BY <2>3, <2>4 DEF Owned
<1>5. ASSUME NEW s \in Socks, ape_socket_accept(s) PROVE Owned'
  <2>1. PICK fd \in Fds :
          /\ ~Open(fd)
          /\ sock' = [sock EXCEPT ![s] = [state |-> "ONLINE", fd |-> fd]]
          /\ owner' = [owner EXCEPT ![fd] = Sock(s)]
          /\ watch' = [watch EXCEPT ![fd] = Registered(Sock(s), Bits, FALSE)]
    BY <1>5 DEF ape_socket_accept, Lowest, events_add
  <2>2. UNCHANGED <<handler, slot>>
    BY <1>5 DEF ape_socket_accept
  <2>3. \A ptr, bits, level : Registered(ptr, bits, level)' = Registered(ptr, bits, level)
    BY <2>2 DEF Registered, event_select_add, event_kqueue_add, event_epoll_add
  <2>4. SocketsOwn' /\ SocketsWatched'
    BY <2>1, <2>2, <2>3, OwnersDiffer DEF EventsTypeOK, Owned, SocketsOwn, SocketsWatched, Open
  <2>5. AresInTable' /\ SlotsWatched' /\ ClosedUnwatched'
    BY <2>1, <2>2, <2>3, OwnersDiffer
    DEF EventsTypeOK, Owned, AresInTable, SlotsWatched, ClosedUnwatched, Ares, Open
  <2> QED
    BY <2>4, <2>5 DEF Owned
<1>6. ASSUME NEW s \in Socks, ape_socket_close(s) PROVE Owned'
  BY <1>6, CloseOwned DEF ape_socket_close
<1>7. CASE AresOpens
  <2>1. PICK fd \in Fds, i \in SlotIds :
          /\ ~Open(fd) /\ slot[i] = 0
          /\ owner' = [owner EXCEPT ![fd] = CAres]
          /\ slot' = [slot EXCEPT ![i] = fd]
          /\ watch' = [watch EXCEPT ![fd] = Registered(Slot(i), {"r"}, TRUE)]
    BY <1>7 DEF AresOpens, Lowest, FreeSlot, Listenfor, events_add
  <2>2. UNCHANGED <<handler, sock>>
    BY <1>7 DEF AresOpens
  <2>3. \A ptr, bits, level : Registered(ptr, bits, level)' = Registered(ptr, bits, level)
    BY <2>2 DEF Registered, event_select_add, event_kqueue_add, event_epoll_add
  <2>4. SocketsOwn' /\ SocketsWatched'
    BY <2>1, <2>2, <2>3, OwnersDiffer DEF EventsTypeOK, Owned, SocketsOwn, SocketsWatched, Open
  <2>5. AresInTable'
    <3> SUFFICES ASSUME NEW f \in Fds, Ares(f)' PROVE \E k \in SlotIds : slot'[k] = f
      BY DEF AresInTable
    <3>1. CASE f = fd
      BY <2>1, <3>1 DEF EventsTypeOK
    <3>2. CASE f # fd
      <4>1. PICK k \in SlotIds : slot[k] = f
        BY <2>1, <3>2 DEF EventsTypeOK, Owned, AresInTable, Ares
      <4>2. k # i
        BY <2>1, <4>1 DEF Fds
      <4> QED
        BY <2>1, <4>1, <4>2 DEF EventsTypeOK
    <3> QED
      BY <3>1, <3>2
  <2>6. ClosedUnwatched'
    BY <2>1, OwnersDiffer DEF EventsTypeOK, Owned, ClosedUnwatched, Open
  <2>7. SlotsWatched'
    BY <2>1, <2>2, <2>3, OwnersDiffer DEF EventsTypeOK, Owned, SlotsWatched, Ares, Open
  <2> QED
    BY <2>4, <2>5, <2>6, <2>7 DEF Owned
<1>8. ASSUME NEW fd \in Fds, NEW bits \in {{"r"}, Bits}, AresWants(fd, bits) PROVE Owned'
  <2>1. /\ Ares(fd) /\ UNCHANGED <<handler, sock, slot, owner>>
        /\ watch' = [watch EXCEPT ![fd] = Registered(Slot(InSlot(fd)), {"r"}, TRUE)]
    BY <1>8 DEF AresWants, events_mod, Listenfor, Bits
  <2>2. \A ptr, bit, level : Registered(ptr, bit, level)' = Registered(ptr, bit, level)
    BY <2>1 DEF Registered, event_select_add, event_kqueue_add, event_epoll_add
  <2>3. SocketsOwn' /\ SocketsWatched'
    BY <2>1, <2>2, OwnersDiffer DEF EventsTypeOK, Owned, SocketsOwn, SocketsWatched, Ares
  <2>4. AresInTable' /\ ClosedUnwatched'
    BY <2>1, OwnersDiffer DEF EventsTypeOK, Owned, AresInTable, ClosedUnwatched, Ares, Open
  <2>5. SlotsWatched'
    BY <2>1, <2>2, OneSlot DEF EventsTypeOK, Owned, SlotsWatched, Ares
  <2> QED
    BY <2>3, <2>4, <2>5 DEF Owned
<1>9. ASSUME NEW fd \in Fds, AresCloses(fd) PROVE Owned'
  <2>1. /\ Ares(fd) /\ events_del(fd) /\ UNCHANGED <<handler, sock>>
        /\ slot' = [slot EXCEPT ![InSlot(fd)] = 0]
    BY <1>9 DEF AresCloses
  <2>2. \A s \in Socks : sock'[s].state \in {"PENDING", "PROGRESS", "ONLINE"} =>
            sock'[s] = sock[s] /\ sock[s].fd # fd
    BY <2>1, OwnersDiffer DEF Owned, SocketsOwn, Ares
  <2>3. /\ InSlot(fd) \in SlotIds /\ slot[InSlot(fd)] = fd
        /\ \A j \in SlotIds : slot[j] = fd => j = InSlot(fd)
    BY <2>1, OneSlot
  <2>4. \A i \in SlotIds : /\ slot[i] # fd => slot'[i] = slot[i]
                           /\ slot'[i] # fd
                           /\ slot'[i] # 0 => slot'[i] = slot[i]
    BY <2>1, <2>3 DEF EventsTypeOK, Fds
  <2> QED
    BY <2>1, <2>2, <2>4, DelOwned
<1>10. ASSUME EventIgnored \/ Return \/ BatchEnd \/ events_poll({}) PROVE Owned'
  BY <1>10, OwnedKept DEF EventIgnored, Return, BatchEnd, events_poll, regVars, kernel
<1>11. ASSUME NEW s \in Socks, EventOnline(s) PROVE Owned'
  BY <1>11, OwnedKept DEF EventOnline, regVars
<1>12. ASSUME NEW s \in Socks, EventConnected(s) PROVE Owned'
  <2>1. \A t \in Socks : sock'[t].state \in {"PENDING", "PROGRESS", "ONLINE"} =>
            /\ sock[t].state \in {"PENDING", "PROGRESS", "ONLINE"}
            /\ sock'[t].fd = sock[t].fd
            /\ sock[t].state = "PENDING" => sock'[t].state = "PENDING"
    BY <1>12 DEF EventConnected, EventsTypeOK
  <2> QED
    BY <1>12, <2>1, OwnedKept DEF EventConnected, regVars, kernel
<1>13. ASSUME NEW s \in Socks, EventFailed(s) PROVE Owned'
  BY <1>13, CloseOwned DEF EventFailed
<1>14. ASSUME NEW i \in SlotIds, NEW left \in 0 .. MaxInput, EventDelegate(i, left)
       PROVE  Owned'
  BY <1>14, OwnedKept DEF EventDelegate, regVars
<1>15. CASE TimersEnd
  <2>1. \A t \in Socks : sock'[t].state \in {"PENDING", "PROGRESS", "ONLINE"} =>
            sock'[t] = sock[t]
    BY <1>15 DEF TimersEnd
  <2> QED
    BY <1>15, <2>1, OwnedKept DEF TimersEnd, regVars, kernel
<1>16. CASE APE_destroy
  <2>1. /\ watch' = [fd \in Fds |-> IF Ares(fd) THEN Unwatched ELSE watch[fd]]
        /\ owner' = [fd \in Fds |-> IF Ares(fd) THEN Nobody ELSE owner[fd]]
        /\ slot' = [i \in SlotIds |-> 0]
        /\ UNCHANGED <<handler, sock>>
    BY <1>16 DEF APE_destroy
  <2>2. \A ptr, bits, level : Registered(ptr, bits, level)' = Registered(ptr, bits, level)
    BY <2>1 DEF Registered, event_select_add, event_kqueue_add, event_epoll_add
  <2>3. SocketsOwn' /\ SocketsWatched'
    BY <2>1, <2>2, OwnersDiffer DEF EventsTypeOK, Owned, SocketsOwn, SocketsWatched, Ares
  <2>4. AresInTable' /\ SlotsWatched' /\ ClosedUnwatched'
    BY <2>1, OwnersDiffer DEF EventsTypeOK, Owned, AresInTable, SlotsWatched,
                              ClosedUnwatched, Ares, Open
  <2> QED
    BY <2>3, <2>4 DEF Owned
<1> QED
  BY <1>1, <1>2, <1>3, <1>4, <1>5, <1>6, <1>7, <1>8, <1>9, <1>10, <1>11, <1>12,
     <1>13, <1>14, <1>15, <1>16
  DEF EventsNext, Kernel, Application, Resolver, Loop, Dispatch

-----------------------------------------------------------------------------
(* The array of events.                                                    *)

\* Steps that leave the array alone and the batch no longer than it was.
LEMMA SizedKept ==
    ASSUME EventsTypeOK, Sized, UNCHANGED <<handler, basemem>>,
           Len(events') <= Len(events), Len(events') \in Nat
    PROVE  Sized'
BY DEF EventsTypeOK, Sized, BatchFits, Capacity

\* Registering one more makes the array no smaller.
LEMMA SizedAdd ==
    ASSUME EventsTypeOK, Sized, UNCHANGED <<handler, events>>, NEW ptr, NEW fd, NEW bits,
           NEW level, events_add(ptr, fd, bits, level)
    PROVE  Sized'
<1>1. basemem' \in Nat /\ basemem' >= basemem
      /\ (handler = "select" => basemem' = FdSetSize)
  BY EventsAssumption
  DEF EventsTypeOK, Sized, events_add, events_setsize, event_select_setsize, EventsAssumption
<1> QED
  BY <1>1 DEF EventsTypeOK, Sized, BatchFits, Capacity

\* Every step keeps the batch within the array.
LEMMA SizedNext ==
    ASSUME EventsTypeOK, Owned, Sized, [EventsNext]_evVars
    PROVE  Sized'
<1>0. Len(events) \in Nat
  BY DEF EventsTypeOK
<1>1. CASE UNCHANGED <<handler, basemem, events>>
  BY <1>0, <1>1, SizedKept
<1>2. ASSUME NEW s \in Socks, APE_socket_connect(s) PROVE Sized'
  BY <1>2, SizedAdd DEF APE_socket_connect
<1>3. ASSUME NEW s \in Socks, ape_socket_accept(s) PROVE Sized'
  BY <1>3, SizedAdd DEF ape_socket_accept
<1>4. CASE AresOpens
  BY <1>4, SizedAdd DEF AresOpens
<1>5. ASSUME NEW fd \in Fds, events_del(fd), handler' = handler PROVE Sized'
  BY <1>0, <1>5, BatchKept, SizedKept DEF events_del, EventsTypeOK
<1>6. ASSUME NEW s \in Socks, ape_socket_close(s) \/ EventFailed(s) PROVE Sized'
  <2>1. sock[s].fd \in Fds
    BY <1>6 DEF ape_socket_close, EventFailed, Owned, SocketsOwn
  <2> QED
    BY <1>5, <1>6, <2>1 DEF ape_socket_close, EventFailed
<1>7. ASSUME NEW fd \in Fds, AresCloses(fd) PROVE Sized'
  BY <1>5, <1>7 DEF AresCloses
<1>8. ASSUME NEW fd \in Fds, NEW bits, AresWants(fd, bits) PROVE Sized'
  BY <1>0, <1>8, BatchKept, SizedKept DEF AresWants, events_mod, EventsTypeOK
<1>9. CASE BatchEnd
  BY <1>0, <1>9, SizedKept DEF BatchEnd, regVars
<1>10. CASE events_poll({})
  <2>1. basemem' = events_shrink /\ basemem' \in Nat /\ handler' = handler
    BY <1>10, SizeType DEF events_poll, EventsTypeOK
  <2>2. events' \in Batches(basemem')
    BY <1>10 DEF events_poll
  <2>3. Len(events') <= Capacity(basemem')
    BY <2>1, <2>2, BatchType DEF EventsTypeOK
  <2>4. handler = "select" => basemem' = FdSetSize
    BY <2>1 DEF Sized, events_shrink, events_setsize, event_select_setsize
  <2> QED
    BY <2>1, <2>3, <2>4 DEF Sized, BatchFits, Capacity
<1> QED
  BY <1>1, <1>2, <1>3, <1>4, <1>6, <1>7, <1>8, <1>9, <1>10
  DEF EventsNext, evVars, regVars, kernel, Kernel, Application, Resolver, Loop, Dispatch,
      Connects, Arrives, APE_socket_new, EventIgnored, EventOnline, EventConnected,
      EventDelegate, Return, TimersEnd, APE_destroy

-----------------------------------------------------------------------------
(* Theorems.                                                               *)

\* A loop that has just been made.
LEMMA EventsInvInit == EventsInit => EventsInv
<1> SUFFICES ASSUME EventsInit PROVE EventsInv
  OBVIOUS
<1> USE DEF EventsInit
<1>1. basemem \in Nat /\ (handler = "select" => basemem = FdSetSize)
  BY EventsAssumption DEF EventsAssumption, events_setsize, event_select_setsize
<1>2. fds \in [Fds -> Descriptors]
  <2>1. 0 \in 0 .. MaxInput
    BY EventsAssumption DEF EventsAssumption
  <2> QED
    BY <2>1 DEF Opened, Descriptors
<1>3. EventsTypeOK
  <2>1. sock \in [Socks -> [state : {"none", "PENDING", "PROGRESS", "ONLINE", "OFFLINE"},
                           fd : Fds \union {0}]]
    OBVIOUS
  <2>2. events \in Seq(EventRecords) /\ nfd \in Int /\ at \in Nat \ {0}
    OBVIOUS
  <2>3. /\ watch \in [Fds -> {Unwatched} \union Registrations]
        /\ slot \in [SlotIds -> Fds \union {0}]
    OBVIOUS
  <2>4. owner \in [Fds -> {Nobody, CAres} \union {Sock(s) : s \in Socks}]
    OBVIOUS
  <2>5. handler \in Handlers /\ phase = "timers"
    OBVIOUS
  <2> QED
    BY <1>1, <1>2, <2>1, <2>2, <2>3, <2>4, <2>5 DEF EventsTypeOK
<1>4. Owned
  BY OwnersDiffer
  DEF Owned, SocketsOwn, SocketsWatched, AresInTable, SlotsWatched, ClosedUnwatched,
      Ares, Open
<1>5. Sized
  BY <1>1 DEF Sized, BatchFits, Capacity
<1> QED
  BY <1>3, <1>4, <1>5 DEF EventsInv

\* The inductive invariant holds in every state of the loop.
THEOREM EventsInvariant == EventsSpec => []EventsInv
<1>1. EventsInv /\ [EventsNext]_evVars => EventsInv'
  BY TypesNext, OwnedNext, SizedNext DEF EventsInv
<1> QED
  BY EventsInvInit, <1>1, PTL DEF EventsSpec

\* The variables keep their types, for every backend and any number of
\* descriptors, sockets and slots.
THEOREM EventsTypeCorrect == EventsSpec => []EventsTypeOK
<1>1. EventsInv => EventsTypeOK
  BY DEF EventsInv
<1> QED
  BY EventsInvariant, <1>1, PTL

\* What is watched is what is open, for the one who has it: a connected socket
\* is registered for itself, a descriptor of c-ares through the one slot that
\* has it, and what is closed is not watched (events_add, events_del,
\* ares_socket_cb, APE_destroy).
THEOREM WatchesCorrect == EventsSpec => []WatchesAgree
<1>1. ASSUME EventsInv PROVE WatchesAgree
  <2> USE <1>1 DEF EventsInv
  <2>1. \A s \in Socks : sock[s].state \in {"PROGRESS", "ONLINE"} =>
          /\ owner[sock[s].fd] = Sock(s)
          /\ watch[sock[s].fd] = Registered(Sock(s), Bits, FALSE)
    BY DEF Owned, SocketsOwn, SocketsWatched
  <2>2. ASSUME NEW fd \in Fds, Ares(fd)
        PROVE  \E i \in SlotIds : /\ \A j \in SlotIds : slot[j] = fd <=> j = i
                                 /\ watch[fd] = Registered(Slot(i), {"r"}, TRUE)
    <3>1. /\ InSlot(fd) \in SlotIds /\ slot[InSlot(fd)] = fd
          /\ \A j \in SlotIds : slot[j] = fd => j = InSlot(fd)
      BY <2>2, OneSlot
    <3>2. watch[fd] = Registered(Slot(InSlot(fd)), {"r"}, TRUE)
      <4>1. slot[InSlot(fd)] # 0
        BY <3>1 DEF Fds
      <4> QED
        BY <3>1, <4>1, Zenon DEF Owned, SlotsWatched
    <3> QED
      BY <3>1, <3>2, Zenon
  <2>3. \A fd \in Fds : watch[fd].on # {} => Open(fd)
    BY DEF Owned, ClosedUnwatched, Unwatched
  <2> QED
    BY <2>1, <2>2, <2>3 DEF WatchesAgree
<1> QED
  BY EventsInvariant, <1>1, PTL

\* While callbacks register and close descriptors, the events of a batch that
\* are still to be looked at stay within the array (events_add, events_shrink,
\* events_setsize of every backend).
THEOREM BatchCorrect == EventsSpec => []BatchFits
<1>1. EventsInv => BatchFits
  BY DEF EventsInv, Sized
<1> QED
  BY EventsInvariant, <1>1, PTL
=============================================================================
