------------------------------ MODULE Sockets -------------------------------
(***************************************************************************)
(* The life of a socket of ape_socket.c: creation, listen or connect, the  *)
(* DNS answer, the callbacks, the ways it is shut down, its deferred       *)
(* release; together with the event loop of ape_events_loop.c that drives  *)
(* it and the timers that release it.                                      *)
(*                                                                         *)
(* One thread runs everything, but every callback of the application may   *)
(* re-enter the API: create, connect, write to and shut down any socket,   *)
(* the one being served included.  `stack' holds what is suspended while a *)
(* callback runs: the top frame is what executes, and it is empty when the *)
(* loop itself does.                                                       *)
(*                                                                         *)
(* What is written is reduced to what decides the socket's life: is there  *)
(* a job in the list, is a shutdown queued behind it.  The order of timers *)
(* is what module Timers establishes: newest first, and those created in a *)
(* pass wait for the next.                                                 *)
(***************************************************************************)
EXTENDS Integers, Sequences, FiniteSets

CONSTANTS
    Sockets,     \* the ape_socket structures a behaviour may allocate
    NoSocket,
    MaxFd,       \* bound: descriptors of the process
    MaxBatch,    \* bound: events one poll returns
    Uses         \* what the application and its environment do

Fds   == 1 .. MaxFd
NoFd  == 0

ASSUME SocketsAssumption ==
    /\ IsFiniteSet(Sockets) /\ NoSocket \notin Sockets
    /\ MaxFd \in Nat /\ MaxBatch \in Nat
    /\ Uses \subseteq {"listen", "connect", "dns", "udp", "write", "delay",
                       "destroy",     \* the application calls these
                       "listenfail",  \* bind() or listen() fails
                       "bindfail",    \* bind() of the local port fails
                       "impatient",   \* closes UDP before on_connected
                       "closeserver", \* closes what accept() or recvfrom() loops on
                       "destroylate"} \* destroys what is shutting down

VARIABLES
    sock,        \* the ape_socket structures
    open,        \* kernel: the socket a descriptor was opened for
    registered,  \* kernel: the sockets registered for events
    nfd,         \* ape->events.nfd
    lookup,      \* the c-ares query of a socket, and its invalidate flag
    timers,      \* the timers linked, newest first ...
    todo,        \* ... but for those the current pass has still to visit
    batch,       \* the events of the last poll still to dispatch
    loop,        \* where APE_loop_run is
    stack        \* the calls in progress, innermost first

vars == <<sock, open, registered, nfd, lookup, timers, todo, batch, loop,
          stack>>

Socket ==
    [mem     : {"none", "live", "freed"},
     proto   : {"TCP", "UDP"},
     type    : {"UNKNOWN", "SERVER", "CLIENT"},
     state   : {"PENDING", "PROGRESS", "ONLINE", "SHUTDOWN", "OFFLINE"},
     fd      : Fds \union {NoFd},
     jobs    : {"none", "data", "shutdown"}, \* the last job of the list
     blocked : BOOLEAN,                      \* APE_SOCKET_WOULD_BLOCK
     delayed : BOOLEAN,                      \* delay_timer # NULL
     dns     : BOOLEAN,                      \* dns_state # NULL
     told    : Nat]                          \* history: on_disconnect calls

\* ape_socket_free, _ape_socket_destroy, ape_socket_connected (for UDP) and
\* ape_socket_shutdown_delay_cb.
Timer == [cb : {"free", "destroy", "connected", "delay"}, s : Sockets]

Callbacks == {"main", "on_read", "on_drain", "on_connected", "on_connect",
              "on_message", "on_disconnect"}
Suspended == {"connecting", "client", "afterread", "write", "accept",
              "recvfrom", "undelay"}

\* "arg" keeps what is used later: the bits of the event, whether
\* ape_socket_read saw the end of the stream or an error ("ended"), whether
\* ape_socket_close was called by _ape_socket_destroy ("free"); history: what
\* was accepted or received came to the descriptor of another ("foreign").
Frame == [at  : Callbacks \union Suspended,
          s   : Sockets \union {NoSocket},
          arg : SUBSET {"readable", "writable", "ended", "free", "foreign"}]

Call(at, s, arg) == [at |-> at, s |-> s, arg |-> arg]

Blank == [mem |-> "none", proto |-> "TCP", type |-> "UNKNOWN",
          state |-> "PENDING", fd |-> NoFd, jobs |-> "none",
          blocked |-> FALSE, delayed |-> FALSE, dns |-> FALSE, told |-> 0]

Init ==
    /\ sock = [s \in Sockets |-> Blank]
    /\ open = [f \in Fds |-> NoSocket]
    /\ registered = {}
    /\ nfd = 0
    /\ lookup = [s \in Sockets |-> "none"]
    /\ timers = <<>> /\ todo = <<>> /\ batch = <<>>
    /\ loop = "timers"
    /\ stack = <<Call("main", NoSocket, {})>>

-----------------------------------------------------------------------------
(* Helpers.                                                                *)

Live(s)    == sock[s].mem = "live"
Pending    == {timers[i] : i \in DOMAIN timers} \union
              {todo[i] : i \in DOMAIN todo}
On(cb, s)  == [cb |-> cb, s |-> s]

\* Which socket the kernel serves when `s' uses its descriptor number.
Owner(s)   == IF sock[s].fd = NoFd THEN NoSocket ELSE open[sock[s].fd]

FreeFds    == {f \in Fds : open[f] = NoSocket}
LowestFd   == CHOOSE f \in FreeFds : \A g \in FreeFds : f <= g

Busy(s)    == sock[s].blocked \/ sock[s].jobs # "none"

\* ape_init_job_list, memset: a socket of APE_socket_new.
Fresh(proto) == [Blank EXCEPT !.mem = "live", !.proto = proto, !.fd = LowestFd]

\* timer_dispatch_async.
Dispatch(cb, s) == timers' = <<On(cb, s)>> \o timers

\* Mutant of BeginClose: the socket is OFFLINE only after the callback.
BeginCloseLate(s, arg, rest) ==
    /\ sock' = [sock EXCEPT ![s].told = @ + 1]
    /\ stack' = <<Call("on_disconnect", s, arg)>> \o rest
    /\ UNCHANGED <<open, registered, nfd, lookup, timers>>

\* Mutant of BeginClose: the query goes on with a pointer to the socket.
BeginCloseKeepsLookup(s, arg, rest) ==
    /\ sock' = [sock EXCEPT ![s].state = "OFFLINE", ![s].told = @ + 1]
    /\ stack' = <<Call("on_disconnect", s, arg)>> \o rest
    /\ UNCHANGED <<open, registered, nfd, lookup, timers>>

\* Mutant of BeginClose: the descriptor is closed before the callback too.
BeginCloseTwice(s, arg, rest) ==
    /\ sock' = [sock EXCEPT ![s].state = "OFFLINE", ![s].told = @ + 1]
    /\ open' = [open EXCEPT ![sock[s].fd] = NoSocket]
    /\ stack' = <<Call("on_disconnect", s, arg)>> \o rest
    /\ UNCHANGED <<registered, nfd, lookup, timers>>

\* ape_socket_close down to on_disconnect.  It is called, with `rest' below
\* it, by ape_socket_destroy, or by _ape_socket_destroy with arg {"free"}.
BeginClose(s, arg, rest) ==
    /\ sock' = [sock EXCEPT ![s].state = "OFFLINE", ![s].told = @ + 1]
    /\ lookup' = IF sock[s].dns THEN [lookup EXCEPT ![s] = "invalidated"]
                                ELSE lookup
    /\ stack' = <<Call("on_disconnect", s, arg)>> \o rest
    /\ UNCHANGED <<open, registered, nfd, timers>>

\* Mutant of ApeShutdown: the release of the socket is not scheduled.
ApeShutdownForgets(s, rest) ==
    IF sock[s].type = "SERVER"
    THEN BeginClose(s, {}, rest)
    ELSE /\ sock' = [sock EXCEPT ![s].state = "SHUTDOWN"]
         /\ stack' = rest
         /\ UNCHANGED <<open, registered, nfd, lookup, timers>>

\* ape_shutdown of an ONLINE socket.
ApeShutdown(s, rest) ==
    IF sock[s].type = "SERVER"
    THEN BeginClose(s, {}, rest)
    ELSE /\ sock' = [sock EXCEPT ![s].state = "SHUTDOWN"]
         /\ Dispatch("destroy", s)
         /\ stack' = rest
         /\ UNCHANGED <<open, registered, nfd, lookup>>

\* Mutant of APE_socket_shutdown: nothing is queued behind the data.
ShutdownUnqueued(s, rest) ==
    \/ /\ sock[s].state \in {"PENDING", "PROGRESS"}
       /\ BeginClose(s, {}, rest)
    \/ /\ sock[s].state = "ONLINE" /\ ~Busy(s)
       /\ ApeShutdown(s, rest)
    \/ /\ \/ sock[s].state \in {"SHUTDOWN", "OFFLINE"}
          \/ sock[s].state = "ONLINE" /\ Busy(s)
       /\ stack' = rest
       /\ UNCHANGED <<sock, open, registered, nfd, lookup, timers>>

\* APE_socket_shutdown with `rest' below it.
APE_socket_shutdown(s, rest) ==
    \/ /\ sock[s].state \in {"PENDING", "PROGRESS"}
       /\ BeginClose(s, {}, rest)
    \/ /\ sock[s].state = "ONLINE" /\ ~Busy(s)
       /\ ApeShutdown(s, rest)
    \/ /\ sock[s].state = "ONLINE" /\ Busy(s)
       /\ sock' = [sock EXCEPT ![s].jobs = "shutdown"]
       /\ stack' = rest
       /\ UNCHANGED <<open, registered, nfd, lookup, timers>>
    \/ /\ sock[s].state \in {"SHUTDOWN", "OFFLINE"}
       /\ stack' = rest
       /\ UNCHANGED <<sock, open, registered, nfd, lookup, timers>>

\* ape_socket_free; `ts' is what is left to visit of the timers.
Released(s) == [Blank EXCEPT !.mem = "freed", !.told = sock[s].told]

\* APE_timer_destroy of the delay timer of `s', among the timers `ts'.
Without(s, ts) ==
    LET its == {i \in DOMAIN ts : ts[i] = On("delay", s)}
        i   == CHOOSE j \in its : TRUE
    IN  IF sock[s].delayed /\ its # {}
        THEN SubSeq(ts, 1, i - 1) \o SubSeq(ts, i + 1, Len(ts))
        ELSE ts

\* Mutant of Free: the delay timer keeps a pointer to the socket.
FreeKeepsDelay(s, ts) ==
    /\ sock' = [sock EXCEPT ![s] = Released(s)]
    /\ todo' = ts
    /\ UNCHANGED timers

Free(s, ts) ==
    /\ sock' = [sock EXCEPT ![s] = Released(s)]
    /\ timers' = Without(s, timers)
    /\ todo' = Without(s, ts)

-----------------------------------------------------------------------------
(* The application: what "main" and the callbacks do.                      *)

InUserCode == stack # <<>> /\ Head(stack).at \in Callbacks

\* Sockets the application may name: it forgets them on on_disconnect.
Refers(s) ==
    /\ InUserCode
    /\ Live(s)
    /\ \/ sock[s].told = 0
       \/ Head(stack).at = "on_disconnect" /\ Head(stack).s = s

\* What an application must not do to be safe, and does with such Uses.
MayClose(s) ==
    /\ Refers(s)
    /\ On("connected", s) \in Pending => "impatient" \in Uses
    /\ sock[s].type = "SERVER" /\ loop = "batch" => "closeserver" \in Uses

\* APE_socket_new(proto, 0); a structure and a descriptor are left.
APE_socket_new(s, proto) ==
    /\ InUserCode
    /\ proto = "UDP" => "udp" \in Uses
    /\ sock[s].mem = "none" /\ FreeFds # {}
    /\ sock' = [sock EXCEPT ![s] = Fresh(proto)]
    /\ open' = [open EXCEPT ![LowestFd] = s]
    /\ UNCHANGED <<registered, nfd, lookup, timers, todo, batch, loop, stack>>

\* A socket neither listening nor connecting.
Unused(s) ==
    /\ Refers(s)
    /\ sock[s].state = "PENDING" /\ ~sock[s].dns
    /\ Owner(s) = s

\* Mutant of APE_socket_listen: the two fields of `states' are swapped.
ListenSwapsStates(s) ==
    /\ "listen" \in Uses
    /\ Unused(s)
    /\ sock' = [sock EXCEPT ![s].type = "ONLINE", ![s].state = "SERVER"]
    /\ registered' = registered \union {s}
    /\ nfd' = nfd + 1
    /\ UNCHANGED <<open, lookup, timers, todo, batch, loop, stack>>

\* bind(), listen() and events_add; a failure closes the descriptor only.
APE_socket_listen(s) ==
    /\ "listen" \in Uses
    /\ Unused(s)
    /\ \/ /\ sock' = [sock EXCEPT ![s].type = "SERVER", ![s].state = "ONLINE"]
          /\ registered' = registered \union {s}
          /\ nfd' = nfd + 1
          /\ UNCHANGED open
       \/ /\ "listenfail" \in Uses
          /\ open' = [open EXCEPT ![sock[s].fd] = NoSocket]
          /\ UNCHANGED <<sock, registered, nfd>>
    /\ UNCHANGED <<lookup, timers, todo, batch, loop, stack>>

\* APE_socket_connect and ape_gethostbyname: the address is known or its
\* query fails at once, or c-ares will answer later.
APE_socket_connect(s) ==
    /\ "connect" \in Uses
    /\ Unused(s)
    /\ \/ /\ \E arg \in {{}, {"ended"}} :
                /\ arg = {"ended"} => "dns" \in Uses
                /\ stack' = <<Call("connecting", s, arg)>> \o stack
          /\ UNCHANGED <<sock, lookup>>
       \/ /\ "dns" \in Uses
          /\ sock' = [sock EXCEPT ![s].dns = TRUE]
          /\ lookup' = [lookup EXCEPT ![s] = "pending"]
          /\ UNCHANGED stack
    /\ UNCHANGED <<open, registered, nfd, timers, todo, batch, loop>>

UserShutdown(s) ==
    /\ MayClose(s)
    /\ APE_socket_shutdown(s, stack)
    /\ UNCHANGED <<todo, batch, loop>>

APE_socket_shutdown_now(s) ==
    /\ MayClose(s)
    /\ \/ sock[s].state \in {"PENDING", "PROGRESS"} /\ BeginClose(s, {}, stack)
       \/ sock[s].state = "ONLINE" /\ ApeShutdown(s, stack)
    /\ UNCHANGED <<todo, batch, loop>>

ape_socket_destroy(s) ==
    /\ "destroy" \in Uses
    /\ MayClose(s)
    /\ sock[s].state # "OFFLINE"
    /\ sock[s].state = "SHUTDOWN" => "destroylate" \in Uses
    /\ sock[s].proto = "UDP" /\ loop = "batch" => "closeserver" \in Uses
    /\ BeginClose(s, {}, stack)
    /\ UNCHANGED <<todo, batch, loop>>

APE_socket_shutdown_delay(s) ==
    /\ "delay" \in Uses
    /\ Refers(s)
    /\ sock[s].proto = "UDP" /\ (sock[s].state = "PENDING"
                                 \/ On("connected", s) \in Pending)
       => "impatient" \in Uses
    /\ ~sock[s].delayed
    /\ sock' = [sock EXCEPT ![s].delayed = TRUE]
    /\ Dispatch("delay", s)
    /\ UNCHANGED <<open, registered, nfd, lookup, todo, batch, loop, stack>>

\* APE_socket_write, unless all is written at once: the rest is queued, which
\* may exceed the maximum buffer size, or the write fails.
APE_socket_write(s) ==
    /\ "write" \in Uses
    /\ MayClose(s)
    /\ sock[s].state = "ONLINE" /\ sock[s].type = "CLIENT"
    /\ \/ /\ ~Busy(s)
          /\ sock' = [sock EXCEPT ![s].jobs = "data", ![s].blocked = TRUE]
          /\ UNCHANGED <<open, registered, nfd, lookup, timers, stack>>
       \/ ApeShutdown(s, stack)
    /\ UNCHANGED <<todo, batch, loop>>

-----------------------------------------------------------------------------
(* The library, when a callback or an inner call returns.                  *)

Frame1   == Head(stack)
Below    == Tail(stack)
At(at)   == stack # <<>> /\ Frame1.at = at

\* Callbacks after which nothing is left to do at their level.
CallbackReturn ==
    /\ \E at \in Callbacks \ {"on_disconnect"} : At(at)
    /\ stack' = Below
    /\ UNCHANGED <<sock, open, registered, nfd, lookup, timers, todo, batch,
                   loop>>

\* Mutant of EndClose: the structure is freed as soon as it is closed.
EndCloseFrees ==
    /\ At("on_disconnect")
    /\ LET s == Frame1.s IN
       /\ open' = [open EXCEPT ![sock[s].fd] = NoSocket]
       /\ registered' = registered \ {Owner(s)}
       /\ nfd' = nfd - 1
       /\ stack' = Below
       /\ Free(s, todo)
    /\ UNCHANGED <<lookup, batch, loop>>

\* Mutant of EndClose: the descriptor stays in the poll set.
EndCloseStaysPolled ==
    /\ At("on_disconnect")
    /\ LET s == Frame1.s IN
       /\ open' = [open EXCEPT ![sock[s].fd] = NoSocket]
       /\ nfd' = nfd - 1
       /\ stack' = Below
       /\ IF "free" \in Frame1.arg
          THEN Free(s, todo)
          ELSE Dispatch("free", s) /\ UNCHANGED <<sock, todo>>
    /\ UNCHANGED <<registered, lookup, batch, loop>>

\* The rest of ape_socket_close: sclose of the number, events_del; then the
\* release of the structure, now or in the next pass over the timers.
EndClose ==
    /\ At("on_disconnect")
    /\ LET s == Frame1.s IN
       /\ open' = [open EXCEPT ![sock[s].fd] = NoSocket]
       /\ registered' = registered \ {Owner(s)}
       /\ nfd' = nfd - 1
       /\ stack' = Below
       /\ IF "free" \in Frame1.arg
          THEN Free(s, todo)
          ELSE Dispatch("free", s) /\ UNCHANGED <<sock, todo>>
    /\ UNCHANGED <<lookup, batch, loop>>

\* ape_socket_connect_ready_to_connect: the query failed; bind() fails;
\* connect() fails; the connection is under way, or made if UDP.
ReadyToConnect ==
    /\ At("connecting")
    /\ LET s   == Frame1.s
           udp == sock[s].proto = "UDP"
       IN  \/ BeginClose(s, {}, Below)
           \/ /\ "ended" \notin Frame1.arg /\ "bindfail" \in Uses
              /\ stack' = Below
              /\ UNCHANGED <<sock, open, registered, nfd, lookup, timers>>
           \/ /\ "ended" \notin Frame1.arg /\ Owner(s) = s
              /\ sock' = [sock EXCEPT ![s].type = "CLIENT",
                                      ![s].state = IF udp THEN "ONLINE"
                                                          ELSE "PROGRESS"]
              /\ registered' = registered \union {s}
              /\ nfd' = nfd + 1
              /\ IF udp THEN Dispatch("connected", s) ELSE UNCHANGED timers
              /\ stack' = Below
              /\ UNCHANGED <<open, lookup>>
    /\ UNCHANGED <<todo, batch, loop>>

\* ape_socket_shutdown_delay_cb, after the shutdown.
DelayReturn ==
    /\ At("undelay")
    /\ sock' = [sock EXCEPT ![Frame1.s].delayed = FALSE]
    /\ stack' = Below
    /\ UNCHANGED <<open, registered, nfd, lookup, timers, todo, batch, loop>>

-----------------------------------------------------------------------------
(* The event loop, a socket's event.                                       *)

Idle(at) == loop = at /\ stack = <<>>

\* events_poll returns up to MaxBatch events.
Poll ==
    /\ Idle("poll")
    /\ \E n \in 0 .. MaxBatch : \E b \in [1 .. n -> registered] :
          /\ \A i, j \in 1 .. n : i # j => b[i] # b[j]
          /\ batch' = b
    /\ loop' = "batch"
    /\ UNCHANGED <<sock, open, registered, nfd, lookup, timers, todo, stack>>

\* The next event is for a server.
ServerEvent ==
    /\ Idle("batch") /\ batch # <<>>
    /\ Live(Head(batch)) /\ sock[Head(batch)].type = "SERVER"
    /\ stack' = <<Call(IF sock[Head(batch)].proto = "TCP" THEN "accept"
                                                          ELSE "recvfrom",
                       Head(batch), {})>>
    /\ batch' = Tail(batch)
    /\ UNCHANGED <<sock, open, registered, nfd, lookup, timers, todo, loop>>

\* The next event is for a client: a flag is reset before the read.
ClientEvent ==
    /\ Idle("batch") /\ batch # <<>>
    /\ Live(Head(batch)) /\ sock[Head(batch)].type = "CLIENT"
    /\ \E bits \in SUBSET {"readable", "writable"} :
          /\ sock' = IF "writable" \in bits
                     THEN [sock EXCEPT ![Head(batch)].blocked = FALSE]
                     ELSE sock
          /\ stack' = <<Call("client", Head(batch), bits)>>
    /\ batch' = Tail(batch)
    /\ UNCHANGED <<open, registered, nfd, lookup, timers, todo, loop>>

\* A c-ares descriptor is readable: ares_gethostbyname_cb.
DnsReply(s) ==
    /\ Idle("batch")
    /\ lookup[s] # "none"
    /\ lookup' = [lookup EXCEPT ![s] = "none"]
    /\ IF lookup[s] = "pending"
       THEN /\ sock' = [sock EXCEPT ![s].dns = FALSE]
            /\ \E arg \in {{}, {"ended"}} :
                  stack' = <<Call("connecting", s, arg)>>
       ELSE UNCHANGED <<sock, stack>>
    /\ UNCHANGED <<open, registered, nfd, timers, todo, batch, loop>>

\* The part of a client's event under EVENT_WRITE.
ThenWrite(s, bits) ==
    IF "writable" \in bits THEN <<Call("write", s, {})>> \o Below ELSE Below

\* Mutant of ape_socket_read: the state is not tested.
ape_socket_read_any ==
    /\ At("client") /\ sock[Frame1.s].proto = "TCP"
    /\ LET s == Frame1.s
           bits == Frame1.arg
       IN  IF "readable" \notin bits
           THEN stack' = ThenWrite(s, bits)
           ELSE \E data \in BOOLEAN, ended \in SUBSET {"ended"} :
                   stack' = (IF data THEN <<Call("on_read", s, {})>> ELSE <<>>)
                            \o <<Call("afterread", s, bits \union ended)>>
                            \o Below
    /\ UNCHANGED <<sock, open, registered, nfd, lookup, timers, todo, batch,
                   loop>>

\* ape_socket_read: nothing unless ONLINE; else some data, or none, and
\* perhaps the end of the stream or an error.
ape_socket_read ==
    /\ At("client") /\ sock[Frame1.s].proto = "TCP"
    /\ LET s == Frame1.s
           bits == Frame1.arg
       IN  IF "readable" \notin bits \/ sock[s].state # "ONLINE"
           THEN stack' = ThenWrite(s, bits)
           ELSE \E data \in BOOLEAN, ended \in SUBSET {"ended"} :
                   stack' = (IF data THEN <<Call("on_read", s, {})>> ELSE <<>>)
                            \o <<Call("afterread", s, bits \union ended)>>
                            \o Below
    /\ UNCHANGED <<sock, open, registered, nfd, lookup, timers, todo, batch,
                   loop>>

\* Mutant of AfterRead: a socket shutting down is destroyed too.
AfterReadUnchecked ==
    /\ At("afterread")
    /\ LET s == Frame1.s IN
       IF "ended" \notin Frame1.arg
       THEN /\ stack' = ThenWrite(s, Frame1.arg)
            /\ UNCHANGED <<sock, open, registered, nfd, lookup, timers>>
       ELSE \/ /\ sock[s].state = "OFFLINE"
               /\ stack' = Below
               /\ UNCHANGED <<sock, open, registered, nfd, lookup, timers>>
            \/ /\ sock[s].state # "OFFLINE"
               /\ BeginClose(s, {}, Below)
    /\ UNCHANGED <<todo, batch, loop>>

\* ape_socket_read, after on_read: the end of the stream destroys the socket
\* and ends the event, unless the application has shut it down.
AfterRead ==
    /\ At("afterread")
    /\ LET s == Frame1.s IN
       IF "ended" \notin Frame1.arg \/ sock[s].state = "SHUTDOWN"
       THEN /\ stack' = ThenWrite(s, Frame1.arg)
            /\ UNCHANGED <<sock, open, registered, nfd, lookup, timers>>
       ELSE \/ /\ sock[s].state = "OFFLINE"
               /\ stack' = Below
               /\ UNCHANGED <<sock, open, registered, nfd, lookup, timers>>
            \/ /\ sock[s].state # "OFFLINE"
               /\ BeginClose(s, {}, Below)
    /\ UNCHANGED <<todo, batch, loop>>

ClientReadUdp ==
    /\ At("client") /\ sock[Frame1.s].proto = "UDP"
    /\ LET s == Frame1.s IN
       stack' = (IF "readable" \in Frame1.arg
                 THEN <<Call("recvfrom", s, {})>> ELSE <<>>)
                \o ThenWrite(s, Frame1.arg)
    /\ UNCHANGED <<sock, open, registered, nfd, lookup, timers, todo, batch,
                   loop>>

\* Whose data or connection the descriptor number of `s' gives.
Foreign(s) == IF Owner(s) = s THEN {} ELSE {"foreign"}

\* ape_socket_read_udp: one datagram, whatever the state of the socket.
ape_socket_read_udp ==
    /\ At("recvfrom")
    /\ LET s == Frame1.s IN
       /\ Owner(s) \in registered
       /\ sock[Owner(s)].type = "CLIENT" \/ sock[Owner(s)].proto = "UDP"
       /\ stack' = <<Call("on_message", s, Foreign(s))>> \o stack
    /\ UNCHANGED <<sock, open, registered, nfd, lookup, timers, todo, batch,
                   loop>>

\* ape_socket_accept: one connection of the backlog.
ape_socket_accept(c) ==
    /\ At("accept")
    /\ LET s == Frame1.s IN
       /\ Owner(s) \in registered
       /\ sock[Owner(s)].type = "SERVER" /\ sock[Owner(s)].proto = "TCP"
       /\ sock[c].mem = "none" /\ FreeFds # {}
       /\ sock' = [sock EXCEPT ![c] = [Fresh("TCP") EXCEPT !.state = "ONLINE",
                                                           !.type = "CLIENT"]]
       /\ open' = [open EXCEPT ![LowestFd] = c]
       /\ registered' = registered \union {c}
       /\ nfd' = nfd + 1
       /\ stack' = <<Call("on_connect", s, Foreign(s))>> \o stack
    /\ UNCHANGED <<lookup, timers, todo, batch, loop>>

\* Nothing is left to accept or to receive.
WouldBlock ==
    /\ At("accept") \/ At("recvfrom")
    /\ stack' = Below
    /\ UNCHANGED <<sock, open, registered, nfd, lookup, timers, todo, batch,
                   loop>>

\* ape_socket_do_jobs, when there is a job, and on_drain when it is done.
ape_socket_do_jobs(s) ==
    \/ /\ sock' = [sock EXCEPT ![s].blocked = TRUE]
       /\ stack' = Below
       /\ UNCHANGED <<open, registered, nfd, lookup, timers>>
    \/ /\ sock[s].jobs = "data"
       /\ sock' = [sock EXCEPT ![s].jobs = "none"]
       /\ stack' = <<Call("on_drain", s, {})>> \o Below
       /\ UNCHANGED <<open, registered, nfd, lookup, timers>>
    \/ ApeShutdown(s, Below)  \* a write failed, or a shutdown was queued

\* getsockopt(SO_ERROR) of a connecting socket.
Connection(s) ==
    \/ BeginClose(s, {}, Below)
    \/ /\ sock' = [sock EXCEPT ![s].state = "ONLINE"]
       /\ stack' = <<Call("on_connected", s, {})>> \o Below
       /\ UNCHANGED <<open, registered, nfd, lookup, timers>>

ClientWrite ==
    /\ At("write")
    /\ LET s    == Frame1.s
           jobs == sock[s].state = "ONLINE" /\ ~sock[s].blocked
                   /\ sock[s].jobs # "none"
       IN  \/ jobs /\ ape_socket_do_jobs(s)
           \/ sock[s].state = "PROGRESS" /\ Connection(s)
           \/ /\ ~jobs /\ sock[s].state # "PROGRESS"
              /\ stack' = Below
              /\ UNCHANGED <<sock, open, registered, nfd, lookup, timers>>
    /\ UNCHANGED <<todo, batch, loop>>

-----------------------------------------------------------------------------
(* The event loop, the timers.                                             *)

BatchEnd ==
    /\ Idle("batch") /\ batch = <<>>
    /\ loop' = "timers"
    /\ todo' = timers /\ timers' = <<>>
    /\ UNCHANGED <<sock, open, registered, nfd, lookup, batch, stack>>

TimersEnd ==
    /\ Idle("timers") /\ todo = <<>>
    /\ loop' = "poll"
    /\ UNCHANGED <<sock, open, registered, nfd, lookup, timers, todo, batch,
                   stack>>

\* The pass comes to a timer "cb"; what it does to freed memory is not
\* described.
Fires(cb) ==
    /\ Idle("timers") /\ todo # <<>>
    /\ Head(todo).cb = cb /\ Live(Head(todo).s)

ape_socket_free ==
    /\ Fires("free")
    /\ Free(Head(todo).s, Tail(todo))
    /\ UNCHANGED <<open, registered, nfd, lookup, batch, loop, stack>>

_ape_socket_destroy ==
    /\ Fires("destroy")
    /\ LET s == Head(todo).s IN
       IF sock[s].state = "OFFLINE"
       THEN UNCHANGED <<sock, open, registered, nfd, lookup, timers, stack>>
       ELSE BeginClose(s, {"free"}, <<>>)
    /\ todo' = Tail(todo)
    /\ UNCHANGED <<batch, loop>>

\* ape_socket_connected as the callback of a timer: a UDP socket.
ape_socket_connected ==
    /\ Fires("connected")
    /\ stack' = <<Call("on_connected", Head(todo).s, {})>>
    /\ todo' = Tail(todo)
    /\ UNCHANGED <<sock, open, registered, nfd, lookup, timers, batch, loop>>

ape_socket_shutdown_delay_cb ==
    /\ Fires("delay")
    /\ LET s == Head(todo).s IN
       APE_socket_shutdown(s, <<Call("undelay", s, {})>>)
    /\ todo' = Tail(todo)
    /\ UNCHANGED <<batch, loop>>

\* The delay of a shutdown has not elapsed.
DelayNotDue ==
    /\ Fires("delay")
    /\ timers' = Append(timers, Head(todo))
    /\ todo' = Tail(todo)
    /\ UNCHANGED <<sock, open, registered, nfd, lookup, batch, loop, stack>>

-----------------------------------------------------------------------------
(* The system.                                                             *)

UserCall ==
    \E s \in Sockets :
        \/ \E proto \in {"TCP", "UDP"} : APE_socket_new(s, proto)
        \/ APE_socket_listen(s)
        \/ APE_socket_connect(s)
        \/ UserShutdown(s)
        \/ APE_socket_shutdown_now(s)
        \/ APE_socket_shutdown_delay(s)
        \/ ape_socket_destroy(s)
        \/ APE_socket_write(s)

Return == CallbackReturn \/ EndClose \/ ReadyToConnect \/ DelayReturn

Dispatching ==
    \/ Poll \/ ServerEvent \/ ClientEvent \/ BatchEnd
    \/ ape_socket_read \/ AfterRead \/ ClientReadUdp \/ ClientWrite
    \/ WouldBlock

Firing ==
    \/ ape_socket_free \/ _ape_socket_destroy \/ ape_socket_connected
    \/ ape_socket_shutdown_delay_cb \/ DelayNotDue \/ TimersEnd

Peer ==
    \/ ape_socket_read_udp
    \/ \E c \in Sockets : ape_socket_accept(c) \/ DnsReply(c)

Next == UserCall \/ Return \/ Dispatching \/ Firing \/ Peer

Spec == Init /\ [][Next]_vars

\* The thread runs on; callbacks return; peers do not send for ever within
\* one event; a delay elapses.
Fairness ==
    /\ WF_vars(Dispatching \/ Firing \/ Return)
    /\ SF_vars(Return)
    /\ SF_vars(WouldBlock)
    /\ \A s \in Sockets :
          SF_vars(ape_socket_shutdown_delay_cb /\ Head(todo).s = s)

FairSpec == Spec /\ Fairness

-----------------------------------------------------------------------------
(* Properties.                                                             *)

TypeOK ==
    /\ sock \in [Sockets -> Socket]
    /\ open \in [Fds -> Sockets \union {NoSocket}]
    /\ registered \in SUBSET Sockets
    /\ nfd \in Int
    /\ lookup \in [Sockets -> {"none", "pending", "invalidated"}]
    /\ timers \in Seq(Timer) /\ todo \in Seq(Timer)
    /\ batch \in Seq(Sockets)
    /\ loop \in {"poll", "batch", "timers"}
    /\ stack \in Seq(Frame)

Frames(at, s) == {i \in DOMAIN stack : stack[i].at = at /\ stack[i].s = s}

Count(cb, s) ==
    Cardinality({i \in DOMAIN timers : timers[i] = On(cb, s)})
    + Cardinality({i \in DOMAIN todo : todo[i] = On(cb, s)})

\* No timer points to a freed structure: ape_socket_free removes the delayed
\* shutdown, and nothing else scheduled for a socket comes after its release.
NoDanglingTimer == \A t \in Pending : Live(t.s)

\* No event of the batch being dispatched points to a freed structure: a
\* socket destroyed while others wait for their turn is released only after
\* the batch.
NoDanglingEvent == \A i \in DOMAIN batch : Live(batch[i])

\* No call in progress holds a freed structure: whatever the callback it is
\* suspended for has shut down, the caller may still use its argument.
NoDanglingCall ==
    \A i \in DOMAIN stack : stack[i].s # NoSocket => Live(stack[i].s)

\* A query of c-ares that will call back points to a live socket that waits
\* for it, and a socket that waits for an answer has such a query.
NoDanglingLookup ==
    \A s \in Sockets :
        lookup[s] = "pending"
            <=> Live(s) /\ sock[s].dns /\ sock[s].state # "OFFLINE"

\* No pointer to a freed structure is kept: not by a timer, not by a call in
\* progress whose callback ended the socket, not by a query of c-ares
\* (ape_socket_close, ape_socket_free).
NoDangling == NoDanglingTimer /\ NoDanglingCall /\ NoDanglingLookup

\* A socket that is shutting down or closed has exactly one way left to be
\* released, and one that is neither has none: never leaked, never released
\* twice, whichever of the peer, the application, an error and a delay ends
\* it, in whatever order.
ReleasedOnce ==
    \A s \in Sockets :
        Live(s) => Count("free", s) + Count("destroy", s)
                   + Cardinality(Frames("on_disconnect", s))
                   = IF sock[s].state \in {"SHUTDOWN", "OFFLINE"} THEN 1 ELSE 0

\* The application hears of the end of every socket exactly once, before the
\* structure is freed.
DisconnectOnce ==
    \A s \in Sockets :
        /\ sock[s].told <= 1
        /\ sock[s].mem = "freed" => sock[s].told = 1

\* A socket that ends, by whatever ways and in whatever order, has one release
\* left and is told of it once (ape_socket_close, ape_socket_destroy).
EndsOnce == ReleasedOnce /\ DisconnectOnce

\* Until it is closed, its on_disconnect included, a socket owns the
\* descriptor whose number it holds: what it reads, writes and closes is its
\* own, although numbers are reused at once.
OwnsDescriptor ==
    \A s \in Sockets :
        /\ Live(s)
        /\ sock[s].state # "OFFLINE" \/ Frames("on_disconnect", s) # {}
        => Owner(s) = s

\* After on_disconnect no other callback of the socket begins: events already
\* polled, timers and answers that come later are ignored.
QuietAfterDisconnect ==
    [][\A s \in Sockets :
          stack' # stack /\ Len(stack') >= Len(stack) /\ Head(stack').s = s
              /\ Head(stack').at \in Callbacks \ {"on_disconnect"}
          => sock[s].told = 0]_vars

\* A connection is accepted, and a datagram received, only from the
\* descriptor of the socket whose callback gets it.
OwnInput == \A i \in DOMAIN stack : "foreign" \notin stack[i].arg

\* A socket that is shutting down or closed is released in the end.
EventuallyReleased ==
    \A s \in Sockets :
        Live(s) /\ sock[s].state \in {"SHUTDOWN", "OFFLINE"}
        ~> sock[s].mem = "freed"

\* A delayed shutdown is carried out: the socket is closed, closing, or has
\* a shutdown behind the data it has queued.
DelayedShutdown ==
    \A s \in Sockets :
        Live(s) /\ sock[s].delayed
        ~> \/ sock[s].mem = "freed" \/ sock[s].state = "SHUTDOWN"
           \/ sock[s].jobs = "shutdown"
=============================================================================
