--------------------------- MODULE SocketsProofs ----------------------------
(***************************************************************************)
(* Proofs about Sockets, for any number of sockets, descriptors and events *)
(* and any nesting of callbacks.                                           *)
(*                                                                         *)
(* The argument is layered: the types, whatever the application does; what *)
(* is said of a socket by its state, the timers, the lookups and the calls *)
(* in progress, if the application frees nothing in use (Safe); who owns a *)
(* descriptor, if no listen() fails (Own); who gets input, if no server is *)
(* closed while it loops on accept() or recvfrom() (Quiet).                *)
(*                                                                         *)
(* Sequences are reasoned about as the sets of their items and what is     *)
(* unique in them; the first lemmas say how a push, a pop and a removal    *)
(* change these.                                                           *)
(***************************************************************************)
EXTENDS Sockets, FiniteSetTheorems, SequenceTheorems, WellFoundedInduction,
        TLAPS

\* The members of a sequence.
Items(q) == {q[i] : i \in DOMAIN q}
\* It has none twice.
Distinct(q) == \A i, j \in DOMAIN q : q[i] = q[j] => i = j

\* What the application must not do for the structures to be safe, for a
\* descriptor to be a socket's own, and for its input to be.
Safe  == "impatient" \notin Uses /\ "destroylate" \notin Uses
\* Moreover no listen fails.
Own   == Safe /\ "listenfail" \notin Uses
\* Moreover no callback closes its server.
Quiet == Own /\ "closeserver" \notin Uses

\* A frame that is the outermost call of an event or of a timer.
Outermost(c) == c.at = "undelay" \/ "free" \in c.arg

\* The shape of the stack: a connection is only ever begun by the innermost
\* call; a socket is closed by one call at most.
Stacked(q) ==
    /\ \A i \in DOMAIN q : Outermost(q[i]) => i = Len(q)
    /\ \A i \in DOMAIN q : q[i].at = "connecting" => i = 1
    /\ \A i, j \in DOMAIN q :
          q[i].at = "on_disconnect" /\ q[j].at = "on_disconnect"
          /\ q[i].s = q[j].s => i = j

\* Types are inductive once every call but the first one has a socket.
Args  == SUBSET {"readable", "writable", "ended", "free", "foreign"}
Calls == {c \in Frame : c.at # "main" => c.s \in Sockets}

\* The types of the sockets and of the stack.
CoreTyped ==
    /\ sock \in [Sockets -> Socket]
    /\ open \in [Fds -> Sockets \union {NoSocket}]
    /\ registered \in SUBSET Sockets
    /\ nfd \in Int
    /\ lookup \in [Sockets -> {"none", "pending", "invalidated"}]
    /\ timers \in Seq(Timer)
    /\ stack \in Seq(Calls)

\* All types.
Typed ==
    /\ CoreTyped
    /\ todo \in Seq(Timer) /\ batch \in Seq(Sockets)
    /\ loop \in {"poll", "batch", "timers"}

\* on_disconnect of that socket is in progress.
Closing(s) == \E c \in Items(stack) : c.at = "on_disconnect" /\ c.s = s

\* Nothing is pending twice; the events of a poll are dispatched before the
\* timers, and a pass over these ends before the next poll.
Shape ==
    /\ Distinct(timers) /\ Distinct(todo)
    /\ Items(timers) \intersect Items(todo) = {}
    /\ Stacked(stack)
    /\ loop # "batch" => batch = <<>>
    /\ loop # "timers" => Items(todo) = {}

\* What a timer that is pending knows of its socket.
DueInv(s) ==
    /\ \A cb \in {"free", "destroy", "connected", "delay"} :
          On(cb, s) \in Pending => Live(s)
    /\ On("free", s) \in Pending => sock[s].state = "OFFLINE" /\ ~Closing(s)
    /\ On("destroy", s) \in Pending => sock[s].state = "SHUTDOWN"
    /\ On("connected", s) \in Pending =>
          /\ sock[s].proto = "UDP" /\ sock[s].type = "CLIENT"
          /\ sock[s].state = "ONLINE" /\ sock[s].jobs = "none"
          /\ ~sock[s].delayed
    /\ On("delay", s) \in Pending => sock[s].delayed

\* What a call in progress knows of its socket.
CallInv(c) ==
    /\ Live(c.s)
    /\ c.at = "connecting" => sock[c.s].state = "PENDING" /\ ~sock[c.s].dns
    /\ c.at = "on_disconnect" => sock[c.s].state = "OFFLINE"
    /\ c.at = "afterread" => sock[c.s].proto = "TCP"
    /\ c.at = "undelay" =>
          sock[c.s].delayed /\ On("delay", c.s) \notin Pending
    /\ "free" \in c.arg => c.at = "on_disconnect" /\ loop = "timers"

\* What the state of a structure says.
StateInv(s) ==
    /\ sock[s].told = IF sock[s].mem = "freed" \/ sock[s].state = "OFFLINE"
                      THEN 1 ELSE 0
    /\ sock[s].dns => sock[s].state \in {"PENDING", "OFFLINE"}
    /\ sock[s].state = "PENDING" => sock[s].jobs = "none"
    /\ sock[s].proto = "UDP" /\ sock[s].delayed => sock[s].state # "PENDING"
    /\ ~Live(s) => sock[s].state = "PENDING" /\ ~sock[s].dns
    /\ Live(s) /\ sock[s].state = "SHUTDOWN" => On("destroy", s) \in Pending
    /\ Live(s) /\ sock[s].state = "OFFLINE"
          => On("free", s) \in Pending \/ Closing(s)
    /\ s \in Items(batch) => Live(s)
    /\ s \in registered => /\ Live(s) /\ Owner(s) = s
                           /\ sock[s].state # "PENDING"
                           /\ sock[s].state = "OFFLINE" => Closing(s)
    /\ lookup[s] = "pending"
          <=> Live(s) /\ sock[s].dns /\ sock[s].state # "OFFLINE"

\* What is true of each socket.
SocketInv(s) ==
    /\ DueInv(s) /\ StateInv(s)
    /\ \A c \in Items(stack) : c.s = s => CallInv(c)

\* The inductive invariant of the safety theorems.
SafeInv == Typed /\ Shape /\ \A s \in Sockets : SocketInv(s)

\* What loops on a descriptor, or is about to, is not closed.
Served(s) ==
    /\ sock[s].type # "UNKNOWN"
    /\ sock[s].type = "SERVER" \/ sock[s].proto = "UDP"
       => sock[s].state # "OFFLINE"

\* A socket in a role is of the right kind.
RoleInv(s) ==
    /\ sock[s].state = "PROGRESS" => sock[s].proto = "TCP"
    /\ sock[s].type = "SERVER" => sock[s].state \in {"ONLINE", "OFFLINE"}
    /\ sock[s].state = "PENDING" => sock[s].type = "UNKNOWN"

\* A call in progress is for a socket that is served.
ServedCall(c) ==
    /\ c.at \in {"accept", "recvfrom", "client", "afterread", "write"} =>
          loop = "batch" /\ Served(c.s)
    /\ c.at \in {"client", "afterread", "write"} => sock[c.s].type = "CLIENT"
    /\ c.at = "accept" => sock[c.s].type = "SERVER"
    /\ c.at = "recvfrom" =>
          sock[c.s].type = "SERVER" \/ sock[c.s].proto = "UDP"

\* The inductive invariant behind QuietAfterDisconnect.
QuietInv ==
    /\ SafeInv /\ OwnsDescriptor /\ OwnInput
    /\ \A s \in Sockets : RoleInv(s)
    /\ \A s \in registered : sock[s].type # "UNKNOWN"
    /\ \A s \in Items(batch) : Served(s)
    /\ \A c \in Items(stack) : ServedCall(c)

-----------------------------------------------------------------------------
(* Sequences.                                                              *)

\* The empty sequence.
LEMMA ItemsEmpty == Items(<<>>) = {} /\ Distinct(<<>>) /\ Stacked(<<>>)
  BY DEF Items, Distinct, Stacked

\* The members are of the type of the sequence.
LEMMA ItemsTyped ==
    ASSUME NEW S, NEW q \in Seq(S)
    PROVE  Items(q) \in SUBSET S
  BY DEF Items

\* A push: timer_dispatch_async, a call.
LEMMA ItemsPush ==
    ASSUME NEW S, NEW q \in Seq(S), NEW x \in S
    PROVE  /\ <<x>> \o q \in Seq(S) /\ <<x>> \o q # <<>>
           /\ Len(<<x>> \o q) = Len(q) + 1
           /\ Head(<<x>> \o q) = x
           /\ Tail(<<x>> \o q) = q
           /\ Items(<<x>> \o q) = {x} \union Items(q)
           /\ Distinct(q) /\ x \notin Items(q) => Distinct(<<x>> \o q)
<1> DEFINE p == <<x>> \o q
<1>1. /\ p \in Seq(S) /\ Len(p) = Len(q) + 1 /\ p[1] = x
      /\ \A i \in 1 .. Len(q) : p[i + 1] = q[i]
      /\ \A i \in 2 .. Len(p) : p[i] = q[i - 1]
      /\ DOMAIN p = 1 .. Len(q) + 1 /\ DOMAIN q = 1 .. Len(q)
      /\ Len(q) \in Nat
    OBVIOUS
<1>2. p # <<>> /\ Head(p) = x /\ Tail(p) = q
    OBVIOUS
<1> HIDE DEF p
<1>3. Items(p) = {x} \union Items(q)
  <2>1. ASSUME NEW y \in Items(p) PROVE y \in {x} \union Items(q)
    <3>1. PICK i \in 1 .. Len(q) + 1 : y = p[i]
        BY <1>1 DEF Items
    <3>2. i # 1 => i - 1 \in 1 .. Len(q) /\ p[i] = q[i - 1]
        BY <1>1
    <3> QED BY <1>1, <3>1, <3>2 DEF Items
  <2>2. ASSUME NEW y \in Items(q) PROVE y \in Items(p)
    <3>1. PICK i \in 1 .. Len(q) : y = q[i]
        BY <1>1, <2>2 DEF Items
    <3>2. i + 1 \in DOMAIN p /\ p[i + 1] = y
        BY <1>1, <3>1
    <3> QED BY <3>2 DEF Items
  <2>3. x \in Items(p)
    <3>1. 1 \in DOMAIN p
        BY <1>1
    <3> QED BY <1>1, <3>1 DEF Items
  <2> QED BY <2>1, <2>2, <2>3
<1>4. ASSUME Distinct(q), x \notin Items(q) PROVE Distinct(p)
  <2> SUFFICES ASSUME NEW i \in 1 .. Len(q) + 1, NEW j \in 1 .. Len(q) + 1,
                      p[i] = p[j]
               PROVE  i = j
      BY <1>1 DEF Distinct
  <2>1. \A k \in 2 .. Len(q) + 1 : k - 1 \in 1 .. Len(q) /\ p[k] = q[k - 1]
                                  /\ p[k] # x
      BY <1>1, <1>4 DEF Items
  <2>2. CASE i = 1 \/ j = 1
      BY <1>1, <2>1, <2>2
  <2>3. CASE i # 1 /\ j # 1
    <3>1. /\ i - 1 \in DOMAIN q /\ j - 1 \in DOMAIN q /\ q[i - 1] = q[j - 1]
        BY <1>1, <2>1, <2>3
    <3>2. i - 1 = j - 1
        BY <1>4, <3>1 DEF Distinct
    <3> QED BY <3>2
  <2> QED BY <2>2, <2>3
<1> QED BY <1>1, <1>2, <1>3, <1>4 DEF p

\* A pop: a timer is visited, an event taken, a call returns.
LEMMA ItemsPop ==
    ASSUME NEW S, NEW q \in Seq(S), q # <<>>
    PROVE  /\ Head(q) \in S /\ Tail(q) \in Seq(S)
           /\ q = <<Head(q)>> \o Tail(q)
           /\ Len(Tail(q)) = Len(q) - 1
           /\ Items(q) = {Head(q)} \union Items(Tail(q))
           /\ Distinct(q) =>
                 Distinct(Tail(q)) /\ Head(q) \notin Items(Tail(q))
<1>1. /\ Head(q) \in S /\ Tail(q) \in Seq(S) /\ q = <<Head(q)>> \o Tail(q)
      /\ Len(Tail(q)) = Len(q) - 1
    OBVIOUS
<1>2. Items(q) = {Head(q)} \union Items(Tail(q))
    BY <1>1, ItemsPush
<1>3. /\ Len(Tail(q)) = Len(q) - 1 /\ q[1] = Head(q) /\ Len(q) \in Nat \ {0}
      /\ DOMAIN q = 1 .. Len(q) /\ DOMAIN Tail(q) = 1 .. Len(q) - 1
      /\ \A i \in 1 .. Len(q) - 1 : Tail(q)[i] = q[i + 1]
    OBVIOUS
<1>4. ASSUME Distinct(q)
      PROVE  Distinct(Tail(q)) /\ Head(q) \notin Items(Tail(q))
  <2>1. ASSUME NEW i \in 1 .. Len(q) - 1, NEW j \in 1 .. Len(q) - 1,
               Tail(q)[i] = Tail(q)[j]
        PROVE  i = j
    <3>1. q[i + 1] = q[j + 1] /\ i + 1 \in 1 .. Len(q) /\ j + 1 \in 1 .. Len(q)
        BY <1>3, <2>1
    <3> QED BY <1>3, <1>4, <3>1 DEF Distinct
  <2>2. ASSUME NEW i \in 1 .. Len(q) - 1, Tail(q)[i] = Head(q) PROVE FALSE
    <3>1. q[i + 1] = q[1] /\ i + 1 \in 1 .. Len(q) /\ 1 \in 1 .. Len(q)
        BY <1>3, <2>2
    <3> QED BY <1>3, <1>4, <3>1 DEF Distinct
  <2> QED BY <1>3, <2>1, <2>2 DEF Distinct, Items
<1> QED BY <1>1, <1>2, <1>4

\* One more at the end.
LEMMA ItemsAppend ==
    ASSUME NEW S, NEW q \in Seq(S), NEW x \in S
    PROVE  /\ Append(q, x) \in Seq(S)
           /\ Items(Append(q, x)) = Items(q) \union {x}
           /\ Distinct(q) /\ x \notin Items(q) => Distinct(Append(q, x))
<1> DEFINE p == Append(q, x)
<1>1. /\ p \in Seq(S) /\ Len(p) = Len(q) + 1 /\ p[Len(q) + 1] = x
      /\ \A i \in 1 .. Len(q) : p[i] = q[i]
      /\ DOMAIN p = 1 .. Len(q) + 1 /\ DOMAIN q = 1 .. Len(q)
      /\ Len(q) \in Nat
    OBVIOUS
<1> HIDE DEF p
<1>2. Items(p) = Items(q) \union {x}
  <2>1. ASSUME NEW y \in Items(p) PROVE y \in {x} \union Items(q)
    <3>1. PICK i \in 1 .. Len(q) + 1 : y = p[i]
        BY <1>1, <2>1 DEF Items
    <3> QED BY <1>1, <3>1 DEF Items
  <2>2. Items(q) \subseteq Items(p)
      BY <1>1 DEF Items
  <2>3. x \in Items(p)
    <3>1. Len(q) + 1 \in DOMAIN p
        BY <1>1
    <3> QED BY <1>1, <3>1 DEF Items
  <2> QED BY <2>1, <2>2, <2>3
<1>3. Distinct(q) /\ x \notin Items(q) => Distinct(p)
    BY <1>1 DEF Distinct, Items
<1> QED BY <1>1, <1>2, <1>3 DEF p

\* SubSeq(q, 1, k - 1) \o SubSeq(q, k + 1, Len(q)): the k-th item is removed.
LEMMA RemoveTyped ==
    ASSUME NEW S, NEW q \in Seq(S), NEW k \in DOMAIN q
    PROVE  LET p == SubSeq(q, 1, k - 1) \o SubSeq(q, k + 1, Len(q))
           IN  /\ p \in Seq(S) /\ Len(p) = Len(q) - 1
               /\ \A i \in 1 .. Len(q) - 1 :
                     p[i] = q[IF i < k THEN i ELSE i + 1]
<1> DEFINE a == SubSeq(q, 1, k - 1)
           b == SubSeq(q, k + 1, Len(q))
<1>1. Len(q) \in Nat /\ k \in 1 .. Len(q) /\ DOMAIN q = 1 .. Len(q)
    OBVIOUS
<1>2. \A i \in 1 .. Len(q) : q[i] \in S
    OBVIOUS
<1>3. /\ a \in Seq(S) /\ Len(a) = k - 1
      /\ \A i \in 1 .. k - 1 : a[i] = q[i]
  <2>1. 1 \in Int /\ k - 1 \in Int /\ \A i \in 1 .. k - 1 : q[i] \in S
      BY <1>1, <1>2
  <2>2. /\ a \in Seq(S) /\ Len(a) = IF 1 <= k - 1 THEN (k - 1) - 1 + 1 ELSE 0
        /\ \A i \in 1 .. (k - 1) - 1 + 1 : a[i] = q[1 + i - 1]
      BY <2>1, <1>1
  <2> QED BY <1>1, <2>2
<1>4. /\ b \in Seq(S) /\ Len(b) = Len(q) - k
      /\ \A i \in 1 .. Len(q) - k : b[i] = q[k + i]
  <2>1. k + 1 \in Int /\ Len(q) \in Int /\ \A i \in k + 1 .. Len(q) : q[i] \in S
      BY <1>1, <1>2
  <2>2. /\ b \in Seq(S)
        /\ Len(b) = IF k + 1 <= Len(q) THEN Len(q) - (k + 1) + 1 ELSE 0
        /\ \A i \in 1 .. Len(q) - (k + 1) + 1 : b[i] = q[k + 1 + i - 1]
      BY <2>1, <1>1
  <2> QED BY <1>1, <2>2
<1> HIDE DEF a, b
<1>5. /\ a \o b \in Seq(S) /\ Len(a \o b) = Len(q) - 1
      /\ \A i \in 1 .. Len(q) - 1 :
            (a \o b)[i] = IF i <= k - 1 THEN a[i] ELSE b[i - (k - 1)]
  <2>1. /\ a \o b \in Seq(S) /\ Len(a \o b) = Len(a) + Len(b)
        /\ \A i \in 1 .. Len(a) + Len(b) :
              (a \o b)[i] = IF i <= Len(a) THEN a[i] ELSE b[i - Len(a)]
      BY <1>3, <1>4, ConcatProperties, Zenon
  <2>2. Len(a) = k - 1 /\ Len(a) + Len(b) = Len(q) - 1
      BY <1>1, <1>3, <1>4
  <2> HIDE DEF a, b
  <2> QED BY <2>1, <2>2
<1>6. \A i \in 1 .. Len(q) - 1 : (a \o b)[i] = q[IF i < k THEN i ELSE i + 1]
  <2> TAKE i \in 1 .. Len(q) - 1
  <2>1. CASE i < k
      BY <1>1, <1>3, <1>5, <2>1
  <2>2. CASE ~(i < k)
    <3>1. i - (k - 1) \in 1 .. Len(q) - k /\ k + (i - (k - 1)) = i + 1
        BY <1>1, <2>2
    <3> QED BY <1>1, <1>4, <1>5, <2>2, <3>1
  <2> QED BY <2>1, <2>2
<1> QED BY <1>5, <1>6 DEF a, b

\* What APE_timer_destroy leaves of the timers.
LEMMA WithoutTyped ==
    ASSUME NEW q \in Seq(Timer), NEW s \in Sockets
    PROVE  Without(s, q) \in Seq(Timer)
<1> DEFINE its == {i \in DOMAIN q : q[i] = On("delay", s)}
           k == CHOOSE j \in its : TRUE
<1>1. its # {} => k \in DOMAIN q
    OBVIOUS
<1> QED BY <1>1, RemoveTyped DEF Without

\* One taken out.
LEMMA ItemsWithout ==
    ASSUME NEW q \in Seq(Timer), NEW s \in Sockets, Distinct(q),
           On("delay", s) \in Items(q) => sock[s].delayed
    PROVE  /\ Items(Without(s, q)) = Items(q) \ {On("delay", s)}
           /\ Distinct(Without(s, q))
<1> DEFINE its == {i \in DOMAIN q : q[i] = On("delay", s)}
           k == CHOOSE j \in its : TRUE
           p == SubSeq(q, 1, k - 1) \o SubSeq(q, k + 1, Len(q))
<1>1. CASE ~(sock[s].delayed /\ its # {})
  <2>1. Without(s, q) = q
      BY <1>1 DEF Without
  <2>2. On("delay", s) \notin Items(q)
      BY <1>1 DEF Items
  <2> QED BY <2>1, <2>2
<1>2. CASE sock[s].delayed /\ its # {}
  <2>1. Without(s, q) = p
      BY <1>2 DEF Without
  <2>2. k \in DOMAIN q /\ q[k] = On("delay", s)
      BY <1>2
  <2>3. /\ p \in Seq(Timer) /\ Len(p) = Len(q) - 1
        /\ \A i \in 1 .. Len(q) - 1 : p[i] = q[IF i < k THEN i ELSE i + 1]
      BY <2>2, RemoveTyped
  <2> HIDE DEF p, k, its
  <2>4. /\ DOMAIN p = 1 .. Len(q) - 1 /\ DOMAIN q = 1 .. Len(q)
        /\ Len(q) \in Nat /\ k \in 1 .. Len(q)
      BY <2>2, <2>3
  <2>5. ASSUME NEW y \in Items(p) PROVE y \in Items(q) \ {On("delay", s)}
    <3>1. PICK i \in 1 .. Len(q) - 1 : y = p[i]
        BY <2>4, <2>5 DEF Items
    <3>2. PICK j \in 1 .. Len(q) : j # k /\ y = q[j]
      <4>1. CASE i < k
          BY <2>3, <2>4, <3>1, <4>1
      <4>2. CASE ~(i < k)
          BY <2>3, <2>4, <3>1, <4>2
      <4> QED BY <4>1, <4>2
    <3> QED BY <2>2, <2>4, <3>2 DEF Items, Distinct
  <2>6. ASSUME NEW y \in Items(q) \ {On("delay", s)} PROVE y \in Items(p)
    <3>1. PICK j \in 1 .. Len(q) : y = q[j]
        BY <2>4, <2>6 DEF Items
    <3>2. CASE j < k
      <4>1. j \in 1 .. Len(q) - 1 /\ p[j] = y
          BY <2>3, <2>4, <3>1, <3>2
      <4> QED BY <2>4, <4>1 DEF Items
    <3>3. CASE j > k
      <4>1. j - 1 \in 1 .. Len(q) - 1 /\ p[j - 1] = y
          BY <2>3, <2>4, <3>1, <3>3
      <4> QED BY <2>4, <4>1 DEF Items
    <3> QED BY <2>2, <2>4, <2>6, <3>1, <3>2, <3>3
  <2>7. Distinct(p)
    <3> SUFFICES ASSUME NEW i \in 1 .. Len(q) - 1, NEW j \in 1 .. Len(q) - 1,
                        p[i] = p[j]
                 PROVE  i = j
        BY <2>4 DEF Distinct
    <3> DEFINE at(n) == IF n < k THEN n ELSE n + 1
    <3>1. at(i) \in DOMAIN q /\ at(j) \in DOMAIN q /\ q[at(i)] = q[at(j)]
        BY <2>3, <2>4
    <3>2. at(i) = at(j)
        BY <3>1 DEF Distinct
    <3> QED BY <2>4, <3>2
  <2> QED BY <2>1, <2>5, <2>6, <2>7
<1> QED BY <1>1, <1>2

\* The shape of the stack survives a push, but of what is begun while a
\* connection is, and a pop.
LEMMA StackPush ==
    ASSUME NEW S, NEW q \in Seq(S), NEW c \in S, Stacked(q),
           Outermost(c) => q = <<>>,
           \A d \in Items(q) : d.at # "connecting",
           c.at = "on_disconnect" =>
              \A d \in Items(q) : ~(d.at = "on_disconnect" /\ d.s = c.s)
    PROVE  Stacked(<<c>> \o q)
<1> DEFINE p == <<c>> \o q
<1>1. /\ Len(p) = Len(q) + 1 /\ p[1] = c
      /\ \A i \in 2 .. Len(p) : p[i] = q[i - 1]
      /\ DOMAIN p = 1 .. Len(q) + 1 /\ DOMAIN q = 1 .. Len(q)
      /\ Len(q) \in Nat
    OBVIOUS
<1> HIDE DEF p
<1>2. \A i \in 2 .. Len(p) : /\ i - 1 \in DOMAIN q /\ p[i] = q[i - 1]
                             /\ p[i] \in Items(q)
    BY <1>1 DEF Items
<1>3. ASSUME NEW i \in DOMAIN p, Outermost(p[i]) PROVE i = Len(p)
  <2>1. CASE i = 1
    <3>1. q = <<>>
        BY <1>1, <1>3, <2>1
    <3> QED BY <1>1, <2>1, <3>1
  <2>2. CASE i # 1
    <3>1. i \in 2 .. Len(p)
        BY <1>1, <2>2
    <3>2. i - 1 = Len(q)
        BY <1>2, <1>3, <3>1 DEF Stacked
    <3> QED BY <1>1, <3>2
  <2> QED BY <2>1, <2>2
<1>4. ASSUME NEW i \in DOMAIN p, p[i].at = "connecting" PROVE i = 1
    BY <1>1, <1>2, <1>4
<1>5. ASSUME NEW i \in DOMAIN p, NEW j \in DOMAIN p,
             p[i].at = "on_disconnect", p[j].at = "on_disconnect",
             p[i].s = p[j].s
      PROVE  i = j
  <2>1. CASE i = 1 \/ j = 1
      BY <1>1, <1>2, <1>5, <2>1
  <2>2. CASE i # 1 /\ j # 1
    <3>1. i \in 2 .. Len(p) /\ j \in 2 .. Len(p)
        BY <1>1, <2>2
    <3>2. i - 1 = j - 1
        BY <1>2, <1>5, <3>1 DEF Stacked
    <3> QED BY <1>1, <3>2
  <2> QED BY <2>1, <2>2
<1> QED BY <1>3, <1>4, <1>5 DEF Stacked, p

\* A call returns.
LEMMA StackPop ==
    ASSUME NEW S, NEW q \in Seq(S), q # <<>>, Stacked(q)
    PROVE  /\ Stacked(Tail(q))
           /\ \A d \in Items(Tail(q)) : d.at # "connecting"
           /\ Outermost(Head(q)) => Tail(q) = <<>>
           /\ Head(q).at = "on_disconnect" =>
                 \A d \in Items(Tail(q)) :
                    ~(d.at = "on_disconnect" /\ d.s = Head(q).s)
<1> DEFINE p == Tail(q)
<1>1. /\ Len(p) = Len(q) - 1 /\ q[1] = Head(q) /\ Len(q) \in Nat \ {0}
      /\ DOMAIN q = 1 .. Len(q) /\ DOMAIN p = 1 .. Len(q) - 1
      /\ \A i \in 1 .. Len(q) - 1 : i + 1 \in DOMAIN q /\ p[i] = q[i + 1]
      /\ p \in Seq(S)
    OBVIOUS
<1>2. 1 \in DOMAIN q /\ \A i \in 1 .. Len(q) - 1 : i + 1 # 1
    BY <1>1
<1> HIDE DEF p
<1>3. Stacked(p)
  <2>1. ASSUME NEW i \in DOMAIN p, Outermost(p[i]) PROVE i = Len(p)
    <3>1. i + 1 = Len(q)
        BY <1>1, <2>1 DEF Stacked
    <3> QED BY <1>1, <3>1
  <2>2. ASSUME NEW i \in DOMAIN p, p[i].at = "connecting" PROVE i = 1
    <3>1. i + 1 = 1
        BY <1>1, <2>2 DEF Stacked
    <3> QED BY <1>1, <3>1
  <2>3. ASSUME NEW i \in DOMAIN p, NEW j \in DOMAIN p,
               p[i].at = "on_disconnect", p[j].at = "on_disconnect",
               p[i].s = p[j].s
        PROVE  i = j
    <3>1. i + 1 = j + 1
        BY SMTT(30), <1>1, <2>3 DEF Stacked
    <3> QED BY <1>1, <3>1
  <2> QED BY <2>1, <2>2, <2>3 DEF Stacked
<1>4. \A d \in Items(p) : d.at # "connecting"
    BY SMTT(30), <1>1, <1>2 DEF Stacked, Items
<1>5. Outermost(Head(q)) => p = <<>>
  <2>1. Outermost(Head(q)) => Len(q) = 1
      BY <1>1, <1>2 DEF Stacked
  <2> QED BY <1>1, <2>1
<1>6. Head(q).at = "on_disconnect" =>
         \A d \in Items(p) : ~(d.at = "on_disconnect" /\ d.s = Head(q).s)
    BY SMTT(30), <1>1, <1>2 DEF Stacked, Items
<1> QED BY <1>3, <1>4, <1>5, <1>6 DEF p

\* open() and socket() return the lowest descriptor that is free.
LEMMA LowestFree ==
    ASSUME FreeFds # {}
    PROVE  LowestFd \in Fds /\ open[LowestFd] = NoSocket
<1>1. FreeFds \subseteq Nat
    BY SocketsAssumption DEF SocketsAssumption, FreeFds, Fds
<1>2. PICK f \in FreeFds : \A g \in FreeFds : ~(<<g, f>> \in OpToRel(<, Nat))
    BY <1>1, WFMin, NatLessThanWellFounded
<1>3. \A g \in FreeFds : f <= g
  <2> TAKE g \in FreeFds
  <2>1. f \in Nat /\ g \in Nat
      BY <1>1
  <2>2. g < f => <<g, f>> \in OpToRel(<, Nat)
      BY <2>1, Zenon DEF OpToRel
  <2>3. ~(g < f)
      BY <1>2, <2>2, Zenon
  <2> QED BY <2>1, <2>3
<1>4. LowestFd \in FreeFds
    BY <1>3 DEF LowestFd
<1> QED BY <1>4 DEF FreeFds

-----------------------------------------------------------------------------
(* Types, whatever the application does.                                   *)

\* The types include the type invariant.
LEMMA TypedTypeOK == Typed => TypeOK
<1>1. Calls \subseteq Frame
    BY DEF Calls
<1>2. stack \in Seq(Calls) => stack \in Seq(Frame)
    BY <1>1
<1> QED BY <1>2 DEF Typed, CoreTyped, TypeOK

\* The types, at the start.
LEMMA TypedInit == Init => Typed
<1> SUFFICES ASSUME Init PROVE Typed
    OBVIOUS
<1> USE DEF Init
<1>1. Blank \in Socket
    BY DEF Blank, Socket, NoFd
<1>2. Call("main", NoSocket, {}) \in Calls
    BY DEF Call, Calls, Frame, Callbacks
<1>3. stack \in Seq(Calls)
    BY <1>2
<1>4. nfd \in Int /\ registered \in SUBSET Sockets /\ timers \in Seq(Timer)
      /\ todo \in Seq(Timer) /\ batch \in Seq(Sockets)
    OBVIOUS
<1> QED BY <1>1, <1>3, <1>4 DEF Typed, CoreTyped

\* A callback is called.
LEMMA CallTyped ==
    ASSUME NEW at \in Callbacks \union Suspended, NEW s \in Sockets,
           NEW arg \in Args
    PROVE  Call(at, s, arg) \in Calls
  BY DEF Call, Calls, Frame, Args

\* The innermost call, when there is one.
LEMMA FrameTyped ==
    ASSUME Typed, stack # <<>>
    PROVE  /\ Below \in Seq(Calls)
           /\ Frame1 \in Calls
           /\ Frame1.at \in Callbacks \union Suspended
           /\ Frame1.at # "main" => Frame1.s \in Sockets
           /\ Frame1.arg \in Args
<1>1. stack \in Seq(Calls)
    BY DEF Typed, CoreTyped
<1>2. Head(stack) \in Calls /\ Tail(stack) \in Seq(Calls)
    BY <1>1
<1> QED BY <1>2 DEF Below, Frame1, Calls, Frame, Args

\* What is pushed is a call.
LEMMA PushTyped ==
    ASSUME NEW at \in Callbacks \union Suspended, NEW s \in Sockets,
           NEW arg \in Args, NEW rest \in Seq(Calls)
    PROVE  <<Call(at, s, arg)>> \o rest \in Seq(Calls)
  BY CallTyped, ItemsPush

\* An event is dispatched.
LEMMA DispatchTyped ==
    ASSUME timers \in Seq(Timer),
           NEW cb \in {"free", "destroy", "connected", "delay"},
           NEW s \in Sockets, Dispatch(cb, s)
    PROVE  timers' \in Seq(Timer)
<1>1. On(cb, s) \in Timer
    BY DEF On, Timer
<1> QED BY <1>1, ItemsPush DEF Dispatch

\* A field is assigned.
LEMMA SocketTyped ==
    ASSUME NEW r \in Socket
    PROVE  /\ \A v \in {"PENDING", "PROGRESS", "ONLINE", "SHUTDOWN", "OFFLINE"} :
                 [r EXCEPT !.state = v] \in Socket
           /\ [r EXCEPT !.told = @ + 1] \in Socket
           /\ \A v \in {"none", "data", "shutdown"} :
                 [r EXCEPT !.jobs = v] \in Socket
           /\ \A v \in BOOLEAN : [r EXCEPT !.blocked = v] \in Socket
           /\ \A v \in BOOLEAN : [r EXCEPT !.delayed = v] \in Socket
           /\ \A v \in BOOLEAN : [r EXCEPT !.dns = v] \in Socket
           /\ \A v \in {"UNKNOWN", "SERVER", "CLIENT"} :
                 [r EXCEPT !.type = v] \in Socket
  BY DEF Socket

\* The close of a socket begins.
LEMMA BeginCloseTyped ==
    ASSUME Typed, NEW s \in Sockets, NEW arg \in Args, NEW rest \in Seq(Calls),
           BeginClose(s, arg, rest)
    PROVE  CoreTyped'
<1>1. stack' \in Seq(Calls)
    BY PushTyped DEF BeginClose, Callbacks
<1>2. sock' \in [Sockets -> Socket]
  <2>1. sock[s] \in Socket
      BY DEF Typed, CoreTyped
  <2>2. [[sock[s] EXCEPT !.state = "OFFLINE"] EXCEPT !.told = @ + 1] \in Socket
      BY <2>1, SocketTyped
  <2>3. sock' = [sock EXCEPT ![s] =
                    [[sock[s] EXCEPT !.state = "OFFLINE"] EXCEPT !.told = @ + 1]]
      BY DEF BeginClose, Typed, CoreTyped
  <2> QED BY <2>2, <2>3 DEF Typed, CoreTyped
<1>3. lookup' \in [Sockets -> {"none", "pending", "invalidated"}]
    BY DEF BeginClose, Typed, CoreTyped
<1> QED BY <1>1, <1>2, <1>3 DEF BeginClose, Typed, CoreTyped

\* ape_shutdown keeps the types.
LEMMA ApeShutdownTyped ==
    ASSUME Typed, NEW s \in Sockets, NEW rest \in Seq(Calls),
           ApeShutdown(s, rest)
    PROVE  CoreTyped'
<1>1. CASE sock[s].type = "SERVER"
    BY <1>1, BeginCloseTyped DEF ApeShutdown, Args
<1>2. CASE sock[s].type # "SERVER"
  <2>1. timers' \in Seq(Timer)
      BY <1>2, DispatchTyped DEF ApeShutdown, Typed, CoreTyped
  <2>2. sock' \in [Sockets -> Socket]
    <3>1. sock' = [sock EXCEPT ![s].state = "SHUTDOWN"]
        BY <1>2 DEF ApeShutdown
    <3> QED BY <3>1, SocketTyped DEF Typed, CoreTyped
  <2> QED BY <1>2, <2>1, <2>2 DEF ApeShutdown, Typed, CoreTyped
<1> QED BY <1>1, <1>2

\* APE_socket_shutdown keeps the types.
LEMMA ShutdownTyped ==
    ASSUME Typed, NEW s \in Sockets, NEW rest \in Seq(Calls),
           APE_socket_shutdown(s, rest)
    PROVE  CoreTyped'
<1>1. CASE BeginClose(s, {}, rest)
    BY <1>1, BeginCloseTyped DEF Args
<1>2. CASE ApeShutdown(s, rest)
    BY <1>2, ApeShutdownTyped
<1>3. CASE /\ sock' = [sock EXCEPT ![s].jobs = "shutdown"]
           /\ stack' = rest
           /\ UNCHANGED <<open, registered, nfd, lookup, timers>>
    BY <1>3, SocketTyped DEF Typed, CoreTyped
<1>4. CASE /\ stack' = rest
           /\ UNCHANGED <<sock, open, registered, nfd, lookup, timers>>
    BY <1>4 DEF Typed, CoreTyped
<1> QED BY <1>1, <1>2, <1>3, <1>4 DEF APE_socket_shutdown

\* A structure is freed.
LEMMA FreeTyped ==
    ASSUME Typed, NEW s \in Sockets, NEW ts \in Seq(Timer), Free(s, ts)
    PROVE  /\ sock' \in [Sockets -> Socket]
           /\ timers' \in Seq(Timer) /\ todo' \in Seq(Timer)
<1>1. Released(s) \in Socket
    BY DEF Released, Blank, Socket, NoFd, Typed, CoreTyped
<1> QED BY <1>1, WithoutTyped DEF Free, Typed, CoreTyped

\* A new socket, and the table of descriptors with it, are of their types.
LEMMA FreshTyped ==
    ASSUME Typed, FreeFds # {}, NEW proto \in {"TCP", "UDP"},
           NEW s \in Sockets
    PROVE  /\ Fresh(proto) \in Socket
           /\ [open EXCEPT ![LowestFd] = s] \in
                 [Fds -> Sockets \union {NoSocket}]
  BY LowestFree DEF Fresh, Blank, Socket, Typed, CoreTyped


\* What remains of a client's event.
LEMMA ThenWriteTyped ==
    ASSUME NEW s \in Sockets, NEW bits, Below \in Seq(Calls)
    PROVE  ThenWrite(s, bits) \in Seq(Calls)
  BY PushTyped DEF ThenWrite, Suspended, Args

\* The timer a pass comes to.
LEMMA FireTyped ==
    ASSUME Typed, todo # <<>>
    PROVE  /\ Head(todo) \in Timer /\ Head(todo).s \in Sockets
           /\ Tail(todo) \in Seq(Timer)
<1>1. Head(todo) \in Timer /\ Tail(todo) \in Seq(Timer)
    BY DEF Typed
<1> QED BY <1>1 DEF Timer

\* No step breaks the types.
LEMMA TypedNext == Typed /\ [Next]_vars => Typed'
<1> SUFFICES ASSUME Typed, [Next]_vars PROVE Typed'
    OBVIOUS
<1> USE DEF Typed
\* What the application calls.
<1>1. ASSUME NEW s \in Sockets, NEW proto \in {"TCP", "UDP"},
             APE_socket_new(s, proto)
      PROVE  Typed'
    BY <1>1, FreshTyped DEF APE_socket_new, CoreTyped
<1>2. ASSUME NEW s \in Sockets, APE_socket_listen(s) PROVE Typed'
  <2>1. [[sock[s] EXCEPT !.type = "SERVER"] EXCEPT !.state = "ONLINE"] \in Socket
      BY SocketTyped DEF CoreTyped
  <2>2. CASE sock' = [sock EXCEPT ![s].type = "SERVER", ![s].state = "ONLINE"]
    <3>1. sock' = [sock EXCEPT ![s] = [[sock[s] EXCEPT !.type = "SERVER"]
                                               EXCEPT !.state = "ONLINE"]]
        BY <2>2 DEF CoreTyped
    <3>2. sock' \in [Sockets -> Socket]
        BY <2>1, <3>1 DEF CoreTyped
    <3> QED BY <1>2, <3>2 DEF APE_socket_listen, CoreTyped
  <2>3. CASE UNCHANGED sock
      BY <1>2, <2>3 DEF APE_socket_listen, CoreTyped
  <2> QED BY <1>2, <2>2, <2>3 DEF APE_socket_listen
<1>3. ASSUME NEW s \in Sockets, APE_socket_connect(s) PROVE Typed'
  <2>1. \A arg \in {{}, {"ended"}} :
            <<Call("connecting", s, arg)>> \o stack \in Seq(Calls)
      BY PushTyped DEF CoreTyped, Suspended, Args
  <2>2. stack' \in Seq(Calls)
      BY <1>3, <2>1 DEF APE_socket_connect, CoreTyped
  <2>3. sock' \in [Sockets -> Socket]
    <3>1. UNCHANGED sock \/ sock' = [sock EXCEPT ![s].dns = TRUE]
        BY <1>3 DEF APE_socket_connect
    <3>2. sock[s] \in Socket
        BY DEF CoreTyped
    <3>3. [sock[s] EXCEPT !.dns = TRUE] \in Socket
        BY <3>2, SocketTyped
    <3> QED BY <3>1, <3>3 DEF CoreTyped
  <2> QED BY <1>3, <2>2, <2>3 DEF APE_socket_connect, CoreTyped
<1>4. ASSUME NEW s \in Sockets, UserShutdown(s) PROVE Typed'
    BY <1>4, ShutdownTyped DEF UserShutdown, CoreTyped
<1>5. ASSUME NEW s \in Sockets, APE_socket_shutdown_now(s) PROVE Typed'
    BY <1>5, BeginCloseTyped, ApeShutdownTyped
       DEF APE_socket_shutdown_now, CoreTyped, Args
<1>6. ASSUME NEW s \in Sockets, APE_socket_shutdown_delay(s) PROVE Typed'
  <2>1. timers' \in Seq(Timer)
      BY <1>6, DispatchTyped DEF APE_socket_shutdown_delay, CoreTyped
  <2>2. sock' = [sock EXCEPT ![s].delayed = TRUE]
      BY <1>6 DEF APE_socket_shutdown_delay
  <2>3. sock' \in [Sockets -> Socket]
      BY <2>2, SocketTyped DEF CoreTyped
  <2> QED BY <1>6, <2>1, <2>3 DEF APE_socket_shutdown_delay, CoreTyped
<1>7. ASSUME NEW s \in Sockets, ape_socket_destroy(s) PROVE Typed'
    BY <1>7, BeginCloseTyped DEF ape_socket_destroy, CoreTyped, Args
<1>8. ASSUME NEW s \in Sockets, APE_socket_write(s) PROVE Typed'
  <2>1. CASE ApeShutdown(s, stack)
      BY <1>8, <2>1, ApeShutdownTyped DEF APE_socket_write, CoreTyped
  <2>2. CASE /\ sock' = [sock EXCEPT ![s].jobs = "data", ![s].blocked = TRUE]
             /\ UNCHANGED <<open, registered, nfd, lookup, timers, stack>>
    <3>1. [[sock[s] EXCEPT !.jobs = "data"] EXCEPT !.blocked = TRUE] \in Socket
        BY SocketTyped DEF CoreTyped
    <3>2. sock' = [sock EXCEPT ![s] = [[sock[s] EXCEPT !.jobs = "data"]
                                               EXCEPT !.blocked = TRUE]]
        BY <2>2 DEF CoreTyped
    <3>3. sock' \in [Sockets -> Socket]
        BY <3>1, <3>2 DEF CoreTyped
    <3> QED BY <1>8, <2>2, <3>3 DEF APE_socket_write, CoreTyped
  <2> QED BY <1>8, <2>1, <2>2 DEF APE_socket_write
\* What returns.
<1>9. CASE CallbackReturn
    BY <1>9, FrameTyped DEF CallbackReturn, At, CoreTyped
<1>10. CASE EndClose
  <2> DEFINE s == Frame1.s
  <2>1. s \in Sockets /\ Below \in Seq(Calls)
      BY <1>10, FrameTyped DEF EndClose, At
  <2>2. /\ open' = [open EXCEPT ![sock[s].fd] = NoSocket]
        /\ registered' = registered \ {Owner(s)} /\ nfd' = nfd - 1
        /\ stack' = Below /\ UNCHANGED <<lookup, batch, loop>>
        /\ \/ Free(s, todo)
           \/ Dispatch("free", s) /\ UNCHANGED <<sock, todo>>
      BY <1>10 DEF EndClose
  <2> HIDE DEF s
  <2>3. /\ open' \in [Fds -> Sockets \union {NoSocket}]
        /\ registered' \in SUBSET Sockets /\ nfd' \in Int
    <3>1. open' \in [Fds -> Sockets \union {NoSocket}]
        BY <2>2 DEF CoreTyped
    <3> QED BY <2>2, <3>1 DEF CoreTyped
  <2>4. /\ sock' \in [Sockets -> Socket]
        /\ timers' \in Seq(Timer) /\ todo' \in Seq(Timer)
      BY <2>1, <2>2, FreeTyped, DispatchTyped DEF CoreTyped
  <2> QED BY <2>1, <2>2, <2>3, <2>4 DEF CoreTyped
<1>11. CASE ReadyToConnect
  <2> DEFINE s   == Frame1.s
             udp == sock[s].proto = "UDP"
             new == [[sock[s] EXCEPT !.type = "CLIENT"]
                              EXCEPT !.state = IF udp THEN "ONLINE"
                                                      ELSE "PROGRESS"]
  <2>1. s \in Sockets /\ Below \in Seq(Calls)
      BY <1>11, FrameTyped DEF ReadyToConnect, At
  <2>2. /\ UNCHANGED <<todo, batch, loop>>
        /\ \/ BeginClose(s, {}, Below)
           \/ /\ stack' = Below
              /\ UNCHANGED <<sock, open, registered, nfd, lookup, timers>>
           \/ /\ sock' = [sock EXCEPT ![s].type = "CLIENT",
                                      ![s].state = IF udp THEN "ONLINE"
                                                          ELSE "PROGRESS"]
              /\ registered' = registered \union {s} /\ nfd' = nfd + 1
              /\ IF udp THEN Dispatch("connected", s) ELSE UNCHANGED timers
              /\ stack' = Below
              /\ UNCHANGED <<open, lookup>>
      BY <1>11 DEF ReadyToConnect
  <2> HIDE DEF s
  <2>3. CASE BeginClose(s, {}, Below)
      BY <2>1, <2>2, <2>3, BeginCloseTyped DEF Args
  <2>4. CASE /\ stack' = Below
             /\ UNCHANGED <<sock, open, registered, nfd, lookup, timers>>
      BY <2>1, <2>2, <2>4 DEF CoreTyped
  <2>5. CASE /\ sock' = [sock EXCEPT ![s].type = "CLIENT",
                                     ![s].state = IF udp THEN "ONLINE"
                                                         ELSE "PROGRESS"]
             /\ registered' = registered \union {s} /\ nfd' = nfd + 1
             /\ IF udp THEN Dispatch("connected", s) ELSE UNCHANGED timers
             /\ stack' = Below
             /\ UNCHANGED <<open, lookup>>
    <3>1. new \in Socket
        BY <2>1, SocketTyped DEF CoreTyped
    <3>2. sock' = [sock EXCEPT ![s] = new]
        BY <2>1, <2>5 DEF CoreTyped
    <3>3. sock' \in [Sockets -> Socket]
        BY <3>1, <3>2 DEF CoreTyped
    <3>4. timers' \in Seq(Timer)
        BY <2>1, <2>5, DispatchTyped DEF CoreTyped
    <3> QED BY <2>1, <2>2, <2>5, <3>3, <3>4 DEF CoreTyped
  <2> QED BY <2>2, <2>3, <2>4, <2>5
<1>12. CASE DelayReturn
  <2>1. Frame1.s \in Sockets /\ Below \in Seq(Calls)
      BY <1>12, FrameTyped DEF DelayReturn, At
  <2>2. sock' \in [Sockets -> Socket]
      BY <1>12, <2>1, SocketTyped DEF DelayReturn, CoreTyped
  <2> QED BY <1>12, <2>1, <2>2 DEF DelayReturn, CoreTyped
\* What the loop does for an event.
<1>13. CASE Poll
  <2>1. ASSUME NEW n \in 0 .. MaxBatch, NEW b \in [1 .. n -> registered]
        PROVE  b \in Seq(Sockets)
    <3>1. n \in Nat
        BY SocketsAssumption DEF SocketsAssumption
    <3>2. b \in [1 .. n -> Sockets]
        BY <2>1 DEF CoreTyped
    <3> QED BY <3>1, <3>2
  <2>2. batch' \in Seq(Sockets)
      BY <1>13, <2>1 DEF Poll
  <2> QED BY <1>13, <2>2 DEF Poll, CoreTyped
<1>14. CASE ServerEvent
  <2>1. Head(batch) \in Sockets /\ Tail(batch) \in Seq(Sockets)
      BY <1>14 DEF ServerEvent
  <2>2. \A at \in {"accept", "recvfrom"} : Call(at, Head(batch), {}) \in Calls
      BY <2>1, CallTyped DEF Suspended, Args
  <2>3. stack' \in Seq(Calls)
      BY <1>14, <2>2 DEF ServerEvent
  <2> QED BY <1>14, <2>1, <2>3 DEF ServerEvent, CoreTyped
<1>15. CASE ClientEvent
  <2> DEFINE c == Head(batch)
  <2>1. c \in Sockets /\ Tail(batch) \in Seq(Sockets)
      BY <1>15 DEF ClientEvent
  <2>2. PICK bits \in SUBSET {"readable", "writable"} :
            /\ sock' = IF "writable" \in bits
                       THEN [sock EXCEPT ![c].blocked = FALSE] ELSE sock
            /\ stack' = <<Call("client", c, bits)>>
      BY <1>15 DEF ClientEvent
  <2>3. bits \in Args
      BY DEF Args
  <2>4. Call("client", c, bits) \in Calls
      BY <2>1, <2>3, CallTyped DEF Suspended
  <2>5. stack' \in Seq(Calls)
      BY <2>2, <2>4
  <2>6. sock' \in [Sockets -> Socket]
      BY <2>1, <2>2, SocketTyped DEF CoreTyped
  <2> QED BY <1>15, <2>1, <2>5, <2>6 DEF ClientEvent, CoreTyped
<1>16. CASE BatchEnd
    BY <1>16 DEF BatchEnd, CoreTyped
<1>17. CASE ape_socket_read
  <2>1. /\ Frame1.s \in Sockets /\ Frame1.arg \in Args
        /\ Below \in Seq(Calls)
      BY <1>17, FrameTyped DEF ape_socket_read, At
  <2>2. ThenWrite(Frame1.s, Frame1.arg) \in Seq(Calls)
      BY <2>1, ThenWriteTyped
  <2>3. ASSUME NEW data \in BOOLEAN, NEW ended \in SUBSET {"ended"}
        PROVE  (IF data THEN <<Call("on_read", Frame1.s, {})>> ELSE <<>>)
               \o <<Call("afterread", Frame1.s, Frame1.arg \union ended)>>
               \o Below \in Seq(Calls)
    <3>1. Frame1.arg \union ended \in Args /\ {} \in Args
        BY <2>1 DEF Args
    <3>2. /\ Call("on_read", Frame1.s, {}) \in Calls
          /\ Call("afterread", Frame1.s, Frame1.arg \union ended) \in Calls
        BY <2>1, <3>1, CallTyped DEF Callbacks, Suspended
    <3> QED BY <2>1, <3>2
  <2>4. stack' \in Seq(Calls)
      BY <1>17, <2>2, <2>3 DEF ape_socket_read
  <2> QED BY <1>17, <2>4 DEF ape_socket_read, CoreTyped
<1>18. CASE AfterRead
  <2> DEFINE s == Frame1.s
  <2>1. /\ s \in Sockets /\ Frame1.arg \in Args /\ Below \in Seq(Calls)
      BY <1>18, FrameTyped DEF AfterRead, At
  <2>2. ThenWrite(s, Frame1.arg) \in Seq(Calls)
      BY <2>1, ThenWriteTyped
  <2>3. CASE BeginClose(s, {}, Below)
      BY <1>18, <2>1, <2>3, BeginCloseTyped DEF AfterRead, Args
  <2>4. CASE ~BeginClose(s, {}, Below)
      BY <1>18, <2>1, <2>2, <2>4 DEF AfterRead, CoreTyped
  <2> QED BY <2>3, <2>4
<1>19. CASE ClientReadUdp
  <2>1. /\ Frame1.s \in Sockets /\ Frame1.arg \in Args
      BY <1>19, FrameTyped DEF ClientReadUdp, At
  <2>2. ThenWrite(Frame1.s, Frame1.arg) \in Seq(Calls)
      BY <1>19, <2>1, FrameTyped, ThenWriteTyped DEF ClientReadUdp, At
  <2>3. Call("recvfrom", Frame1.s, {}) \in Calls
      BY <2>1, CallTyped DEF Suspended, Args
  <2>4. stack' \in Seq(Calls)
      BY <1>19, <2>2, <2>3 DEF ClientReadUdp
  <2> QED BY <1>19, <2>4 DEF ClientReadUdp, CoreTyped
<1>20. CASE ClientWrite
  <2> DEFINE s == Frame1.s
  <2>1. s \in Sockets /\ Below \in Seq(Calls)
      BY <1>20, FrameTyped DEF ClientWrite, At
  <2>2. /\ UNCHANGED <<todo, batch, loop>>
        /\ \/ ape_socket_do_jobs(s)
           \/ Connection(s)
           \/ /\ stack' = Below
              /\ UNCHANGED <<sock, open, registered, nfd, lookup, timers>>
      BY <1>20 DEF ClientWrite
  <2> HIDE DEF s
  <2>3. CASE BeginClose(s, {}, Below)
      BY <2>1, <2>2, <2>3, BeginCloseTyped DEF Args
  <2>4. CASE ApeShutdown(s, Below)
      BY <2>1, <2>2, <2>4, ApeShutdownTyped
  <2>5. CASE /\ \E at \in {"on_drain", "on_connected"} :
                   \/ stack' = <<Call(at, s, {})>> \o Below
                   \/ stack' = Below
             /\ \/ sock' = [sock EXCEPT ![s].blocked = TRUE]
                \/ sock' = [sock EXCEPT ![s].jobs = "none"]
                \/ sock' = [sock EXCEPT ![s].state = "ONLINE"]
                \/ UNCHANGED sock
             /\ UNCHANGED <<open, registered, nfd, lookup, timers>>
    <3>1. \A at \in {"on_drain", "on_connected"} :
              <<Call(at, s, {})>> \o Below \in Seq(Calls)
        BY <2>1, PushTyped DEF Callbacks, Args
    <3>2. stack' \in Seq(Calls)
        BY <2>1, <2>5, <3>1
    <3>3. sock' \in [Sockets -> Socket]
      <4>1. sock[s] \in Socket
          BY <2>1 DEF CoreTyped
      <4>2. /\ [sock[s] EXCEPT !.blocked = TRUE] \in Socket
            /\ [sock[s] EXCEPT !.jobs = "none"] \in Socket
            /\ [sock[s] EXCEPT !.state = "ONLINE"] \in Socket
          BY <4>1, SocketTyped
      <4> QED BY <2>5, <4>2 DEF CoreTyped
    <3> QED BY <2>2, <2>5, <3>2, <3>3 DEF CoreTyped
  <2> QED BY <2>2, <2>3, <2>4, <2>5 DEF ape_socket_do_jobs, Connection
<1>21. CASE WouldBlock
    BY <1>21, FrameTyped DEF WouldBlock, At, CoreTyped
\* What the loop does for a timer.
<1>22. CASE ape_socket_free
    BY <1>22, FireTyped, FreeTyped DEF ape_socket_free, Fires, CoreTyped
<1>23. CASE _ape_socket_destroy
  <2>1. Head(todo).s \in Sockets /\ Tail(todo) \in Seq(Timer)
      BY <1>23, FireTyped DEF _ape_socket_destroy, Fires
  <2>2. <<>> \in Seq(Calls) /\ {"free"} \in Args
      BY DEF Args
  <2>3. CASE BeginClose(Head(todo).s, {"free"}, <<>>)
      BY <1>23, <2>1, <2>2, <2>3, BeginCloseTyped DEF _ape_socket_destroy
  <2>4. CASE UNCHANGED <<sock, open, registered, nfd, lookup, timers, stack>>
      BY <1>23, <2>1, <2>4 DEF _ape_socket_destroy, CoreTyped
  <2> QED BY <1>23, <2>3, <2>4 DEF _ape_socket_destroy
<1>24. CASE ape_socket_connected
  <2>1. Head(todo).s \in Sockets /\ Tail(todo) \in Seq(Timer)
      BY <1>24, FireTyped DEF ape_socket_connected, Fires
  <2>2. Call("on_connected", Head(todo).s, {}) \in Calls
      BY <2>1, CallTyped DEF Callbacks, Args
  <2>3. stack' \in Seq(Calls)
      BY <1>24, <2>2 DEF ape_socket_connected
  <2> QED BY <1>24, <2>1, <2>3 DEF ape_socket_connected, CoreTyped
<1>25. CASE ape_socket_shutdown_delay_cb
  <2>1. Head(todo).s \in Sockets /\ Tail(todo) \in Seq(Timer)
      BY <1>25, FireTyped DEF ape_socket_shutdown_delay_cb, Fires
  <2>2. Call("undelay", Head(todo).s, {}) \in Calls
      BY <2>1, CallTyped DEF Suspended, Args
  <2>3. <<Call("undelay", Head(todo).s, {})>> \in Seq(Calls)
      BY <2>2
  <2> QED BY <1>25, <2>1, <2>3, ShutdownTyped DEF ape_socket_shutdown_delay_cb
<1>26. CASE DelayNotDue
  <2>1. Head(todo) \in Timer /\ Tail(todo) \in Seq(Timer)
      BY <1>26, FireTyped DEF DelayNotDue, Fires
  <2>2. timers' \in Seq(Timer)
      BY <1>26, <2>1 DEF DelayNotDue, CoreTyped
  <2> QED BY <1>26, <2>1, <2>2 DEF DelayNotDue, CoreTyped
<1>27. CASE TimersEnd
    BY <1>27 DEF TimersEnd, CoreTyped
\* What comes from outside.
<1>28. CASE ape_socket_read_udp
  <2>1. Frame1.s \in Sockets /\ stack \in Seq(Calls)
      BY <1>28, FrameTyped DEF ape_socket_read_udp, At, CoreTyped
  <2>2. Foreign(Frame1.s) \in Args
      BY DEF Foreign, Args
  <2>3. stack' \in Seq(Calls)
      BY <1>28, <2>1, <2>2, PushTyped DEF ape_socket_read_udp, Callbacks
  <2> QED BY <1>28, <2>3 DEF ape_socket_read_udp, CoreTyped
<1>29. ASSUME NEW c \in Sockets, ape_socket_accept(c) PROVE Typed'
  <2> DEFINE new == [Fresh("TCP") EXCEPT !.state = "ONLINE", !.type = "CLIENT"]
  <2>1. Frame1.s \in Sockets /\ stack \in Seq(Calls)
      BY <1>29, FrameTyped DEF ape_socket_accept, At, CoreTyped
  <2>2. Foreign(Frame1.s) \in Args
      BY DEF Foreign, Args
  <2>3. stack' \in Seq(Calls)
      BY <1>29, <2>1, <2>2, PushTyped DEF ape_socket_accept, Callbacks
  <2>4. FreeFds # {}
      BY <1>29 DEF ape_socket_accept
  <2>5. Fresh("TCP") \in Socket
      BY <2>4, FreshTyped
  <2>6. [[Fresh("TCP") EXCEPT !.state = "ONLINE"] EXCEPT !.type = "CLIENT"]
            \in Socket
      BY <2>5, SocketTyped
  <2>7. /\ sock' = [sock EXCEPT ![c] = new]
        /\ open' = [open EXCEPT ![LowestFd] = c]
        /\ registered' = registered \union {c} /\ nfd' = nfd + 1
        /\ UNCHANGED <<lookup, timers, todo, batch, loop>>
      BY <1>29 DEF ape_socket_accept
  <2>8. open' \in [Fds -> Sockets \union {NoSocket}]
      BY <2>4, <2>7, FreshTyped
  <2>9. sock' \in [Sockets -> Socket]
      BY <2>6, <2>7 DEF CoreTyped
  <2> QED BY <2>3, <2>7, <2>8, <2>9 DEF CoreTyped
<1>30. ASSUME NEW c \in Sockets, DnsReply(c) PROVE Typed'
  <2>1. \A arg \in {{}, {"ended"}} :
            <<Call("connecting", c, arg)>> \in Seq(Calls)
    <3> TAKE arg \in {{}, {"ended"}}
    <3>1. Call("connecting", c, arg) \in Calls
        BY CallTyped DEF Suspended, Args
    <3> QED BY <3>1
  <2>2. lookup' \in [Sockets -> {"none", "pending", "invalidated"}]
      BY <1>30 DEF DnsReply, CoreTyped
  <2>3. CASE lookup[c] = "pending"
    <3>1. stack' \in Seq(Calls)
      <4>1. \E arg \in {{}, {"ended"}} :
                stack' = <<Call("connecting", c, arg)>>
          BY <1>30, <2>3 DEF DnsReply
      <4> QED BY <2>1, <4>1
    <3>2. sock' = [sock EXCEPT ![c].dns = FALSE]
        BY <1>30, <2>3 DEF DnsReply
    <3>3. sock' \in [Sockets -> Socket]
        BY <3>2, SocketTyped DEF CoreTyped
    <3> QED BY <1>30, <2>2, <3>1, <3>3 DEF DnsReply, CoreTyped
  <2>4. CASE lookup[c] # "pending"
      BY <1>30, <2>2, <2>4 DEF DnsReply, CoreTyped
  <2> QED BY <2>3, <2>4
<1>31. CASE UNCHANGED vars
    BY <1>31 DEF vars, CoreTyped
<1> QED BY <1>1, <1>2, <1>3, <1>4, <1>5, <1>6, <1>7, <1>8, <1>9, <1>10, <1>11,
           <1>12, <1>13, <1>14, <1>15, <1>16, <1>17, <1>18, <1>19, <1>20,
           <1>21, <1>22, <1>23, <1>24, <1>25, <1>26, <1>27, <1>28, <1>29,
           <1>30, <1>31
        DEF Next, UserCall, Return, Dispatching, Firing, Peer

\* Types: every call, every event and every timer leaves the structures, the
\* timers and the calls in progress well formed, whatever the application
\* does, misuse included.
THEOREM TypesCorrect == Spec => []TypeOK
<1>1. Spec => []Typed
    BY TypedInit, TypedNext, PTL DEF Spec
<1> QED BY <1>1, TypedTypeOK, PTL

-----------------------------------------------------------------------------
(* What the invariants say of a socket is local to it.                     *)

\* Timers, by callback and socket.
LEMMA OnIs ==
    /\ \A cb, db, s, t : On(cb, s) = On(db, t) <=> cb = db /\ s = t
    /\ \A t \in Timer : /\ t = On(t.cb, t.s) /\ t.s \in Sockets
                        /\ t.cb \in {"free", "destroy", "connected", "delay"}
    /\ \A s \in Sockets : /\ On("free", s) \in Timer
                          /\ On("destroy", s) \in Timer
                          /\ On("connected", s) \in Timer
                          /\ On("delay", s) \in Timer
  BY DEF On, Timer

\* The parts of a call.
LEMMA CallIs ==
    \A at, s, arg : /\ Call(at, s, arg).at = at /\ Call(at, s, arg).s = s
                    /\ Call(at, s, arg).arg = arg
  BY DEF Call

\* What is pending, by its members.
LEMMA PendingIs == Pending = Items(timers) \union Items(todo)
  BY DEF Pending, Items

\* A step that leaves alone what the invariant says of `t'.
Same(t) ==
    /\ sock'[t] = sock[t] /\ lookup'[t] = lookup[t]
    /\ \A cb \in {"free", "destroy", "connected", "delay"} :
          On(cb, t) \in Pending' <=> On(cb, t) \in Pending
    /\ \A c \in Items(stack') : c.s = t => c \in Items(stack)
    /\ Closing(t) => Closing(t)'
    /\ t \in Items(batch') => t \in Items(batch) \/ t \in registered
    /\ t \in registered' => t \in registered /\ Owner(t)' = Owner(t)
    /\ loop' = loop \/ Items(stack) = {}

\* A step that leaves all it speaks of keeps the invariant.
LEMMA SameKeeps ==
    ASSUME NEW t \in Sockets, SocketInv(t), Same(t)
    PROVE  SocketInv(t)'
<1>1. Closing(t)' <=> Closing(t)
    BY DEF Same, Closing
<1>2. DueInv(t)'
    BY <1>1 DEF Same, SocketInv, DueInv, Live
<1>3. StateInv(t)'
    BY <1>1 DEF Same, SocketInv, StateInv, Live
<1>4. ASSUME NEW c \in Items(stack'), c.s = t PROVE CallInv(c)'
  <2>1. c \in Items(stack) /\ CallInv(c) /\ loop' = loop
      BY <1>4 DEF Same, SocketInv
  <2> QED BY <1>4, <2>1 DEF Same, CallInv, Live
<1> QED BY <1>2, <1>3, <1>4 DEF SocketInv

\* A step about one socket.
LEMMA LocalStep ==
    ASSUME SafeInv, Typed', Shape', NEW s \in Sockets,
           \A t \in Sockets \ {s} : Same(t), SocketInv(s)'
    PROVE  SafeInv'
  BY SameKeeps DEF SafeInv

\* A step that changes nothing of what the invariant says.
LEMMA NoStep ==
    ASSUME SafeInv, Typed', Shape', \A t \in Sockets : Same(t)
    PROVE  SafeInv'
  BY SameKeeps DEF SafeInv

\* The innermost call, and what is below it.
LEMMA Innermost ==
    ASSUME SafeInv, stack # <<>>
    PROVE  /\ Items(stack) = {Frame1} \union Items(Below)
           /\ Below \in Seq(Calls) /\ Stacked(Below) /\ Frame1 \in Calls
           /\ Frame1.at \in Callbacks \union Suspended /\ Frame1.arg \in Args
           /\ Frame1.at # "main" => Frame1.s \in Sockets /\ CallInv(Frame1)
           /\ \A d \in Items(Below) : d.at # "connecting" /\ d \in Calls
           /\ Outermost(Frame1) => Below = <<>>
           /\ Frame1.at = "on_disconnect" =>
                 \A d \in Items(Below) :
                    ~(d.at = "on_disconnect" /\ d.s = Frame1.s)
<1>1. Typed /\ stack \in Seq(Calls) /\ Stacked(stack)
    BY DEF SafeInv, Typed, CoreTyped, Shape
<1>2. /\ Items(stack) = {Frame1} \union Items(Below) /\ Below \in Seq(Calls)
    BY <1>1, ItemsPop DEF Frame1, Below
<1>3. /\ Frame1.at \in Callbacks \union Suspended /\ Frame1.arg \in Args
      /\ Frame1.at # "main" => Frame1.s \in Sockets
      /\ Frame1 \in Calls
    BY <1>1, FrameTyped
<1>4. Frame1.at # "main" => CallInv(Frame1)
    BY <1>2, <1>3 DEF SafeInv, SocketInv
<1>5. Items(Below) \in SUBSET Calls
    BY <1>2, ItemsTyped
<1>6. /\ Stacked(Below)
      /\ \A d \in Items(Below) : d.at # "connecting"
      /\ Outermost(Frame1) => Below = <<>>
      /\ Frame1.at = "on_disconnect" =>
            \A d \in Items(Below) :
               ~(d.at = "on_disconnect" /\ d.s = Frame1.s)
    BY <1>1, StackPop DEF Frame1, Below
<1> QED BY <1>2, <1>3, <1>4, <1>5, <1>6

\* A call that is pushed onto `rest'.
LEMMA Pushed ==
    ASSUME NEW at \in Callbacks \union Suspended, NEW s \in Sockets,
           NEW arg \in Args, NEW rest \in Seq(Calls), Stacked(rest),
           Outermost(Call(at, s, arg)) => rest = <<>>,
           \A d \in Items(rest) : d.at # "connecting",
           at = "on_disconnect" =>
              \A d \in Items(rest) : ~(d.at = "on_disconnect" /\ d.s = s)
    PROVE  /\ <<Call(at, s, arg)>> \o rest \in Seq(Calls)
           /\ Items(<<Call(at, s, arg)>> \o rest)
                 = {Call(at, s, arg)} \union Items(rest)
           /\ Stacked(<<Call(at, s, arg)>> \o rest)
<1> DEFINE c == Call(at, s, arg)
<1>1. c \in Calls /\ c.at = at /\ c.s = s
    BY CallTyped, CallIs
<1> HIDE DEF c
<1>2. /\ <<c>> \o rest \in Seq(Calls)
      /\ Items(<<c>> \o rest) = {c} \union Items(rest)
    BY <1>1, ItemsPush
<1>3. Outermost(c) => rest = <<>>
    BY DEF c
<1>4. Stacked(<<c>> \o rest)
    BY <1>1, <1>3, StackPush
<1> QED BY <1>2, <1>4 DEF c

\* A call that the loop begins.
LEMMA FirstCall ==
    ASSUME NEW at \in Callbacks \union Suspended, NEW s \in Sockets,
           NEW arg \in Args
    PROVE  /\ Call(at, s, arg) \in Calls /\ <<Call(at, s, arg)>> \in Seq(Calls)
           /\ Items(<<Call(at, s, arg)>>) = {Call(at, s, arg)}
           /\ Stacked(<<Call(at, s, arg)>>)
<1> DEFINE c == Call(at, s, arg)
<1>1. c \in Calls
    BY CallTyped
<1> HIDE DEF c
<1>2. <<c>> \in Seq(Calls) /\ DOMAIN <<c>> = {1} /\ <<c>>[1] = c /\ Len(<<c>>) = 1
    BY <1>1
<1>3. Items(<<c>>) = {c} /\ Stacked(<<c>>)
    BY <1>2 DEF Items, Stacked
<1> QED BY <1>1, <1>2, <1>3 DEF c

\* While the application runs, no connection is half begun.
LEMMA UserTop ==
    ASSUME SafeInv, InUserCode
    PROVE  /\ stack \in Seq(Calls) /\ Stacked(stack)
           /\ \A c \in Items(stack) : c.at # "connecting"
<1>1. stack # <<>> /\ Frame1.at # "connecting"
    BY DEF InUserCode, Frame1, Callbacks
<1> QED BY <1>1, Innermost DEF SafeInv, Shape, Typed, CoreTyped

\* The timers that are pending after a step.
LEMMA PendingNext == Pending' = Items(timers') \union Items(todo')
  BY DEF Pending, Items

\* A timer is linked, and one of those to visit may be gone.
LEMMA Dispatched ==
    ASSUME SafeInv, NEW s \in Sockets,
           NEW cb \in {"free", "destroy", "connected", "delay"},
           On(cb, s) \notin Pending, Dispatch(cb, s),
           Distinct(todo'), Items(todo') \subseteq Items(todo)
    PROVE  /\ Pending' = {On(cb, s)} \union Items(timers) \union Items(todo')
           /\ Distinct(timers')
           /\ Items(timers') \intersect Items(todo') = {}
<1>1. timers \in Seq(Timer) /\ Distinct(timers)
      /\ Items(timers) \intersect Items(todo) = {}
    BY DEF SafeInv, Typed, CoreTyped, Shape
<1>2. On(cb, s) \in Timer
    BY OnIs
<1>3. On(cb, s) \notin Items(timers) /\ On(cb, s) \notin Items(todo)
    BY PendingIs
<1>4. Items(timers') = {On(cb, s)} \union Items(timers) /\ Distinct(timers')
    BY <1>1, <1>2, <1>3, ItemsPush DEF Dispatch
<1> QED BY <1>1, <1>3, <1>4, PendingNext

\* The pass visits a timer.
LEMMA Visited ==
    ASSUME SafeInv, todo # <<>>
    PROVE  /\ Tail(todo) \in Seq(Timer) /\ Distinct(Tail(todo))
           /\ Items(todo) = {Head(todo)} \union Items(Tail(todo))
           /\ Head(todo) \notin Items(Tail(todo))
           /\ Head(todo) \notin Items(timers)
           /\ Head(todo) \in Pending
           /\ Items(timers) \intersect Items(Tail(todo)) = {}
           /\ Items(timers) \union Items(Tail(todo)) = Pending \ {Head(todo)}
           /\ Head(todo) = On(Head(todo).cb, Head(todo).s)
           /\ Head(todo).s \in Sockets
<1>1. /\ todo \in Seq(Timer) /\ Distinct(todo)
      /\ Items(timers) \intersect Items(todo) = {}
    BY DEF SafeInv, Typed, Shape
<1>2. /\ Head(todo) \in Timer /\ Tail(todo) \in Seq(Timer)
      /\ Items(todo) = {Head(todo)} \union Items(Tail(todo))
      /\ Distinct(Tail(todo)) /\ Head(todo) \notin Items(Tail(todo))
    BY <1>1, ItemsPop
<1> QED BY <1>1, <1>2, OnIs, PendingIs

-----------------------------------------------------------------------------
(* What the ways to end a socket do.                                       *)

\* What a call that ends `s' leaves of the calls and of the timers: a timer of
\* `s' other than its release may be gone, the others stay; what is suspended
\* stays, and ape_socket_shutdown_delay_cb may now be.
Leaves(s, rest) ==
    /\ rest \in Seq(Calls) /\ Stacked(rest)
    /\ \A c \in Items(rest) :
          /\ c.at # "connecting"
          /\ \/ c \in Items(stack)
             \/ /\ c = Call("undelay", s, {}) /\ sock[s].delayed
                /\ On("delay", s) \notin Items(timers) \union Items(todo')
    /\ \A t \in Sockets : Closing(t) =>
          \E c \in Items(rest) : c.at = "on_disconnect" /\ c.s = t
    /\ Distinct(todo') /\ Items(todo') \subseteq Items(todo)
    /\ \A t \in Items(todo) \ Items(todo') : t.s = s /\ t.cb # "free"
    /\ UNCHANGED <<batch, loop>>

\* ape_socket_close: a socket that may still be used, or whose release is
\* under way, is told of its end.
LEMMA BeginCloseSafe ==
    ASSUME SafeInv, Typed', NEW s \in Sockets, NEW arg \in {{}, {"free"}},
           NEW rest, Leaves(s, rest), BeginClose(s, arg, rest),
           Live(s), sock[s].state # "OFFLINE",
           arg = {"free"} => rest = <<>> /\ loop = "timers",
           On("connected", s) \notin Pending,
           On("destroy", s) \notin Items(timers) \union Items(todo')
    PROVE  SafeInv'
<1> DEFINE c == Call("on_disconnect", s, arg)
<1>1. /\ Typed /\ Shape /\ SocketInv(s) /\ sock \in [Sockets -> Socket]
      /\ \A t \in Sockets : SocketInv(t)
    BY DEF SafeInv, Typed, CoreTyped
<1>2. ~Closing(s) /\ \A d \in Items(rest) : ~(d.at = "on_disconnect" /\ d.s = s)
  <2>1. ~Closing(s)
      BY <1>1 DEF SocketInv, CallInv, Closing
  <2> QED BY <2>1, CallIs DEF Leaves, Closing
<1>3. /\ stack' = <<c>> \o rest
      /\ Items(stack') = {c} \union Items(rest) /\ Stacked(stack')
  <2>1. arg \in Args /\ "on_disconnect" \in Callbacks \union Suspended
      BY DEF Args, Callbacks
  <2>2. Outermost(c) => rest = <<>>
      BY CallIs DEF Outermost
  <2> QED BY <1>2, <2>1, <2>2, Pushed DEF Leaves, BeginClose
<1>4. /\ Pending' = Items(timers) \union Items(todo')
      /\ timers' = timers /\ registered' = registered
      /\ loop' = loop /\ batch' = batch
    BY PendingNext DEF BeginClose, Leaves
<1>5. /\ \A t \in Sockets \ {s} : sock'[t] = sock[t] /\ lookup'[t] = lookup[t]
      /\ sock'[s].state = "OFFLINE" /\ sock'[s].told = sock[s].told + 1
      /\ sock'[s].mem = sock[s].mem /\ sock'[s].proto = sock[s].proto
      /\ sock'[s].dns = sock[s].dns /\ sock'[s].delayed = sock[s].delayed
      /\ lookup'[s] # "pending"
      /\ \A t \in Sockets : Owner(t)' = Owner(t)
  <2>1. sock[s] \in Socket /\ lookup \in [Sockets -> {"none", "pending", "invalidated"}]
      BY <1>1 DEF Typed, CoreTyped
  <2>2. open' = open /\ \A t \in Sockets : sock'[t].fd = sock[t].fd
      BY <1>1, <2>1 DEF BeginClose, Socket
  <2> QED BY <1>1, <2>1, <2>2 DEF BeginClose, Socket, SocketInv, StateInv, Owner
<1> HIDE DEF c
<1>6. Shape'
    BY <1>1, <1>3, <1>4 DEF Shape, Leaves
<1>7. ASSUME NEW t \in Sockets \ {s} PROVE Same(t)
  <2>1. \A cb \in {"free", "destroy", "connected", "delay"} :
            On(cb, t) \in Pending' <=> On(cb, t) \in Pending
      BY <1>4, PendingIs, OnIs DEF Leaves, On
  <2>2. \A d \in Items(stack') : d.s = t => d \in Items(stack)
      BY <1>3, CallIs DEF Leaves, c
  <2>3. Closing(t) => Closing(t)'
      BY <1>3 DEF Leaves, Closing
  <2> QED BY <1>4, <1>5, <2>1, <2>2, <2>3 DEF Same
<1>8. SocketInv(s)'
  <2>1. Closing(s)'
      BY <1>3, CallIs DEF Closing, c
  <2>2. \A x : x \in Pending' => x \in Pending
      BY <1>4, PendingIs DEF Leaves
  <2>3. /\ On("free", s) \notin Pending' /\ On("connected", s) \notin Pending'
        /\ On("destroy", s) \notin Pending'
      BY <1>1, <1>4, <2>2 DEF SocketInv, DueInv
  <2>4. DueInv(s)'
      BY <1>1, <1>5, <2>2, <2>3 DEF SocketInv, DueInv, Live
  <2>5. StateInv(s)'
      BY <1>1, <1>4, <1>5, <2>1 DEF SocketInv, StateInv, Live
  <2>6. ASSUME NEW d \in Items(stack'), d.s = s PROVE CallInv(d)'
    <3>1. CASE d = c
        BY <1>4, <1>5, <2>6, <3>1, CallIs DEF CallInv, Live, c
    <3>2. CASE d \in Items(stack) /\ d.at # "connecting"
      <4>1. CallInv(d)
          BY <1>1, <2>6, <3>2 DEF SocketInv
      <4> QED BY <1>4, <1>5, <2>2, <2>6, <3>2, <4>1 DEF CallInv, Live
    <3>3. CASE d = Call("undelay", s, {}) /\ sock[s].delayed
               /\ On("delay", s) \notin Items(timers) \union Items(todo')
      <4>1. d.at = "undelay" /\ d.s = s /\ d.arg = {}
          BY <3>3, CallIs
      <4> QED BY <1>4, <1>5, <3>3, <4>1 DEF CallInv, Live
    <3> QED BY <1>3, <2>6, <3>1, <3>2, <3>3 DEF Leaves
  <2> QED BY <2>4, <2>5, <2>6 DEF SocketInv
<1> QED BY <1>6, <1>7, <1>8, LocalStep


\* ape_shutdown: the release is scheduled.
LEMMA ApeShutdownSafe ==
    ASSUME SafeInv, Typed', NEW s \in Sockets, NEW rest, Leaves(s, rest),
           ApeShutdown(s, rest), Live(s), sock[s].state = "ONLINE",
           On("connected", s) \notin Pending
    PROVE  SafeInv'
<1>1. /\ Typed /\ Shape /\ SocketInv(s) /\ sock \in [Sockets -> Socket]
      /\ \A t \in Sockets : SocketInv(t)
    BY DEF SafeInv, Typed, CoreTyped
<1>2. /\ On("destroy", s) \notin Pending /\ On("free", s) \notin Pending
      /\ On("destroy", s) \notin Items(timers) \union Items(todo')
    BY <1>1, PendingIs DEF SocketInv, DueInv, Leaves
<1>3. CASE sock[s].type = "SERVER"
    BY <1>2, <1>3, BeginCloseSafe DEF ApeShutdown
<1>4. CASE sock[s].type # "SERVER"
  <2>1. /\ Dispatch("destroy", s) /\ stack' = rest
        /\ UNCHANGED <<registered, lookup, batch, loop>>
        /\ sock' = [sock EXCEPT ![s].state = "SHUTDOWN"]
      BY <1>4 DEF ApeShutdown, Leaves
  <2>2. /\ Pending' = {On("destroy", s)} \union Items(timers) \union Items(todo')
        /\ Distinct(timers') /\ Items(timers') \intersect Items(todo') = {}
      BY <1>2, <2>1, Dispatched DEF Leaves
  <2>3. /\ \A t \in Sockets \ {s} : sock'[t] = sock[t]
        /\ sock'[s].state = "SHUTDOWN" /\ sock'[s].told = sock[s].told
        /\ sock'[s].mem = sock[s].mem /\ sock'[s].proto = sock[s].proto
        /\ sock'[s].dns = sock[s].dns /\ sock'[s].delayed = sock[s].delayed
        /\ \A t \in Sockets : Owner(t)' = Owner(t)
    <3>1. sock[s] \in Socket
        BY <1>1
    <3>2. open' = open /\ \A t \in Sockets : sock'[t].fd = sock[t].fd
        BY <1>1, <1>4, <2>1, <3>1 DEF Socket, ApeShutdown
    <3> QED BY <1>1, <2>1, <3>1, <3>2 DEF Socket, Owner
  <2>4. Shape'
      BY <1>1, <2>1, <2>2 DEF Shape, Leaves
  <2>5. ASSUME NEW t \in Sockets \ {s} PROVE Same(t)
    <3>1. \A cb \in {"free", "destroy", "connected", "delay"} :
              On(cb, t) \in Pending' <=> On(cb, t) \in Pending
        BY <2>2, PendingIs, OnIs DEF Leaves, On
    <3>2. \A d \in Items(stack') : d.s = t => d \in Items(stack)
        BY <2>1, CallIs DEF Leaves
    <3>3. Closing(t) => Closing(t)'
        BY <2>1 DEF Leaves, Closing
    <3> QED BY <2>1, <2>3, <3>1, <3>2, <3>3 DEF Same
  <2>6. SocketInv(s)'
    <3>1. ~Closing(s)
        BY <1>1 DEF SocketInv, CallInv, Closing
    <3>2. \A x : x \in Pending' => x \in Pending \/ x = On("destroy", s)
        BY <2>2, PendingIs DEF Leaves
    <3>3. /\ On("free", s) \notin Pending' /\ On("connected", s) \notin Pending'
          /\ On("destroy", s) \in Pending'
        BY <1>2, <2>2, <3>2, OnIs
    <3>4. On("delay", s) \in Pending' => On("delay", s) \in Pending
        BY <3>2, OnIs
    <3>5. DueInv(s)'
        BY <1>1, <2>3, <3>3, <3>4 DEF SocketInv, DueInv, Live
    <3>6. StateInv(s)'
        BY <1>1, <2>1, <2>3, <3>3 DEF SocketInv, StateInv, Live
    <3>7. ASSUME NEW d \in Items(stack'), d.s = s PROVE CallInv(d)'
      <4>1. d \in Items(rest) /\ d.at # "connecting"
          BY <2>1, <3>7 DEF Leaves
      <4>2. CASE d \in Items(stack)
        <5>1. CallInv(d) /\ d.at # "on_disconnect"
            BY <1>1, <3>1, <3>7, <4>2 DEF SocketInv, Closing
        <5> QED BY <2>1, <2>3, <3>4, <3>7, <4>1, <5>1 DEF CallInv, Live
      <4>3. CASE d = Call("undelay", s, {}) /\ sock[s].delayed
                 /\ On("delay", s) \notin Items(timers) \union Items(todo')
        <5>1. d.at = "undelay" /\ d.s = s /\ d.arg = {}
            BY <4>3, CallIs
        <5>2. On("delay", s) \notin Pending'
            BY <2>2, <4>3, OnIs
        <5> QED BY <2>3, <4>3, <5>1, <5>2 DEF CallInv, Live
      <4> QED BY <4>1, <4>2, <4>3 DEF Leaves
    <3> QED BY <3>5, <3>6, <3>7 DEF SocketInv
  <2> QED BY <2>4, <2>5, <2>6, LocalStep
<1> QED BY <1>3, <1>4

\* A call for `s' that neither closes, connects nor ends a delay.
Plain(c, s) ==
    /\ c.at \notin {"main", "connecting", "on_disconnect", "undelay"}
    /\ "free" \notin c.arg /\ c.s = s
    /\ c.at = "afterread" => sock[s].proto = "TCP"

\* A call pushed that neither connects nor closes.
LEMMA PushPlain ==
    ASSUME NEW at \in (Callbacks \union Suspended)
                      \ {"main", "connecting", "on_disconnect", "undelay"},
           NEW s \in Sockets, NEW arg \in Args, "free" \notin arg,
           at = "afterread" => sock[s].proto = "TCP",
           NEW rest \in Seq(Calls), Stacked(rest),
           \A d \in Items(rest) : d.at # "connecting"
    PROVE  LET q == <<Call(at, s, arg)>> \o rest
           IN  /\ q \in Seq(Calls) /\ Stacked(q)
               /\ \A d \in Items(q) : d.at # "connecting"
               /\ \A d \in Items(q) : d \in Items(rest) \/ Plain(d, s)
               /\ \A d \in Items(rest) : d \in Items(q)
<1>1. /\ ~Outermost(Call(at, s, arg)) /\ Call(at, s, arg).at # "connecting"
      /\ Plain(Call(at, s, arg), s)
    BY CallIs DEF Outermost, Plain
<1> QED BY <1>1, Pushed

\* The fields of a structure that no invariant but its own mentions change,
\* and calls return and begin: none that closes, connects or ends a delay.
LEMMA CallStep ==
    ASSUME SafeInv, Typed', NEW s \in Sockets, Stacked(stack'),
           UNCHANGED <<open, registered, lookup, timers, todo, loop>>,
           Items(batch') \subseteq Items(batch),
           loop # "batch" => batch' = batch,
           \A t \in Sockets \ {s} : sock'[t] = sock[t],
           sock'[s].state = sock[s].state, sock'[s].told = sock[s].told,
           sock'[s].mem = sock[s].mem, sock'[s].proto = sock[s].proto,
           sock'[s].dns = sock[s].dns, sock'[s].delayed = sock[s].delayed,
           sock'[s].type = sock[s].type, sock'[s].fd = sock[s].fd,
           \/ sock'[s].jobs = sock[s].jobs
           \/ /\ sock[s].state = "ONLINE"
              /\ sock'[s].jobs # "none" => On("connected", s) \notin Pending,
           \A c \in Items(stack') :
              \/ c \in Items(stack)
              \/ Plain(c, s) /\ Live(s),
           \A c \in Items(stack) : c.at = "on_disconnect" => c \in Items(stack')
    PROVE  SafeInv'
<1>1. /\ Typed /\ Shape /\ \A t \in Sockets : SocketInv(t)
    BY DEF SafeInv
<1>2. Shape'
    BY <1>1 DEF Shape
<1>3. Pending' = Pending /\ \A t \in Sockets : /\ Closing(t)' <=> Closing(t)
                                             /\ Owner(t)' = Owner(t)
  <2>1. \A t \in Sockets : sock'[t].fd = sock[t].fd
      OBVIOUS
  <2>2. open' = open /\ timers' = timers /\ todo' = todo
      OBVIOUS
  <2>3. \A t \in Sockets : Closing(t)' <=> Closing(t)
      BY DEF Closing, Plain
  <2> QED BY <2>1, <2>2, <2>3 DEF Pending, Owner
<1>4. ASSUME NEW t \in Sockets \ {s} PROVE Same(t)
    BY <1>3 DEF Same, Plain
<1>5. SocketInv(s)'
  <2>1. DueInv(s)'
      BY <1>1, <1>3 DEF SocketInv, DueInv, Live
  <2>2. StateInv(s)'
      BY <1>1, <1>3 DEF SocketInv, StateInv, Live
  <2>3. ASSUME NEW d \in Items(stack'), d.s = s PROVE CallInv(d)'
    <3>1. d \in Items(stack) => CallInv(d)
        BY <1>1, <2>3 DEF SocketInv
    <3> QED BY <1>3, <2>3, <3>1 DEF CallInv, Live, Plain
  <2> QED BY <2>1, <2>2, <2>3 DEF SocketInv
<1> QED BY <1>2, <1>4, <1>5, LocalStep


\* A callback, or a call that has nothing more to do, returns.
LEMMA PopStep ==
    ASSUME SafeInv, Typed', stack # <<>>, Frame1.at # "on_disconnect",
           stack' = Below,
           UNCHANGED <<sock, open, registered, lookup, timers, todo, batch, loop>>
    PROVE  SafeInv'
<1>1. Shape
    BY DEF SafeInv
<1>2. Shape'
    BY <1>1, Innermost DEF Shape
<1>3. ASSUME NEW t \in Sockets PROVE Same(t)
    BY Innermost DEF Same, Pending, Closing, Owner
<1> QED BY <1>2, <1>3, NoStep

\* APE_socket_shutdown.
LEMMA ShutdownSafe ==
    ASSUME SafeInv, Typed', NEW s \in Sockets, NEW rest, Leaves(s, rest),
           APE_socket_shutdown(s, rest), Live(s),
           On("connected", s) \notin Pending,
           \A t \in Items(todo) \ Items(todo') : t.cb # "destroy"
    PROVE  SafeInv'
<1>1. /\ Typed /\ Shape /\ SocketInv(s) /\ sock \in [Sockets -> Socket]
      /\ \A t \in Sockets : SocketInv(t)
    BY DEF SafeInv, Typed, CoreTyped
<1>2. CASE sock[s].state \in {"PENDING", "PROGRESS"} /\ BeginClose(s, {}, rest)
  <2>1. On("destroy", s) \notin Items(timers) \union Items(todo')
      BY <1>1, <1>2, PendingIs DEF SocketInv, DueInv, Leaves
  <2> QED BY <1>2, <2>1, BeginCloseSafe
<1>3. CASE sock[s].state = "ONLINE" /\ ApeShutdown(s, rest)
    BY <1>3, ApeShutdownSafe
<1>4. CASE /\ \/ UNCHANGED sock
              \/ /\ sock[s].state = "ONLINE"
                 /\ sock' = [sock EXCEPT ![s].jobs = "shutdown"]
           /\ stack' = rest
           /\ UNCHANGED <<open, registered, nfd, lookup, timers>>
  <2>1. Pending' = Items(timers) \union Items(todo')
      BY <1>4, PendingNext
  <2>2. /\ \A t \in Sockets \ {s} : sock'[t] = sock[t]
        /\ sock'[s].state = sock[s].state /\ sock'[s].told = sock[s].told
        /\ sock'[s].mem = sock[s].mem /\ sock'[s].proto = sock[s].proto
        /\ sock'[s].dns = sock[s].dns /\ sock'[s].delayed = sock[s].delayed
        /\ sock'[s].state = "PENDING" => sock'[s].jobs = sock[s].jobs
        /\ \A t \in Sockets : Owner(t)' = Owner(t)
    <3>1. sock[s] \in Socket
        BY <1>1
    <3>2. open' = open /\ \A t \in Sockets : sock'[t].fd = sock[t].fd
        BY <1>1, <1>4, <3>1 DEF Socket
    <3> QED BY <1>1, <1>4, <3>1, <3>2 DEF Socket, Owner
  <2>3. Shape'
      BY <1>1, <1>4 DEF Shape, Leaves
  <2>4. \A t \in Sockets : Closing(t)' <=> Closing(t)
      BY <1>4, CallIs DEF Closing, Leaves
  <2>5. ASSUME NEW t \in Sockets \ {s} PROVE Same(t)
    <3>1. \A cb \in {"free", "destroy", "connected", "delay"} :
              On(cb, t) \in Pending' <=> On(cb, t) \in Pending
        BY <2>1, PendingIs, OnIs DEF Leaves, On
    <3>2. \A d \in Items(stack') : d.s = t => d \in Items(stack)
        BY <1>4, CallIs DEF Leaves
    <3> QED BY <1>4, <2>2, <2>4, <3>1, <3>2 DEF Same, Leaves
  <2>6. SocketInv(s)'
    <3>1. \A x : x \in Pending' => x \in Pending
        BY <2>1, PendingIs DEF Leaves
    <3>2. /\ On("connected", s) \notin Pending'
          /\ On("destroy", s) \in Pending => On("destroy", s) \in Pending'
          /\ On("free", s) \in Pending => On("free", s) \in Pending'
      <4>1. \A x \in {On("destroy", s), On("free", s)} :
                x \in Items(todo) => x \in Items(todo')
          BY OnIs DEF Leaves, On
      <4> QED BY <2>1, <3>1, <4>1, PendingIs
    <3>3. DueInv(s)'
        BY <1>1, <2>2, <2>4, <3>1, <3>2 DEF SocketInv, DueInv, Live
    <3>4. StateInv(s)'
        BY <1>1, <1>4, <2>2, <2>4, <3>2 DEF SocketInv, StateInv, Live, Leaves
    <3>5. ASSUME NEW d \in Items(stack'), d.s = s PROVE CallInv(d)'
      <4>1. CASE d \in Items(stack)
        <5>1. CallInv(d)
            BY <1>1, <3>5, <4>1 DEF SocketInv
        <5> QED BY <2>2, <3>1, <3>5, <5>1 DEF CallInv, Live, Leaves
      <4>2. CASE d = Call("undelay", s, {}) /\ sock[s].delayed
                 /\ On("delay", s) \notin Items(timers) \union Items(todo')
        <5>1. d.at = "undelay" /\ d.s = s /\ d.arg = {}
            BY <4>2, CallIs
        <5> QED BY <2>1, <2>2, <4>2, <5>1 DEF CallInv, Live
      <4> QED BY <1>4, <4>1, <4>2 DEF Leaves
    <3> QED BY <3>3, <3>4, <3>5 DEF SocketInv
  <2> QED BY <2>3, <2>5, <2>6, LocalStep
<1> QED BY <1>2, <1>3, <1>4 DEF APE_socket_shutdown

\* ape_socket_free, of a socket nothing else will be done for.
LEMMA FreeSafe ==
    ASSUME SafeInv, Typed', NEW s \in Sockets, NEW ts \in Seq(Timer),
           Free(s, ts), sock[s].state = "OFFLINE", Live(s),
           Distinct(ts), Items(ts) \subseteq Items(todo),
           Items(todo) \ Items(ts) \subseteq {On("free", s)},
           On("free", s) \notin Items(timers) \union Items(ts),
           stack' = <<>>, loop = "timers",
           \A c \in Items(stack) : c.at = "on_disconnect" /\ c.s = s,
           s \notin registered',
           \A t \in registered' : t \in registered /\ open'[sock[t].fd] = t,
           UNCHANGED <<lookup, batch, loop>>
    PROVE  SafeInv'
<1>1. /\ Typed /\ Shape /\ SocketInv(s) /\ sock \in [Sockets -> Socket]
      /\ timers \in Seq(Timer) /\ Distinct(timers)
      /\ Items(timers) \intersect Items(todo) = {}
      /\ \A t \in Sockets : SocketInv(t)
    BY DEF SafeInv, Typed, CoreTyped, Shape
<1>2. On("delay", s) \in Pending => sock[s].delayed
    BY <1>1 DEF SocketInv, DueInv
<1>3. /\ Items(timers') = Items(timers) \ {On("delay", s)} /\ Distinct(timers')
      /\ Items(todo') = Items(ts) \ {On("delay", s)} /\ Distinct(todo')
    BY <1>1, <1>2, ItemsWithout, PendingIs DEF Free
<1>4. Pending' = (Items(timers) \union Items(ts)) \ {On("delay", s)}
    BY <1>3, PendingNext
<1>5. /\ \A t \in Sockets \ {s} : sock'[t] = sock[t]
      /\ sock'[s] = Released(s)
    BY <1>1 DEF Free
<1>6. Items(stack') = {} /\ Stacked(stack')
    BY ItemsEmpty
<1>7. Shape'
    BY <1>1, <1>3, <1>6 DEF Shape
<1>8. ASSUME NEW t \in Sockets \ {s} PROVE Same(t)
  <2>1. \A cb \in {"free", "destroy", "connected", "delay"} :
            On(cb, t) \in Pending' <=> On(cb, t) \in Pending
      BY <1>4, PendingIs, OnIs
  <2>2. ~Closing(t)
      BY DEF Closing
  <2>3. t \in registered' => t \in registered /\ Owner(t)' = Owner(t)
      BY <1>1, <1>5 DEF Owner, SocketInv, StateInv
  <2> QED BY <1>5, <1>6, <2>1, <2>2, <2>3 DEF Same
<1>9. SocketInv(s)'
  <2>1. sock[s].told = 1 /\ batch = <<>>
      BY <1>1 DEF SocketInv, StateInv, Live, Shape
  <2>2. /\ On("free", s) \notin Pending' /\ On("destroy", s) \notin Pending'
        /\ On("connected", s) \notin Pending' /\ On("delay", s) \notin Pending'
      BY <1>1, <1>4, PendingIs DEF SocketInv, DueInv
  <2>3. DueInv(s)'
      BY <2>2 DEF DueInv
  <2>4. /\ sock'[s].mem = "freed" /\ sock'[s].told = 1
        /\ sock'[s].state = "PENDING" /\ ~sock'[s].dns
        /\ sock'[s].jobs = "none" /\ ~sock'[s].delayed
      BY <1>5, <2>1 DEF Released, Blank
  <2>5. lookup[s] # "pending"
      BY <1>1 DEF SocketInv, StateInv
  <2>6. s \notin Items(batch')
      BY <2>1, ItemsEmpty
  <2>7. StateInv(s)'
      BY <2>4, <2>5, <2>6 DEF StateInv, Live
  <2> QED BY <1>6, <2>3, <2>7 DEF SocketInv
<1> QED BY <1>7, <1>8, <1>9, LocalStep

-----------------------------------------------------------------------------
(* The calls of the application.                                           *)

\* A structure and its descriptor are allocated: what others own they keep.
LEMMA Opened ==
    ASSUME SafeInv, FreeFds # {}, NEW s \in Sockets, NEW t \in Sockets,
           open' = [open EXCEPT ![LowestFd] = s], sock'[t] = sock[t],
           Owner(t) = t
    PROVE  Owner(t)' = t
<1>1. /\ LowestFd \in Fds /\ open[LowestFd] = NoSocket
      /\ sock \in [Sockets -> Socket] /\ NoSocket \notin Sockets
      /\ open \in [Fds -> Sockets \union {NoSocket}]
    BY LowestFree, SocketsAssumption
       DEF SafeInv, Typed, CoreTyped, SocketsAssumption
<1> QED BY <1>1 DEF Owner

\* An allocated structure is unknown to everyone.
LEMMA NoneYet ==
    ASSUME SafeInv, NEW s \in Sockets, sock[s].mem = "none"
    PROVE  /\ \A cb \in {"free", "destroy", "connected", "delay"} :
                 On(cb, s) \notin Pending
           /\ \A c \in Items(stack) : c.s # s
           /\ s \notin Items(batch) /\ s \notin registered /\ ~Closing(s)
           /\ lookup[s] # "pending"
<1>1. SocketInv(s) /\ ~Live(s)
    BY DEF SafeInv, Live
<1>2. \A c \in Items(stack) : c.s # s
    BY <1>1 DEF SocketInv, CallInv
<1> QED BY <1>1, <1>2 DEF SocketInv, DueInv, StateInv, Closing

\* A new socket keeps the invariant.
LEMMA NewSafe ==
    ASSUME SafeInv, Typed', NEW s \in Sockets, NEW proto \in {"TCP", "UDP"},
           APE_socket_new(s, proto)
    PROVE  SafeInv'
<1>1. Shape /\ sock \in [Sockets -> Socket] /\ \A t \in Sockets : SocketInv(t)
    BY DEF SafeInv, Typed, CoreTyped
<1>2. /\ UNCHANGED <<registered, lookup, timers, todo, batch, loop, stack>>
      /\ FreeFds # {} /\ sock[s].mem = "none"
      /\ open' = [open EXCEPT ![LowestFd] = s]
      /\ \A t \in Sockets \ {s} : sock'[t] = sock[t]
      /\ sock'[s] = Fresh(proto)
    BY <1>1 DEF APE_socket_new
<1>3. /\ Pending' = Pending /\ Shape'
      /\ \A t \in Sockets : Closing(t)' <=> Closing(t)
    BY <1>1, <1>2 DEF Pending, Closing, Shape
<1>4. ASSUME NEW t \in Sockets \ {s} PROVE Same(t)
  <2>1. t \in registered => Owner(t)' = Owner(t)
      BY <1>1, <1>2, Opened DEF SocketInv, StateInv
  <2> QED BY <1>2, <1>3, <2>1 DEF Same
<1>5. SocketInv(s)'
  <2>1. /\ sock'[s].told = 0 /\ sock'[s].mem = "live" /\ ~sock'[s].dns
        /\ sock'[s].jobs = "none" /\ sock'[s].state = "PENDING"
        /\ ~sock'[s].delayed
      BY <1>2 DEF Fresh, Blank
  <2> QED BY <1>2, <1>3, <2>1, NoneYet
          DEF SocketInv, DueInv, StateInv, Live
<1> QED BY <1>3, <1>4, <1>5, LocalStep

\* APE_socket_listen keeps it.
LEMMA ListenSafe ==
    ASSUME SafeInv, Typed', NEW s \in Sockets, APE_socket_listen(s)
    PROVE  SafeInv'
<1>1. /\ Shape /\ sock \in [Sockets -> Socket] /\ sock[s] \in Socket
      /\ \A t \in Sockets : SocketInv(t)
    BY DEF SafeInv, Typed, CoreTyped
<1>2. /\ UNCHANGED <<lookup, timers, todo, batch, loop, stack>>
      /\ Live(s) /\ sock[s].state = "PENDING" /\ ~sock[s].dns
      /\ Owner(s) = s /\ InUserCode
    BY DEF APE_socket_listen, Unused, Refers
<1>3. /\ Pending' = Pending /\ Shape'
      /\ \A t \in Sockets : Closing(t)' <=> Closing(t)
    BY <1>1, <1>2 DEF Pending, Closing, Shape
<1>4. s \notin registered /\ ~Closing(s)
    BY <1>1, <1>2 DEF SocketInv, StateInv, CallInv, Closing
<1>5. CASE /\ sock' = [sock EXCEPT ![s].type = "SERVER", ![s].state = "ONLINE"]
           /\ registered' = registered \union {s}
           /\ UNCHANGED open
  <2>1. /\ \A t \in Sockets \ {s} : sock'[t] = sock[t]
        /\ sock'[s].state = "ONLINE" /\ sock'[s].told = sock[s].told
        /\ sock'[s].mem = sock[s].mem /\ sock'[s].proto = sock[s].proto
        /\ sock'[s].dns = sock[s].dns /\ sock'[s].delayed = sock[s].delayed
        /\ sock'[s].fd = sock[s].fd
      BY <1>1, <1>5 DEF Socket
  <2>2. \A t \in Sockets : Owner(t)' = Owner(t)
    <3>1. \A t \in Sockets : sock'[t].fd = sock[t].fd
        BY <2>1
    <3>2. open' = open
        BY <1>5
    <3> QED BY <3>1, <3>2 DEF Owner
  <2>3. ASSUME NEW t \in Sockets \ {s} PROVE Same(t)
      BY <1>2, <1>3, <1>5, <2>1, <2>2 DEF Same
  <2>4. DueInv(s)'
      BY <1>1, <1>2, <1>3, <2>1 DEF SocketInv, DueInv, Live
  <2>5. StateInv(s)'
      BY <1>1, <1>2, <1>3, <2>1, <2>2 DEF SocketInv, StateInv, Live
  <2>6. ASSUME NEW d \in Items(stack'), d.s = s PROVE CallInv(d)'
    <3>1. CallInv(d) /\ d.at # "connecting" /\ d.at # "on_disconnect"
        BY <1>1, <1>2, <1>4, <2>6, UserTop DEF SocketInv, Closing
    <3> QED BY <1>2, <1>3, <2>1, <2>6, <3>1 DEF CallInv, Live
  <2>7. SocketInv(s)'
      BY <2>4, <2>5, <2>6 DEF SocketInv
  <2> QED BY <1>3, <2>3, <2>7, LocalStep
<1>6. CASE /\ open' = [open EXCEPT ![sock[s].fd] = NoSocket]
           /\ UNCHANGED <<sock, registered, nfd>>
  <2>1. ASSUME NEW t \in Sockets PROVE Same(t)
    <3>1. t \in registered => Owner(t)' = Owner(t)
      <4>1. t \in registered => t # s /\ Owner(t) = t
          BY <1>1, <1>4 DEF SocketInv, StateInv
      <4>2. t \in registered => sock[t].fd # sock[s].fd
          BY <1>2, <4>1 DEF Owner
      <4> QED BY <1>6, <4>2 DEF Owner
    <3> QED BY <1>2, <1>3, <1>6, <3>1 DEF Same
  <2> QED BY <1>3, <2>1, NoStep
<1> QED BY <1>5, <1>6 DEF APE_socket_listen

\* APE_socket_connect keeps it.
LEMMA ConnectSafe ==
    ASSUME SafeInv, Typed', NEW s \in Sockets, APE_socket_connect(s)
    PROVE  SafeInv'
<1>1. /\ Shape /\ sock \in [Sockets -> Socket] /\ sock[s] \in Socket
      /\ lookup \in [Sockets -> {"none", "pending", "invalidated"}]
      /\ \A t \in Sockets : SocketInv(t)
    BY DEF SafeInv, Typed, CoreTyped
<1>2. /\ UNCHANGED <<open, registered, timers, todo, batch, loop>>
      /\ Live(s) /\ sock[s].state = "PENDING" /\ ~sock[s].dns
      /\ InUserCode
    BY DEF APE_socket_connect, Unused, Refers
<1>3. Pending' = Pending
    BY <1>2 DEF Pending
<1>4. ASSUME NEW arg \in {{}, {"ended"}}, UNCHANGED <<sock, lookup>>,
             stack' = <<Call("connecting", s, arg)>> \o stack
      PROVE  SafeInv'
  <2> DEFINE c == Call("connecting", s, arg)
  <2>1. Items(stack') = {c} \union Items(stack) /\ Stacked(stack')
    <3>1. /\ arg \in Args /\ "connecting" \in Callbacks \union Suspended
          /\ ~Outermost(Call("connecting", s, arg))
        BY CallIs DEF Args, Suspended, Outermost
    <3> QED BY <1>2, <1>4, <3>1, UserTop, Pushed
  <2>2. Shape'
      BY <1>1, <1>2, <2>1 DEF Shape
  <2>3. \A t \in Sockets : /\ Closing(t)' <=> Closing(t)
                           /\ Owner(t)' = Owner(t)
      BY <1>2, <1>4, <2>1, CallIs DEF Closing, Owner
  <2>4. ASSUME NEW t \in Sockets \ {s} PROVE Same(t)
      BY <1>2, <1>3, <1>4, <2>1, <2>3, CallIs DEF Same
  <2>5. DueInv(s)' /\ StateInv(s)'
      BY <1>1, <1>2, <1>3, <1>4, <2>3 DEF SocketInv, DueInv, StateInv, Live
  <2>6. ASSUME NEW d \in Items(stack'), d.s = s PROVE CallInv(d)'
    <3>1. CASE d \in Items(stack)
      <4>1. CallInv(d)
          BY <1>1, <2>6, <3>1 DEF SocketInv
      <4> QED BY <1>2, <1>3, <1>4, <4>1 DEF CallInv, Live
    <3>2. CASE d = c
      <4>1. d.at = "connecting" /\ d.s = s /\ "free" \notin d.arg
          BY <3>2, CallIs
      <4> QED BY <1>2, <1>4, <4>1 DEF CallInv, Live
    <3> QED BY <2>1, <2>6, <3>1, <3>2
  <2> QED BY <2>2, <2>4, <2>5, <2>6, LocalStep DEF SocketInv
<1>5. CASE /\ sock' = [sock EXCEPT ![s].dns = TRUE]
           /\ lookup' = [lookup EXCEPT ![s] = "pending"]
           /\ UNCHANGED stack
  <2>1. /\ \A t \in Sockets \ {s} : sock'[t] = sock[t] /\ lookup'[t] = lookup[t]
        /\ sock'[s].state = "PENDING" /\ sock'[s].told = sock[s].told
        /\ sock'[s].mem = sock[s].mem /\ sock'[s].proto = sock[s].proto
        /\ sock'[s].dns = TRUE /\ sock'[s].delayed = sock[s].delayed
        /\ sock'[s].jobs = sock[s].jobs /\ lookup'[s] = "pending"
        /\ sock'[s].fd = sock[s].fd
      BY <1>1, <1>2, <1>5 DEF Socket
  <2>2. /\ Shape'
        /\ \A t \in Sockets : /\ Closing(t)' <=> Closing(t)
                              /\ Owner(t)' = Owner(t)
    <3>1. \A t \in Sockets : sock'[t].fd = sock[t].fd
        BY <2>1
    <3> QED BY <1>1, <1>2, <1>5, <3>1 DEF Shape, Closing, Owner
  <2>3. ASSUME NEW t \in Sockets \ {s} PROVE Same(t)
      BY <1>2, <1>3, <1>5, <2>1, <2>2 DEF Same
  <2>4. DueInv(s)'
      BY <1>1, <1>2, <1>3, <2>1, <2>2 DEF SocketInv, DueInv, Live
  <2>5. StateInv(s)'
      BY <1>1, <1>2, <1>3, <2>1, <2>2 DEF SocketInv, StateInv, Live
  <2>6. ASSUME NEW d \in Items(stack'), d.s = s PROVE CallInv(d)'
    <3>1. CallInv(d) /\ d.at # "connecting"
        BY <1>1, <1>2, <1>5, <2>6, UserTop DEF SocketInv
    <3> QED BY <1>2, <1>3, <2>1, <2>6, <3>1 DEF CallInv, Live
  <2> QED BY <2>2, <2>3, <2>4, <2>5, <2>6, LocalStep DEF SocketInv
<1> QED BY <1>4, <1>5 DEF APE_socket_connect

\* A call of the application leaves the calls and the timers as they are.
LEMMA UserLeaves ==
    ASSUME SafeInv, InUserCode, NEW s \in Sockets,
           UNCHANGED <<todo, batch, loop>>
    PROVE  Leaves(s, stack)
<1>1. Shape
    BY DEF SafeInv
<1> QED BY <1>1, UserTop DEF Leaves, Closing, Shape

\* What the application may close, if it is safe.
LEMMA Closable ==
    ASSUME SafeInv, Safe, NEW s \in Sockets, MayClose(s)
    PROVE  /\ Live(s) /\ InUserCode /\ On("connected", s) \notin Pending
           /\ SocketInv(s)
  BY DEF MayClose, Refers, Safe, SafeInv

\* The callbacks of a close keep it.
LEMMA CloseCallsSafe ==
    ASSUME SafeInv, Safe, Typed', NEW s \in Sockets,
           UserShutdown(s) \/ APE_socket_shutdown_now(s) \/ ape_socket_destroy(s)
    PROVE  SafeInv'
<1>1. MayClose(s) /\ UNCHANGED <<todo, batch, loop>>
    BY DEF UserShutdown, APE_socket_shutdown_now, ape_socket_destroy
<1>2. /\ Leaves(s, stack) /\ Live(s) /\ On("connected", s) \notin Pending
      /\ SocketInv(s)
    BY <1>1, Closable, UserLeaves
<1>3. CASE UserShutdown(s)
    BY <1>1, <1>2, <1>3, ShutdownSafe DEF UserShutdown
<1>4. ASSUME BeginClose(s, {}, stack), sock[s].state \notin {"OFFLINE", "SHUTDOWN"}
      PROVE  SafeInv'
  <2>1. On("destroy", s) \notin Items(timers) \union Items(todo')
      BY <1>1, <1>2, <1>4, PendingIs DEF SocketInv, DueInv
  <2> QED BY <1>2, <1>4, <2>1, BeginCloseSafe
<1>5. CASE APE_socket_shutdown_now(s)
    BY <1>2, <1>4, <1>5, ApeShutdownSafe DEF APE_socket_shutdown_now
<1>6. CASE ape_socket_destroy(s)
    BY <1>4, <1>6 DEF ape_socket_destroy, Safe
<1> QED BY <1>3, <1>5, <1>6

\* APE_socket_shutdown_delay keeps it.
LEMMA DelaySafe ==
    ASSUME SafeInv, Safe, Typed', NEW s \in Sockets, APE_socket_shutdown_delay(s)
    PROVE  SafeInv'
<1>1. /\ Shape /\ sock \in [Sockets -> Socket] /\ sock[s] \in Socket
      /\ \A t \in Sockets : SocketInv(t)
    BY DEF SafeInv, Typed, CoreTyped
<1>2. /\ UNCHANGED <<open, registered, lookup, todo, batch, loop, stack>>
      /\ Live(s) /\ ~sock[s].delayed /\ Dispatch("delay", s)
      /\ sock[s].proto = "UDP" => sock[s].state # "PENDING"
      /\ sock[s].proto = "UDP" => On("connected", s) \notin Pending
      /\ sock' = [sock EXCEPT ![s].delayed = TRUE]
    BY DEF APE_socket_shutdown_delay, Refers, Safe
<1>3. On("delay", s) \notin Pending
    BY <1>1, <1>2 DEF SocketInv, DueInv
<1>4. /\ Pending' = Pending \union {On("delay", s)}
      /\ Distinct(timers') /\ Items(timers') \intersect Items(todo') = {}
    BY <1>1, <1>2, <1>3, Dispatched, PendingIs DEF Shape
<1>5. Shape' /\ \A t \in Sockets : Closing(t)' <=> Closing(t)
    BY <1>1, <1>2, <1>4 DEF Shape, Closing
<1>6. /\ \A t \in Sockets \ {s} : sock'[t] = sock[t]
      /\ sock'[s].state = sock[s].state /\ sock'[s].told = sock[s].told
      /\ sock'[s].mem = sock[s].mem /\ sock'[s].proto = sock[s].proto
      /\ sock'[s].dns = sock[s].dns /\ sock'[s].delayed
      /\ sock'[s].jobs = sock[s].jobs /\ sock'[s].fd = sock[s].fd
    BY <1>1, <1>2 DEF Socket
<1>7. \A t \in Sockets : Owner(t)' = Owner(t)
  <2>1. \A t \in Sockets : sock'[t].fd = sock[t].fd
      BY <1>6
  <2> QED BY <1>2, <2>1 DEF Owner
<1>8. ASSUME NEW t \in Sockets \ {s} PROVE Same(t)
    BY <1>2, <1>4, <1>5, <1>6, <1>7, OnIs DEF Same
<1>9. \A cb \in {"free", "destroy", "connected"} :
          On(cb, s) \in Pending' <=> On(cb, s) \in Pending
    BY <1>4, OnIs
<1>10. On("connected", s) \notin Pending
    BY <1>1, <1>2 DEF SocketInv, DueInv
<1>11. DueInv(s)'
    BY <1>1, <1>2, <1>5, <1>6, <1>9, <1>10 DEF SocketInv, DueInv, Live
<1>12. StateInv(s)'
    BY <1>1, <1>2, <1>5, <1>6, <1>7, <1>9 DEF SocketInv, StateInv, Live
<1>13. ASSUME NEW d \in Items(stack'), d.s = s PROVE CallInv(d)'
  <2>1. CallInv(d) /\ d.at # "undelay"
      BY <1>1, <1>2, <1>13 DEF SocketInv, CallInv
  <2> QED BY <1>2, <1>6, <1>13, <2>1 DEF CallInv, Live
<1> QED BY <1>5, <1>8, <1>11, <1>12, <1>13, LocalStep DEF SocketInv

\* APE_socket_write keeps it.
LEMMA WriteSafe ==
    ASSUME SafeInv, Safe, Typed', NEW s \in Sockets, APE_socket_write(s)
    PROVE  SafeInv'
<1>1. /\ MayClose(s) /\ UNCHANGED <<todo, batch, loop>>
      /\ sock[s].state = "ONLINE"
    BY DEF APE_socket_write
<1>2. /\ Leaves(s, stack) /\ Live(s) /\ On("connected", s) \notin Pending
    BY <1>1, Closable, UserLeaves
<1>3. CASE ApeShutdown(s, stack)
    BY <1>1, <1>2, <1>3, ApeShutdownSafe
<1>4. CASE /\ sock' = [sock EXCEPT ![s].jobs = "data", ![s].blocked = TRUE]
           /\ UNCHANGED <<open, registered, nfd, lookup, timers, stack>>
  <2>1. sock \in [Sockets -> Socket] /\ sock[s] \in Socket /\ Stacked(stack')
      BY <1>4 DEF SafeInv, Typed, CoreTyped, Shape
  <2>2. /\ \A t \in Sockets \ {s} : sock'[t] = sock[t]
        /\ sock'[s].state = sock[s].state /\ sock'[s].told = sock[s].told
        /\ sock'[s].mem = sock[s].mem /\ sock'[s].proto = sock[s].proto
        /\ sock'[s].dns = sock[s].dns /\ sock'[s].delayed = sock[s].delayed
        /\ sock'[s].type = sock[s].type /\ sock'[s].fd = sock[s].fd
      BY <1>4, <2>1 DEF Socket
  <2> QED BY <1>1, <1>2, <1>4, <2>1, <2>2, CallStep
<1> QED BY <1>3, <1>4 DEF APE_socket_write

-----------------------------------------------------------------------------
(* What returns.                                                           *)

\* The end of a close keeps it.
LEMMA EndCloseSafe ==
    ASSUME SafeInv, Typed', EndClose
    PROVE  SafeInv'
<1>0. /\ stack # <<>> /\ Frame1.at = "on_disconnect" /\ Frame1.s \in Sockets
    BY Innermost DEF EndClose, At
<1> PICK s \in Sockets : s = Frame1.s
    BY <1>0
<1>1. /\ Shape /\ sock \in [Sockets -> Socket] /\ timers \in Seq(Timer)
      /\ todo \in Seq(Timer)
      /\ open \in [Fds -> Sockets \union {NoSocket}]
      /\ NoSocket \notin Sockets
      /\ \A t \in Sockets : SocketInv(t)
    BY SocketsAssumption DEF SafeInv, Typed, CoreTyped, SocketsAssumption
<1>2. /\ Frame1.at = "on_disconnect" /\ stack # <<>>
      /\ open' = [open EXCEPT ![sock[s].fd] = NoSocket]
      /\ registered' = registered \ {Owner(s)}
      /\ stack' = Below
      /\ IF "free" \in Frame1.arg
         THEN Free(s, todo)
         ELSE Dispatch("free", s) /\ UNCHANGED <<sock, todo>>
      /\ UNCHANGED <<lookup, batch, loop>>
    BY DEF EndClose, At
<1>3. /\ s \in Sockets /\ CallInv(Frame1)
      /\ Items(stack) = {Frame1} \union Items(Below) /\ Stacked(Below)
      /\ \A d \in Items(Below) : ~(d.at = "on_disconnect" /\ d.s = s)
      /\ Outermost(Frame1) => Below = <<>>
      /\ Frame1 \in Items(stack)
    BY <1>2, Innermost
<1>4. Live(s) /\ sock[s].state = "OFFLINE" /\ Closing(s)
    BY <1>2, <1>3 DEF CallInv, Closing
<1>5. /\ On("free", s) \notin Pending /\ On("destroy", s) \notin Pending
      /\ On("connected", s) \notin Pending
    BY <1>1, <1>3, <1>4 DEF SocketInv, DueInv
<1>6. /\ s \notin registered'
      /\ \A t \in registered' : /\ t \in registered /\ Owner(t) = t
                                /\ sock[t].fd # sock[s].fd
                                /\ open'[sock[t].fd] = t
  <2>1. \A t \in registered : t \in Sockets /\ Owner(t) = t
      BY <1>1 DEF SocketInv, StateInv, SafeInv, Typed, CoreTyped
  <2>2. \A t \in registered' : t \in registered /\ sock[t].fd # sock[s].fd
      BY <1>1, <1>2, <2>1 DEF Owner
  <2>3. \A t \in registered' : open'[sock[t].fd] = t
      BY <1>1, <1>2, <2>1, <2>2 DEF Owner
  <2> QED BY <2>1, <2>2, <2>3
<1>7. CASE "free" \in Frame1.arg
  <2>1. Below = <<>> /\ loop = "timers" /\ stack' = <<>>
      BY <1>2, <1>3, <1>7 DEF Outermost, CallInv
  <2>2. \A c \in Items(stack) : c.at = "on_disconnect" /\ c.s = s
      BY <1>2, <1>3, <2>1, ItemsEmpty
  <2> QED BY <1>1, <1>2, <1>3, <1>4, <1>5, <1>6, <1>7, <2>1, <2>2, FreeSafe,
             PendingIs DEF Shape
<1>8. CASE "free" \notin Frame1.arg
  <2>1. Dispatch("free", s) /\ UNCHANGED <<sock, todo>>
      BY <1>2, <1>8
  <2>2. /\ Pending' = Pending \union {On("free", s)}
        /\ Distinct(timers') /\ Items(timers') \intersect Items(todo') = {}
      BY <1>1, <1>3, <1>5, <2>1, Dispatched, PendingIs DEF Shape
  <2>3. Shape'
      BY <1>1, <1>2, <1>3, <2>1, <2>2 DEF Shape
  <2>4. /\ \A t \in Sockets \ {s} : Closing(t) => Closing(t)'
        /\ ~Closing(s)'
      BY <1>2, <1>3 DEF Closing
  <2>5. ASSUME NEW t \in Sockets \ {s} PROVE Same(t)
    <3>1. t \in registered' => t \in registered /\ Owner(t)' = Owner(t)
        BY <1>1, <1>2, <1>6, <2>1 DEF Owner
    <3> QED BY <1>2, <1>3, <2>1, <2>2, <2>4, <3>1, OnIs DEF Same
  <2>6. \A cb \in {"destroy", "connected", "delay"} :
            On(cb, s) \in Pending' <=> On(cb, s) \in Pending
      BY <2>2, OnIs
  <2>7. DueInv(s)'
      BY <1>1, <1>3, <1>4, <2>1, <2>4, <2>6 DEF SocketInv, DueInv, Live
  <2>8. StateInv(s)'
      BY <1>1, <1>2, <1>3, <1>4, <1>6, <2>1, <2>2 DEF SocketInv, StateInv, Live
  <2>9. ASSUME NEW d \in Items(stack'), d.s = s PROVE CallInv(d)'
    <3>1. CallInv(d)
        BY <1>1, <1>2, <1>3, <2>9 DEF SocketInv
    <3> QED BY <1>2, <1>3, <2>1, <2>6, <2>9, <3>1 DEF CallInv, Live
  <2> QED BY <1>3, <2>3, <2>5, <2>7, <2>8, <2>9, LocalStep DEF SocketInv
<1> QED BY <1>7, <1>8

\* A call that returns leaves what is below it, unless it closes a socket.
LEMMA BelowLeaves ==
    ASSUME SafeInv, stack # <<>>, Frame1.at # "on_disconnect",
           NEW s \in Sockets, UNCHANGED <<todo, batch, loop>>
    PROVE  Leaves(s, Below)
<1>1. Shape
    BY DEF SafeInv
<1> QED BY <1>1, Innermost DEF Leaves, Closing, Shape

\* ape_socket_connect_ready_to_connect keeps it.
LEMMA ReadyToConnectSafe ==
    ASSUME SafeInv, Typed', ReadyToConnect
    PROVE  SafeInv'
<1>0. /\ stack # <<>> /\ Frame1.at = "connecting" /\ Frame1.s \in Sockets
    BY Innermost DEF ReadyToConnect, At
<1> PICK s \in Sockets : s = Frame1.s
    BY <1>0
<1> DEFINE udp == sock[s].proto = "UDP"
<1>1. /\ Shape /\ sock \in [Sockets -> Socket]
      /\ \A t \in Sockets : SocketInv(t)
    BY DEF SafeInv, Typed, CoreTyped
<1>2. /\ Frame1.at = "connecting" /\ stack # <<>>
      /\ UNCHANGED <<todo, batch, loop>>
      /\ \/ BeginClose(s, {}, Below)
         \/ /\ stack' = Below
            /\ UNCHANGED <<sock, open, registered, nfd, lookup, timers>>
         \/ /\ Owner(s) = s
            /\ sock' = [sock EXCEPT ![s].type = "CLIENT",
                                    ![s].state = IF udp THEN "ONLINE"
                                                        ELSE "PROGRESS"]
            /\ registered' = registered \union {s}
            /\ IF udp THEN Dispatch("connected", s) ELSE UNCHANGED timers
            /\ stack' = Below
            /\ UNCHANGED <<open, lookup>>
    BY DEF ReadyToConnect, At
<1>3. /\ s \in Sockets /\ CallInv(Frame1) /\ Stacked(Below)
      /\ Items(stack) = {Frame1} \union Items(Below)
      /\ \A d \in Items(Below) : d.at # "connecting"
      /\ Frame1 \in Items(stack)
    BY <1>2, Innermost
<1>4. Leaves(s, Below)
    BY <1>2, <1>3, BelowLeaves
<1>5. Live(s) /\ sock[s].state = "PENDING" /\ ~sock[s].dns
    BY <1>2, <1>3 DEF CallInv
<1>6. /\ \A cb \in {"free", "destroy", "connected"} : On(cb, s) \notin Pending
      /\ ~Closing(s)
    BY <1>1, <1>3, <1>5 DEF SocketInv, DueInv, CallInv, Closing
<1>7. CASE BeginClose(s, {}, Below)
  <2>1. On("destroy", s) \notin Items(timers) \union Items(todo')
      BY <1>2, <1>6, PendingIs
  <2> QED BY <1>3, <1>4, <1>5, <1>6, <1>7, <2>1, BeginCloseSafe
<1>8. CASE /\ stack' = Below
           /\ UNCHANGED <<sock, open, registered, nfd, lookup, timers>>
    BY <1>2, <1>8, PopStep
<1>9. CASE /\ Owner(s) = s
           /\ sock' = [sock EXCEPT ![s].type = "CLIENT",
                                   ![s].state = IF udp THEN "ONLINE"
                                                       ELSE "PROGRESS"]
           /\ registered' = registered \union {s}
           /\ IF udp THEN Dispatch("connected", s) ELSE UNCHANGED timers
           /\ stack' = Below
           /\ UNCHANGED <<open, lookup>>
  <2>1. sock[s] \in Socket
      BY <1>1, <1>3
  <2>2. /\ \A t \in Sockets \ {s} : sock'[t] = sock[t]
        /\ sock'[s].state = IF udp THEN "ONLINE" ELSE "PROGRESS"
        /\ sock'[s].type = "CLIENT" /\ sock'[s].told = sock[s].told
        /\ sock'[s].mem = sock[s].mem /\ sock'[s].proto = sock[s].proto
        /\ sock'[s].dns = sock[s].dns /\ sock'[s].delayed = sock[s].delayed
        /\ sock'[s].jobs = sock[s].jobs /\ sock'[s].fd = sock[s].fd
      BY <1>1, <1>3, <1>9, <2>1 DEF Socket
  <2>3. \A t \in Sockets : Owner(t)' = Owner(t)
    <3>1. \A t \in Sockets : sock'[t].fd = sock[t].fd
        BY <2>2
    <3>2. open' = open
        BY <1>9
    <3> QED BY <3>1, <3>2 DEF Owner
  <2>4. /\ Pending' = IF udp THEN Pending \union {On("connected", s)}
                             ELSE Pending
        /\ Distinct(timers') /\ Items(timers') \intersect Items(todo') = {}
    <3>1. CASE udp
        BY <1>1, <1>2, <1>3, <1>6, <1>9, <3>1, Dispatched, PendingIs DEF Shape
    <3>2. CASE ~udp
        BY <1>1, <1>2, <1>9, <3>2 DEF Shape, Pending
    <3> QED BY <3>1, <3>2
  <2>5. /\ Shape'
        /\ \A t \in Sockets : Closing(t)' <=> Closing(t)
      BY <1>1, <1>2, <1>3, <1>9, <2>4 DEF Shape, Closing
  <2>6. ASSUME NEW t \in Sockets \ {s} PROVE Same(t)
    <3>1. \A cb \in {"free", "destroy", "connected", "delay"} :
              On(cb, t) \in Pending' <=> On(cb, t) \in Pending
        BY <2>4, OnIs
    <3> QED BY <1>2, <1>3, <1>9, <2>2, <2>3, <2>5, <3>1 DEF Same
  <2>7. /\ \A cb \in {"free", "destroy", "delay"} :
              On(cb, s) \in Pending' <=> On(cb, s) \in Pending
        /\ On("connected", s) \in Pending' => udp
      BY <1>6, <2>4, OnIs
  <2>8. DueInv(s)'
    <3>1. udp => sock[s].jobs = "none" /\ ~sock[s].delayed
        BY <1>1, <1>3, <1>5 DEF SocketInv, StateInv
    <3> QED BY <1>1, <1>3, <1>5, <1>6, <2>2, <2>5, <2>7, <3>1
            DEF SocketInv, DueInv, Live
  <2>9. StateInv(s)'
      BY <1>1, <1>2, <1>3, <1>5, <1>9, <2>2, <2>3 DEF SocketInv, StateInv, Live
  <2>10. ASSUME NEW d \in Items(stack'), d.s = s PROVE CallInv(d)'
    <3>1. CallInv(d) /\ d.at \notin {"connecting", "on_disconnect"}
        BY <1>1, <1>3, <1>6, <1>9, <2>10 DEF SocketInv, Closing
    <3> QED BY <1>2, <2>2, <2>7, <2>10, <3>1 DEF CallInv, Live
  <2> QED BY <1>3, <2>5, <2>6, <2>8, <2>9, <2>10, LocalStep DEF SocketInv
<1> QED BY <1>2, <1>7, <1>8, <1>9

\* The end of a delayed shutdown keeps it.
LEMMA DelayReturnSafe ==
    ASSUME SafeInv, Typed', DelayReturn
    PROVE  SafeInv'
<1>0. /\ stack # <<>> /\ Frame1.at = "undelay" /\ Frame1.s \in Sockets
    BY Innermost DEF DelayReturn, At
<1> PICK s \in Sockets : s = Frame1.s
    BY <1>0
<1>1. /\ Shape /\ sock \in [Sockets -> Socket]
      /\ \A t \in Sockets : SocketInv(t)
    BY DEF SafeInv, Typed, CoreTyped
<1>2. /\ Frame1.at = "undelay" /\ stack # <<>> /\ stack' = Below
      /\ sock' = [sock EXCEPT ![s].delayed = FALSE]
      /\ UNCHANGED <<open, registered, lookup, timers, todo, batch, loop>>
    BY DEF DelayReturn, At
<1>3. /\ s \in Sockets /\ CallInv(Frame1) /\ Below = <<>>
      /\ Items(stack) = {Frame1} \union Items(Below)
    BY <1>2, Innermost DEF Outermost
<1>4. Items(stack') = {} /\ Stacked(stack')
    BY <1>2, <1>3, ItemsEmpty
<1>5. On("delay", s) \notin Pending
    BY <1>2, <1>3 DEF CallInv
<1>6. /\ \A t \in Sockets \ {s} : sock'[t] = sock[t]
      /\ sock'[s].state = sock[s].state /\ sock'[s].told = sock[s].told
      /\ sock'[s].mem = sock[s].mem /\ sock'[s].proto = sock[s].proto
      /\ sock'[s].dns = sock[s].dns /\ ~sock'[s].delayed
      /\ sock'[s].jobs = sock[s].jobs /\ sock'[s].fd = sock[s].fd
      /\ sock'[s].type = sock[s].type
  <2>1. sock[s] \in Socket
      BY <1>1, <1>3
  <2> QED BY <1>1, <1>2, <1>3, <2>1 DEF Socket
<1>7. /\ Shape' /\ Pending' = Pending
      /\ \A t \in Sockets : Closing(t)' <=> Closing(t)
  <2>1. \A t \in Sockets : ~Closing(t) /\ ~Closing(t)'
      BY <1>2, <1>3, <1>4, ItemsEmpty DEF Closing
  <2> QED BY <1>1, <1>2, <1>4, <2>1 DEF Shape, Pending
<1>8. \A t \in Sockets : Owner(t)' = Owner(t)
  <2>1. \A t \in Sockets : sock'[t].fd = sock[t].fd
      BY <1>6
  <2> QED BY <1>2, <2>1 DEF Owner
<1>9. ASSUME NEW t \in Sockets \ {s} PROVE Same(t)
    BY <1>2, <1>4, <1>6, <1>7, <1>8 DEF Same
<1>10. DueInv(s)'
    BY <1>1, <1>3, <1>5, <1>6, <1>7 DEF SocketInv, DueInv, Live
<1>11. StateInv(s)'
    BY <1>1, <1>2, <1>3, <1>6, <1>7, <1>8 DEF SocketInv, StateInv, Live
<1> QED BY <1>3, <1>4, <1>7, <1>9, <1>10, <1>11, LocalStep DEF SocketInv

-----------------------------------------------------------------------------
(* What the loop does for an event.                                        *)

\* The poll keeps it.
LEMMA PollSafe ==
    ASSUME SafeInv, Typed', Poll
    PROVE  SafeInv'
<1>1. Shape /\ stack = <<>> /\ loop' = "batch"
      /\ UNCHANGED <<sock, open, registered, lookup, timers, todo, stack>>
      /\ loop = "poll"
    BY DEF SafeInv, Poll, Idle
<1>2. Items(batch') \subseteq registered
    BY DEF Poll, Items
<1>3. Shape' /\ Items(stack) = {}
    BY <1>1, ItemsEmpty DEF Shape
<1>4. ASSUME NEW t \in Sockets PROVE Same(t)
    BY <1>1, <1>2, <1>3 DEF Same, Pending, Closing, Owner
<1> QED BY <1>3, <1>4, NoStep

\* The end of a batch keeps it.
LEMMA BatchEndSafe ==
    ASSUME SafeInv, Typed', BatchEnd
    PROVE  SafeInv'
<1>1. /\ Shape /\ stack = <<>> /\ batch = <<>>
      /\ todo' = timers /\ timers' = <<>>
      /\ UNCHANGED <<sock, open, registered, lookup, batch, stack>>
      /\ loop = "batch" /\ loop' = "timers"
    BY DEF SafeInv, BatchEnd, Idle
<1>2. Items(stack) = {} /\ Items(timers') = {} /\ Distinct(timers')
    BY <1>1, ItemsEmpty
<1>3. Shape'
    BY <1>1, <1>2 DEF Shape
<1>4. Pending' = Pending
    BY <1>1, <1>2, PendingIs, PendingNext DEF Shape
<1>5. ASSUME NEW t \in Sockets PROVE Same(t)
    BY <1>1, <1>2, <1>4 DEF Same, Closing, Owner
<1> QED BY <1>3, <1>5, NoStep

\* The end of a pass over the timers keeps it.
LEMMA TimersEndSafe ==
    ASSUME SafeInv, Typed', TimersEnd
    PROVE  SafeInv'
<1>1. /\ Shape /\ stack = <<>> /\ loop = "timers" /\ loop' = "poll"
      /\ UNCHANGED <<sock, open, registered, lookup, timers, todo, batch, stack>>
      /\ todo = <<>>
    BY DEF SafeInv, TimersEnd, Idle
<1>2. Items(stack) = {} /\ Shape'
    BY <1>1, ItemsEmpty DEF Shape
<1>3. ASSUME NEW t \in Sockets PROVE Same(t)
    BY <1>1, <1>2 DEF Same, Pending, Closing, Owner
<1> QED BY <1>2, <1>3, NoStep

\* The next event of a batch.
LEMMA EventSafe ==
    ASSUME SafeInv, Typed', loop = "batch", stack = <<>>, batch # <<>>,
           NEW s \in Sockets, s = Head(batch), Live(s), batch' = Tail(batch),
           UNCHANGED <<open, registered, lookup, timers, todo, loop>>,
           UNCHANGED sock \/ sock' = [sock EXCEPT ![s].blocked = FALSE],
           NEW at \in {"accept", "recvfrom", "client"}, NEW arg \in Args,
           "free" \notin arg, stack' = <<Call(at, s, arg)>>
    PROVE  SafeInv'
<1>1. /\ sock \in [Sockets -> Socket] /\ sock[s] \in Socket
      /\ batch \in Seq(Sockets)
    BY DEF SafeInv, Typed, CoreTyped
<1>2. Items(batch') \subseteq Items(batch)
    BY <1>1, ItemsPop
<1>3. /\ \A t \in Sockets \ {s} : sock'[t] = sock[t]
      /\ sock'[s].state = sock[s].state /\ sock'[s].told = sock[s].told
      /\ sock'[s].mem = sock[s].mem /\ sock'[s].proto = sock[s].proto
      /\ sock'[s].dns = sock[s].dns /\ sock'[s].delayed = sock[s].delayed
      /\ sock'[s].type = sock[s].type /\ sock'[s].fd = sock[s].fd
      /\ sock'[s].jobs = sock[s].jobs
  <2>1. CASE UNCHANGED sock
      BY <2>1
  <2>2. CASE sock' = [sock EXCEPT ![s].blocked = FALSE]
      BY <1>1, <2>2 DEF Socket
  <2> QED BY <2>1, <2>2
<1>4. /\ Items(stack) = {} /\ Stacked(<<>>) /\ <<>> \in Seq(Calls)
      /\ Items(<<>>) = {}
    BY ItemsEmpty
<1>5. at \in (Callbacks \union Suspended)
             \ {"main", "connecting", "on_disconnect", "undelay"}
    BY DEF Suspended
<1>6. Call(at, s, arg) \in Calls
    BY <1>5, CallTyped
<1>7. stack' = <<Call(at, s, arg)>> \o <<>>
    BY <1>6
<1>8. /\ Stacked(stack')
      /\ \A d \in Items(stack') : d \in Items(<<>>) \/ Plain(d, s)
  <2> DEFINE q == <<Call(at, s, arg)>> \o <<>>
  <2>1. /\ Stacked(q)
        /\ \A d \in Items(q) : d \in Items(<<>>) \/ Plain(d, s)
      BY <1>4, <1>5, PushPlain
  <2> QED BY <1>7, <2>1
<1> QED BY <1>2, <1>3, <1>4, <1>8, CallStep

\* The dispatch of an event keeps it.
LEMMA EventsSafe ==
    ASSUME SafeInv, Typed', ServerEvent \/ ClientEvent
    PROVE  SafeInv'
<1> DEFINE s == Head(batch)
<1>1. /\ loop = "batch" /\ stack = <<>> /\ batch # <<>> /\ Live(s)
      /\ batch' = Tail(batch)
      /\ UNCHANGED <<open, registered, lookup, timers, todo, loop>>
    BY DEF ServerEvent, ClientEvent, Idle
<1>2. s \in Sockets
    BY <1>1 DEF SafeInv, Typed
<1>3. CASE ServerEvent
  <2>1. \E at \in {"accept", "recvfrom"} : stack' = <<Call(at, s, {})>>
      BY <1>3 DEF ServerEvent
  <2>2. {} \in Args /\ UNCHANGED sock
      BY <1>3 DEF ServerEvent, Args
  <2> QED BY <1>1, <1>2, <2>1, <2>2, EventSafe
<1>4. CASE ClientEvent
  <2>1. PICK bits \in SUBSET {"readable", "writable"} :
            /\ sock' = IF "writable" \in bits
                       THEN [sock EXCEPT ![s].blocked = FALSE] ELSE sock
            /\ stack' = <<Call("client", s, bits)>>
      BY <1>4 DEF ClientEvent
  <2>2. bits \in Args /\ "free" \notin bits
      BY DEF Args
  <2> QED BY <1>1, <1>2, <2>1, <2>2, EventSafe
<1> QED BY <1>3, <1>4

\* A client's event, from one part to the next.
LEMMA PartSafe ==
    ASSUME SafeInv, Typed', stack # <<>>, NEW s \in Sockets, Live(s),
           Frame1.at # "on_disconnect",
           UNCHANGED <<sock, open, registered, lookup, timers, todo, batch, loop>>,
           Stacked(stack'),
           \A d \in Items(stack') : d \in Items(Below) \/ Plain(d, s),
           \A d \in Items(Below) : d \in Items(stack')
    PROVE  SafeInv'
  BY Innermost, CallStep

\* The write of the same event, when there is one.
LEMMA ThenWriteIs ==
    ASSUME SafeInv, stack # <<>>, NEW s \in Sockets, NEW bits
    PROVE  LET q == ThenWrite(s, bits)
           IN  /\ q \in Seq(Calls) /\ Stacked(q)
               /\ \A d \in Items(q) : d.at # "connecting"
               /\ \A d \in Items(q) : d \in Items(Below) \/ Plain(d, s)
               /\ \A d \in Items(Below) : d \in Items(q)
<1>1. /\ "write" \in (Callbacks \union Suspended)
                     \ {"main", "connecting", "on_disconnect", "undelay"}
      /\ {} \in Args
    BY DEF Suspended, Args
<1>2. Below \in Seq(Calls) /\ Stacked(Below)
      /\ \A d \in Items(Below) : d.at # "connecting"
    BY Innermost
<1>3. CASE "writable" \in bits
    BY <1>1, <1>2, <1>3, PushPlain DEF ThenWrite
<1>4. CASE "writable" \notin bits
    BY <1>2, <1>4 DEF ThenWrite
<1> QED BY <1>3, <1>4

\* A read keeps it.
LEMMA ReadSafe ==
    ASSUME SafeInv, Typed', ape_socket_read
    PROVE  SafeInv'
<1>1. /\ stack # <<>> /\ Frame1.at = "client" /\ sock[Frame1.s].proto = "TCP"
      /\ UNCHANGED <<sock, open, registered, lookup, timers, todo, batch, loop>>
    BY DEF ape_socket_read, At
<1>2. /\ Frame1.s \in Sockets /\ CallInv(Frame1) /\ Frame1.arg \in Args
      /\ Below \in Seq(Calls) /\ Stacked(Below)
      /\ \A d \in Items(Below) : d.at # "connecting"
    BY <1>1, Innermost
<1>3. PICK s \in Sockets : s = Frame1.s
    BY <1>2
<1>4. Live(s) /\ "free" \notin Frame1.arg
    BY <1>1, <1>2, <1>3 DEF CallInv
<1>5. CASE stack' = ThenWrite(s, Frame1.arg)
    BY <1>1, <1>4, <1>5, ThenWriteIs, PartSafe
<1>6. ASSUME NEW data \in BOOLEAN, NEW ended \in SUBSET {"ended"},
             stack' = (IF data THEN <<Call("on_read", s, {})>> ELSE <<>>)
                      \o <<Call("afterread", s, Frame1.arg \union ended)>>
                      \o Below
      PROVE  SafeInv'
  <2> DEFINE arg == Frame1.arg \union ended
             q   == <<Call("afterread", s, arg)>> \o Below
  <2>1. arg \in Args /\ {} \in Args /\ "free" \notin arg /\ "free" \notin {}
      BY <1>2, <1>4 DEF Args
  <2>2. /\ "afterread" \in (Callbacks \union Suspended)
                \ {"main", "connecting", "on_disconnect", "undelay"}
        /\ "on_read" \in (Callbacks \union Suspended)
                \ {"main", "connecting", "on_disconnect", "undelay"}
      BY DEF Suspended, Callbacks
  <2>3. /\ q \in Seq(Calls) /\ Stacked(q)
        /\ \A d \in Items(q) : d.at # "connecting"
        /\ \A d \in Items(q) : d \in Items(Below) \/ Plain(d, s)
        /\ \A d \in Items(Below) : d \in Items(q)
    <3>1. sock[s].proto = "TCP"
        BY <1>1, <1>3
    <3> HIDE DEF arg
    <3> QED BY <1>2, <2>1, <2>2, <3>1, PushPlain
  <2>4. /\ Call("afterread", s, arg) \in Calls
        /\ Call("on_read", s, {}) \in Calls
      BY <2>1, <2>2, CallTyped
  <2>5. stack' = IF data THEN <<Call("on_read", s, {})>> \o q ELSE q
    <3> DEFINE x == Call("on_read", s, {})
               y == Call("afterread", s, arg)
    <3> HIDE DEF x, y
    <3>1. /\ <<x>> \in Seq(Calls) /\ <<y>> \in Seq(Calls)
          /\ Below \in Seq(Calls)
        BY <1>2, <2>4 DEF x, y
    <3>2. (<<x>> \o <<y>>) \o Below = <<x>> \o (<<y>> \o Below)
        BY <3>1, ConcatAssociative
    <3>3. <<>> \o <<y>> = <<y>>
        BY <3>1
    <3>4. stack' = (IF data THEN <<x>> ELSE <<>>) \o <<y>> \o Below
        BY <1>6 DEF x, y
    <3> QED BY <3>2, <3>3, <3>4 DEF x, y
  <2> HIDE DEF q, arg
  <2>6. /\ Stacked(stack')
        /\ \A d \in Items(stack') : d \in Items(Below) \/ Plain(d, s)
        /\ \A d \in Items(Below) : d \in Items(stack')
    <3>1. CASE data
        BY <2>1, <2>2, <2>3, <2>5, <3>1, PushPlain
    <3>2. CASE ~data
        BY <2>3, <2>5, <3>2
    <3> QED BY <3>1, <3>2
  <2> QED BY <1>1, <1>4, <2>6, PartSafe
<1> QED BY <1>3, <1>5, <1>6 DEF ape_socket_read

\* What follows a read keeps it.
LEMMA AfterReadSafe ==
    ASSUME SafeInv, Typed', AfterRead
    PROVE  SafeInv'
<1>1. /\ stack # <<>> /\ Frame1.at = "afterread"
      /\ UNCHANGED <<todo, batch, loop>>
    BY DEF AfterRead, At
<1>2. Frame1.s \in Sockets /\ CallInv(Frame1)
    BY <1>1, Innermost
<1>3. PICK s \in Sockets : s = Frame1.s
    BY <1>2
<1>4. Live(s) /\ sock[s].proto = "TCP" /\ SocketInv(s) /\ Leaves(s, Below)
    BY <1>1, <1>2, <1>3, BelowLeaves DEF CallInv, SafeInv
<1>5. CASE /\ stack' = ThenWrite(s, Frame1.arg)
           /\ UNCHANGED <<sock, open, registered, nfd, lookup, timers>>
    BY <1>1, <1>4, <1>5, ThenWriteIs, PartSafe
<1>6. CASE /\ stack' = Below
           /\ UNCHANGED <<sock, open, registered, nfd, lookup, timers>>
    BY <1>1, <1>6, PopStep
<1>7. CASE /\ sock[s].state \notin {"OFFLINE", "SHUTDOWN"}
           /\ BeginClose(s, {}, Below)
  <2>1. /\ On("connected", s) \notin Pending
        /\ On("destroy", s) \notin Items(timers) \union Items(todo')
      BY <1>1, <1>4, <1>7, PendingIs DEF SocketInv, DueInv
  <2> QED BY <1>4, <1>7, <2>1, BeginCloseSafe
<1> QED BY <1>3, <1>5, <1>6, <1>7 DEF AfterRead

\* A read from a UDP socket keeps it.
LEMMA ReadUdpSafe ==
    ASSUME SafeInv, Typed', ClientReadUdp
    PROVE  SafeInv'
<1>1. /\ stack # <<>> /\ Frame1.at = "client"
      /\ UNCHANGED <<sock, open, registered, lookup, timers, todo, batch, loop>>
    BY DEF ClientReadUdp, At
<1>2. Frame1.s \in Sockets /\ CallInv(Frame1)
    BY <1>1, Innermost
<1>3. PICK s \in Sockets : s = Frame1.s
    BY <1>2
<1> DEFINE q == ThenWrite(s, Frame1.arg)
<1>4. Live(s)
    BY <1>2, <1>3 DEF CallInv
<1>5. /\ q \in Seq(Calls) /\ Stacked(q)
      /\ \A d \in Items(q) : d.at # "connecting"
      /\ \A d \in Items(q) : d \in Items(Below) \/ Plain(d, s)
      /\ \A d \in Items(Below) : d \in Items(q)
    BY <1>1, ThenWriteIs
<1> HIDE DEF q
<1>6. stack' = (IF "readable" \in Frame1.arg
                THEN <<Call("recvfrom", s, {})>> ELSE <<>>) \o q
    BY <1>3 DEF ClientReadUdp, q
<1>7. CASE "readable" \in Frame1.arg
  <2>1. /\ "recvfrom" \in (Callbacks \union Suspended)
                \ {"main", "connecting", "on_disconnect", "undelay"}
        /\ {} \in Args
      BY DEF Suspended, Args
  <2>2. /\ Stacked(stack')
        /\ \A d \in Items(stack') : d \in Items(q) \/ Plain(d, s)
        /\ \A d \in Items(q) : d \in Items(stack')
      BY <1>5, <1>6, <1>7, <2>1, PushPlain
  <2> QED BY <1>1, <1>4, <1>5, <2>2, PartSafe
<1>8. CASE "readable" \notin Frame1.arg
  <2>1. stack' = q
      BY <1>5, <1>6, <1>8, ConcatEmptySeq
  <2> QED BY <1>1, <1>4, <1>5, <2>1, PartSafe
<1> QED BY <1>7, <1>8

\* The write event of a client keeps it.
LEMMA ClientWriteSafe ==
    ASSUME SafeInv, Typed', ClientWrite
    PROVE  SafeInv'
<1>1. /\ stack # <<>> /\ Frame1.at = "write"
      /\ UNCHANGED <<todo, batch, loop>>
    BY DEF ClientWrite, At
<1>2. /\ Frame1.s \in Sockets /\ CallInv(Frame1)
      /\ Below \in Seq(Calls) /\ Stacked(Below)
      /\ \A d \in Items(Below) : d.at # "connecting"
    BY <1>1, Innermost
<1>3. PICK s \in Sockets : s = Frame1.s
    BY <1>2
<1>4. /\ Live(s) /\ SocketInv(s) /\ Leaves(s, Below)
      /\ sock \in [Sockets -> Socket] /\ sock[s] \in Socket
    BY <1>1, <1>2, <1>3, BelowLeaves DEF CallInv, SafeInv, Typed, CoreTyped
<1>5. \/ /\ sock[s].state = "ONLINE" /\ sock[s].jobs # "none"
         /\ ape_socket_do_jobs(s)
      \/ sock[s].state = "PROGRESS" /\ Connection(s)
      \/ /\ stack' = Below
         /\ UNCHANGED <<sock, open, registered, nfd, lookup, timers>>
    BY <1>3 DEF ClientWrite
<1>6. ASSUME NEW at \in {"on_drain", "on_connected"}
      PROVE  LET q == <<Call(at, s, {})>> \o Below
             IN  /\ q \in Seq(Calls) /\ Stacked(q)
                 /\ \A d \in Items(q) : d \in Items(Below) \/ Plain(d, s)
                 /\ \A d \in Items(Below) : d \in Items(q)
  <2>1. /\ at \in (Callbacks \union Suspended)
                  \ {"main", "connecting", "on_disconnect", "undelay"}
        /\ {} \in Args
      BY DEF Callbacks, Args
  <2> QED BY <1>2, <2>1, PushPlain
<1>7. CASE /\ sock[s].state = "ONLINE" /\ sock[s].jobs # "none"
           /\ ape_socket_do_jobs(s)
  <2>1. On("connected", s) \notin Pending
      BY <1>4, <1>7 DEF SocketInv, DueInv
  <2>2. CASE ApeShutdown(s, Below)
      BY <1>4, <1>7, <2>1, <2>2, ApeShutdownSafe
  <2>3. CASE /\ \/ /\ sock' = [sock EXCEPT ![s].blocked = TRUE]
                   /\ stack' = Below
                \/ /\ sock' = [sock EXCEPT ![s].jobs = "none"]
                   /\ stack' = <<Call("on_drain", s, {})>> \o Below
             /\ UNCHANGED <<open, registered, nfd, lookup, timers>>
    <3>1. /\ \A t \in Sockets \ {s} : sock'[t] = sock[t]
          /\ sock'[s].state = sock[s].state /\ sock'[s].told = sock[s].told
          /\ sock'[s].mem = sock[s].mem /\ sock'[s].proto = sock[s].proto
          /\ sock'[s].dns = sock[s].dns /\ sock'[s].delayed = sock[s].delayed
          /\ sock'[s].type = sock[s].type /\ sock'[s].fd = sock[s].fd
        BY <1>4, <2>3 DEF Socket
    <3>2. /\ Stacked(stack')
          /\ \A d \in Items(stack') : d \in Items(Below) \/ Plain(d, s)
          /\ \A d \in Items(Below) : d \in Items(stack')
        BY <1>2, <1>6, <2>3
    <3>3. Items(stack) = {Frame1} \union Items(Below)
        BY <1>1, Innermost
    <3>4. UNCHANGED <<open, registered, lookup, timers, todo, batch, loop>>
        BY <1>1, <2>3
    <3> HIDE <2>3
    <3> QED BY <1>1, <1>4, <1>7, <2>1, <3>1, <3>2, <3>3, <3>4, CallStep
  <2> QED BY <1>7, <2>2, <2>3 DEF ape_socket_do_jobs
<1>8. CASE sock[s].state = "PROGRESS" /\ BeginClose(s, {}, Below)
  <2>1. /\ On("connected", s) \notin Pending
        /\ On("destroy", s) \notin Items(timers) \union Items(todo')
      BY <1>1, <1>4, <1>8, PendingIs DEF SocketInv, DueInv
  <2> QED BY <1>4, <1>8, <2>1, BeginCloseSafe
<1>9. CASE /\ sock[s].state = "PROGRESS"
           /\ sock' = [sock EXCEPT ![s].state = "ONLINE"]
           /\ stack' = <<Call("on_connected", s, {})>> \o Below
           /\ UNCHANGED <<open, registered, nfd, lookup, timers>>
  <2>1. /\ \A t \in Sockets \ {s} : sock'[t] = sock[t]
        /\ sock'[s].state = "ONLINE" /\ sock'[s].told = sock[s].told
        /\ sock'[s].mem = sock[s].mem /\ sock'[s].proto = sock[s].proto
        /\ sock'[s].dns = sock[s].dns /\ sock'[s].delayed = sock[s].delayed
        /\ sock'[s].type = sock[s].type /\ sock'[s].fd = sock[s].fd
      BY <1>4, <1>9 DEF Socket
  <2>2. /\ Stacked(stack')
        /\ \A d \in Items(stack') : d \in Items(Below) \/ Plain(d, s)
        /\ \A d \in Items(Below) : d \in Items(stack')
        /\ Items(stack) = {Frame1} \union Items(Below)
      BY <1>1, <1>6, <1>9, Innermost
  <2>3. \A t \in Sockets : Owner(t)' = Owner(t)
    <3>1. \A t \in Sockets : sock'[t].fd = sock[t].fd
        BY <2>1
    <3>2. open' = open
        BY <1>9
    <3> QED BY <3>1, <3>2 DEF Owner
  <2>4. /\ UNCHANGED <<registered, lookup, timers, todo, batch, loop>>
        /\ Pending' = Pending
      BY <1>1, <1>9 DEF Pending
  <2>5. /\ Shape'
        /\ \A t \in Sockets : Closing(t)' <=> Closing(t)
    <3>1. Shape
        BY DEF SafeInv
    <3> QED BY <1>1, <2>2, <2>4, <3>1 DEF Shape, Closing, Plain
  <2>6. ASSUME NEW t \in Sockets \ {s} PROVE Same(t)
      BY <2>1, <2>2, <2>3, <2>4, <2>5 DEF Same, Plain
  <2>7. DueInv(s)'
      BY <1>4, <1>9, <2>1, <2>4, <2>5 DEF SocketInv, DueInv, Live
  <2>8. StateInv(s)'
      BY <1>4, <1>9, <2>1, <2>3, <2>4, <2>5 DEF SocketInv, StateInv, Live
  <2>9. ASSUME NEW d \in Items(stack'), d.s = s PROVE CallInv(d)'
    <3>1. CASE d \in Items(Below)
      <4>1. CallInv(d) /\ d.at \notin {"connecting", "on_disconnect"}
          BY <1>4, <1>9, <2>2, <2>9, <3>1 DEF SocketInv, CallInv
      <4> QED BY <2>1, <2>4, <2>9, <4>1 DEF CallInv, Live
    <3>2. CASE Plain(d, s)
        BY <1>4, <2>1, <2>9, <3>2 DEF CallInv, Live, Plain
    <3> QED BY <2>2, <2>9, <3>1, <3>2
  <2> QED BY <2>5, <2>6, <2>7, <2>8, <2>9, LocalStep DEF SocketInv
<1>10. CASE /\ stack' = Below
            /\ UNCHANGED <<sock, open, registered, nfd, lookup, timers>>
    BY <1>1, <1>10, PopStep
<1> QED BY <1>5, <1>7, <1>8, <1>9, <1>10 DEF Connection

-----------------------------------------------------------------------------
(* What the timers do.                                                     *)

\* The pass comes to a timer of a socket.
LEMMA Due ==
    ASSUME SafeInv, NEW cb, Fires(cb)
    PROVE  /\ Head(todo).s \in Sockets /\ Live(Head(todo).s)
           /\ Head(todo) = On(cb, Head(todo).s)
           /\ Head(todo) \in Pending /\ SocketInv(Head(todo).s)
           /\ loop = "timers" /\ stack = <<>> /\ todo # <<>>
           /\ Items(stack) = {}
           /\ \A s \in Sockets : ~Closing(s)
<1>1. /\ loop = "timers" /\ stack = <<>> /\ todo # <<>>
      /\ Head(todo).cb = cb /\ Live(Head(todo).s)
    BY DEF Fires, Idle
<1>2. Items(stack) = {}
    BY <1>1, ItemsEmpty
<1> QED BY <1>1, <1>2, Visited DEF SafeInv, Closing

\* The deferred release keeps it.
LEMMA FreeTimerSafe ==
    ASSUME SafeInv, Typed', ape_socket_free
    PROVE  SafeInv'
<1>1. /\ Fires("free") /\ Free(Head(todo).s, Tail(todo))
      /\ UNCHANGED <<open, registered, nfd, lookup, batch, loop, stack>>
    BY DEF ape_socket_free
<1>2. PICK s \in Sockets : s = Head(todo).s
    BY <1>1, Due
<1>3. /\ Live(s) /\ Head(todo) = On("free", s) /\ SocketInv(s)
      /\ On("free", s) \in Pending /\ Items(stack) = {}
      /\ loop = "timers" /\ stack = <<>> /\ todo # <<>> /\ ~Closing(s)
    BY <1>1, <1>2, Due
<1>4. sock[s].state = "OFFLINE" /\ s \notin registered
    BY <1>3 DEF SocketInv, DueInv, StateInv
<1>5. /\ Tail(todo) \in Seq(Timer) /\ Distinct(Tail(todo))
      /\ Items(todo) = {On("free", s)} \union Items(Tail(todo))
      /\ On("free", s) \notin Items(timers) \union Items(Tail(todo))
    BY <1>3, Visited
<1>6. \A t \in registered : open[sock[t].fd] = t
  <2>1. \A t \in registered : t \in Sockets /\ Owner(t) = t /\ t # NoSocket
      BY SocketsAssumption
         DEF SafeInv, Typed, CoreTyped, SocketInv, StateInv, SocketsAssumption
  <2> QED BY <2>1 DEF Owner
<1>7. /\ stack' = <<>> /\ registered' = registered
      /\ \A t \in registered' : t \in registered /\ open'[sock[t].fd] = t
    BY <1>1, <1>3, <1>6
<1> QED BY <1>1, <1>2, <1>3, <1>4, <1>5, <1>7, FreeSafe

\* A timer that ends its socket: the others stay.
LEMMA FiredLeaves ==
    ASSUME SafeInv, NEW cb \in {"destroy", "delay"}, Fires(cb),
           NEW s \in Sockets, s = Head(todo).s,
           todo' = Tail(todo), UNCHANGED <<batch, loop>>,
           NEW rest \in {<<>>, <<Call("undelay", s, {})>>},
           rest # <<>> => cb = "delay"
    PROVE  Leaves(s, rest)
<1>1. /\ Head(todo) = On(cb, s) /\ todo # <<>> /\ SocketInv(s)
      /\ Items(stack) = {} /\ On(cb, s) \in Pending
      /\ \A t \in Sockets : ~Closing(t)
    BY Due
<1>2. /\ Distinct(todo') /\ Items(todo') \subseteq Items(todo)
      /\ Items(todo) = {On(cb, s)} \union Items(todo')
      /\ On(cb, s) \notin Items(timers) \union Items(todo')
    BY <1>1, Visited
<1>3. \A t \in Items(todo) \ Items(todo') : t.s = s /\ t.cb # "free"
    BY <1>2 DEF On
<1>4. CASE rest = <<>>
  <2>1. Items(rest) = {} /\ Stacked(rest) /\ rest \in Seq(Calls)
      BY <1>4, ItemsEmpty
  <2> QED BY <1>1, <1>2, <1>3, <2>1 DEF Leaves
<1>5. CASE rest = <<Call("undelay", s, {})>> /\ cb = "delay"
  <2> DEFINE c == Call("undelay", s, {})
  <2>1. "undelay" \in Callbacks \union Suspended /\ {} \in Args
      BY DEF Suspended, Args
  <2>2. rest \in Seq(Calls) /\ Stacked(rest) /\ Items(rest) = {c}
      BY <1>5, <2>1, FirstCall
  <2>6. sock[s].delayed
      BY <1>1, <1>5 DEF SocketInv, DueInv
  <2>7. c.at # "connecting"
      BY CallIs
  <2> HIDE DEF c
  <2> QED BY <1>1, <1>2, <1>3, <1>5, <2>6, <2>7, <2>2 DEF Leaves, c
<1> QED BY <1>4, <1>5

\* The deferred destruction keeps it.
LEMMA DestroyTimerSafe ==
    ASSUME SafeInv, Typed', _ape_socket_destroy
    PROVE  SafeInv'
<1>1. /\ Fires("destroy") /\ todo' = Tail(todo) /\ UNCHANGED <<batch, loop>>
    BY DEF _ape_socket_destroy
<1>2. PICK s \in Sockets : s = Head(todo).s
    BY <1>1, Due
<1>3. /\ Live(s) /\ Head(todo) = On("destroy", s) /\ SocketInv(s)
      /\ On("destroy", s) \in Pending /\ loop = "timers" /\ todo # <<>>
    BY <1>1, <1>2, Due
<1>4. sock[s].state = "SHUTDOWN"
    BY <1>3 DEF SocketInv, DueInv
<1>5. BeginClose(s, {"free"}, <<>>)
    BY <1>2, <1>4 DEF _ape_socket_destroy
<1>6. /\ On("connected", s) \notin Pending
      /\ On("destroy", s) \notin Items(timers) \union Items(todo')
    BY <1>1, <1>3, <1>4, Visited DEF SocketInv, DueInv
<1>7. Leaves(s, <<>>)
    BY <1>1, <1>2, FiredLeaves
<1> QED BY <1>3, <1>4, <1>5, <1>6, <1>7, BeginCloseSafe

\* The timer of a delayed shutdown keeps it.
LEMMA DelayTimerSafe ==
    ASSUME SafeInv, Typed', ape_socket_shutdown_delay_cb
    PROVE  SafeInv'
<1>1. /\ Fires("delay") /\ todo' = Tail(todo) /\ UNCHANGED <<batch, loop>>
    BY DEF ape_socket_shutdown_delay_cb
<1>2. PICK s \in Sockets : s = Head(todo).s
    BY <1>1, Due
<1>3. /\ Live(s) /\ Head(todo) = On("delay", s) /\ SocketInv(s)
      /\ On("delay", s) \in Pending /\ todo # <<>>
    BY <1>1, <1>2, Due
<1>4. APE_socket_shutdown(s, <<Call("undelay", s, {})>>)
    BY <1>2 DEF ape_socket_shutdown_delay_cb
<1>5. On("connected", s) \notin Pending
    BY <1>3 DEF SocketInv, DueInv
<1>6. \A t \in Items(todo) \ Items(todo') : t.cb # "destroy"
    BY <1>1, <1>3, Visited DEF On
<1>7. Leaves(s, <<Call("undelay", s, {})>>)
    BY <1>1, <1>2, FiredLeaves
<1> QED BY <1>3, <1>4, <1>5, <1>6, <1>7, ShutdownSafe

\* A delay that is not over keeps it.
LEMMA DelayNotDueSafe ==
    ASSUME SafeInv, Typed', DelayNotDue
    PROVE  SafeInv'
<1>1. /\ Fires("delay") /\ todo' = Tail(todo)
      /\ timers' = Append(timers, Head(todo))
      /\ UNCHANGED <<sock, open, registered, lookup, batch, loop, stack>>
    BY DEF DelayNotDue
<1>2. /\ todo # <<>> /\ loop = "timers"
    BY <1>1, Due
<1>3. /\ timers \in Seq(Timer) /\ Distinct(timers) /\ Shape
      /\ todo \in Seq(Timer) /\ Head(todo) \in Timer
    BY <1>2 DEF SafeInv, Typed, CoreTyped, Shape
<1>4. /\ Items(timers') = Items(timers) \union {Head(todo)}
      /\ Distinct(timers')
      /\ Items(todo) = {Head(todo)} \union Items(todo')
      /\ Head(todo) \notin Items(todo') /\ Distinct(todo')
      /\ Items(timers) \intersect Items(todo') = {}
    BY <1>1, <1>2, <1>3, ItemsAppend, Visited
<1>5. Pending' = Pending
    BY <1>4, PendingIs, PendingNext
<1>6. Shape'
    BY <1>1, <1>2, <1>3, <1>4 DEF Shape
<1>7. ASSUME NEW t \in Sockets PROVE Same(t)
    BY <1>1, <1>5 DEF Same, Closing, Owner
<1> QED BY <1>6, <1>7, NoStep

\* The deferred on_connected keeps it.
LEMMA ConnectedTimerSafe ==
    ASSUME SafeInv, Typed', ape_socket_connected
    PROVE  SafeInv'
<1>1. /\ Fires("connected") /\ todo' = Tail(todo)
      /\ stack' = <<Call("on_connected", Head(todo).s, {})>>
      /\ UNCHANGED <<sock, open, registered, lookup, timers, batch, loop>>
    BY DEF ape_socket_connected
<1>2. PICK s \in Sockets : s = Head(todo).s
    BY <1>1, Due
<1>3. /\ Live(s) /\ Head(todo) = On("connected", s) /\ SocketInv(s)
      /\ todo # <<>> /\ Items(stack) = {} /\ loop = "timers"
      /\ \A t \in Sockets : ~Closing(t)
    BY <1>1, <1>2, Due
<1>4. /\ Distinct(todo') /\ Items(timers) \intersect Items(todo') = {}
      /\ Pending' = Pending \ {On("connected", s)}
    BY <1>1, <1>3, Visited, PendingNext
<1> DEFINE c == Call("on_connected", s, {})
<1>5. Items(stack') = {c} /\ Stacked(stack')
  <2>1. "on_connected" \in Callbacks \union Suspended /\ {} \in Args
      BY DEF Callbacks, Args
  <2> QED BY <1>1, <1>2, <2>1, FirstCall
<1>6. c.at = "on_connected" /\ c.s = s /\ c.arg = {}
    BY CallIs
<1> HIDE DEF c
<1>7. Shape'
  <2>1. Shape
      BY DEF SafeInv
  <2> QED BY <1>1, <1>3, <1>4, <1>5, <2>1 DEF Shape
<1>8. \A t \in Sockets : ~Closing(t)' /\ Owner(t)' = Owner(t)
    BY <1>1, <1>5, <1>6 DEF Closing, Owner
<1>9. ASSUME NEW t \in Sockets \ {s} PROVE Same(t)
    BY <1>1, <1>3, <1>4, <1>5, <1>6, <1>8, OnIs DEF Same
<1>10. DueInv(s)'
    BY <1>1, <1>3, <1>4, <1>8 DEF SocketInv, DueInv, Live
<1>11. StateInv(s)'
    BY <1>1, <1>3, <1>4, <1>8, OnIs DEF SocketInv, StateInv, Live
<1>12. ASSUME NEW d \in Items(stack'), d.s = s PROVE CallInv(d)'
    BY <1>1, <1>3, <1>5, <1>6, <1>12 DEF CallInv, Live
<1> QED BY <1>7, <1>9, <1>10, <1>11, <1>12, LocalStep DEF SocketInv

-----------------------------------------------------------------------------
(* What peers do.                                                          *)

\* A datagram keeps it.
LEMMA DatagramSafe ==
    ASSUME SafeInv, Typed', ape_socket_read_udp
    PROVE  SafeInv'
<1>1. /\ stack # <<>> /\ Frame1.at = "recvfrom"
      /\ stack' = <<Call("on_message", Frame1.s, Foreign(Frame1.s))>> \o stack
      /\ UNCHANGED <<sock, open, registered, lookup, timers, todo, batch, loop>>
    BY DEF ape_socket_read_udp, At
<1>2. Frame1.s \in Sockets /\ CallInv(Frame1)
    BY <1>1, Innermost
<1>3. PICK s \in Sockets : s = Frame1.s
    BY <1>2
<1>4. Live(s)
    BY <1>2, <1>3 DEF CallInv
<1>5. /\ stack \in Seq(Calls) /\ Stacked(stack)
      /\ \A d \in Items(stack) : d.at # "connecting"
    BY <1>1, Innermost DEF SafeInv, Typed, CoreTyped, Shape
<1>6. /\ Foreign(s) \in Args /\ "free" \notin Foreign(s)
      /\ "on_message" \in (Callbacks \union Suspended)
              \ {"main", "connecting", "on_disconnect", "undelay"}
    BY DEF Foreign, Args, Callbacks
<1>7. /\ Stacked(stack')
      /\ \A d \in Items(stack') : d \in Items(stack) \/ Plain(d, s)
      /\ \A d \in Items(stack) : d \in Items(stack')
    BY <1>1, <1>3, <1>5, <1>6, PushPlain
<1> QED BY <1>1, <1>4, <1>7, CallStep

\* accept keeps it.
LEMMA AcceptSafe ==
    ASSUME SafeInv, Typed', NEW c \in Sockets, ape_socket_accept(c)
    PROVE  SafeInv'
<1>1. /\ stack # <<>> /\ Frame1.at = "accept"
      /\ sock[c].mem = "none" /\ FreeFds # {}
      /\ sock' = [sock EXCEPT ![c] = [Fresh("TCP") EXCEPT !.state = "ONLINE",
                                                          !.type = "CLIENT"]]
      /\ open' = [open EXCEPT ![LowestFd] = c]
      /\ registered' = registered \union {c}
      /\ stack' = <<Call("on_connect", Frame1.s, Foreign(Frame1.s))>> \o stack
      /\ UNCHANGED <<lookup, timers, todo, batch, loop>>
    BY DEF ape_socket_accept, At
<1>2. Frame1.s \in Sockets /\ CallInv(Frame1)
    BY <1>1, Innermost
<1>3. PICK s \in Sockets : s = Frame1.s
    BY <1>2
<1>4. /\ Live(s) /\ s # c /\ Shape
      /\ sock \in [Sockets -> Socket] /\ open \in [Fds -> Sockets \union {NoSocket}]
      /\ \A t \in Sockets : SocketInv(t)
    BY <1>1, <1>2, <1>3 DEF CallInv, Live, SafeInv, Typed, CoreTyped
<1>5. /\ stack \in Seq(Calls) /\ Stacked(stack)
      /\ \A d \in Items(stack) : d.at # "connecting"
    BY <1>1, Innermost DEF SafeInv, Typed, CoreTyped, Shape
<1>6. /\ Foreign(s) \in Args /\ "free" \notin Foreign(s)
      /\ "on_connect" \in (Callbacks \union Suspended)
              \ {"main", "connecting", "on_disconnect", "undelay"}
    BY DEF Foreign, Args, Callbacks
<1>7. /\ Stacked(stack')
      /\ \A d \in Items(stack') : d \in Items(stack) \/ Plain(d, s)
      /\ \A d \in Items(stack) : d \in Items(stack')
    BY <1>1, <1>3, <1>5, <1>6, PushPlain
<1>8. /\ Pending' = Pending /\ Shape'
      /\ \A t \in Sockets : Closing(t)' <=> Closing(t)
    BY <1>1, <1>4, <1>7 DEF Pending, Closing, Shape, Plain
<1>9. /\ \A t \in Sockets \ {c} : sock'[t] = sock[t]
      /\ sock'[c].told = 0 /\ sock'[c].mem = "live" /\ ~sock'[c].dns
      /\ sock'[c].jobs = "none" /\ sock'[c].state = "ONLINE"
      /\ ~sock'[c].delayed /\ sock'[c].fd = LowestFd
    BY <1>1, <1>4 DEF Fresh, Blank
<1>10. \A t \in Sockets \ {c} : t \in registered => Owner(t)' = Owner(t)
  <2> SUFFICES ASSUME NEW t \in Sockets \ {c}, t \in registered
               PROVE  Owner(t)' = Owner(t)
      OBVIOUS
  <2>1. Owner(t) = t /\ sock'[t] = sock[t]
      BY <1>4, <1>9 DEF SocketInv, StateInv
  <2> QED BY <1>1, <2>1, Opened
<1>11. Owner(c)' = c
  <2>1. LowestFd \in Fds /\ LowestFd # NoFd
      BY <1>1, LowestFree DEF Fds, NoFd
  <2>2. open'[LowestFd] = c
      BY <1>1, <1>4, <2>1
  <2> QED BY <1>9, <2>1, <2>2 DEF Owner
<1>12. ASSUME NEW t \in Sockets \ {c, s} PROVE Same(t)
    BY <1>1, <1>7, <1>8, <1>9, <1>10, <1>12 DEF Same, Plain
<1>13. SocketInv(c)'
  <2>1. \A d \in Items(stack') : d.s # c
      BY <1>1, <1>4, <1>7, NoneYet DEF Plain
  <2> QED BY <1>1, <1>8, <1>9, <1>11, <2>1, NoneYet
          DEF SocketInv, DueInv, StateInv, Live
<1>14. SocketInv(s)'
  <2>1. DueInv(s)'
      BY <1>1, <1>4, <1>8, <1>9 DEF SocketInv, DueInv, Live
  <2>2. StateInv(s)'
      BY <1>1, <1>4, <1>8, <1>9, <1>10 DEF SocketInv, StateInv, Live
  <2>3. ASSUME NEW d \in Items(stack'), d.s = s PROVE CallInv(d)'
    <3>1. d \in Items(stack) => CallInv(d)
        BY <1>4, <2>3 DEF SocketInv
    <3> QED BY <1>1, <1>4, <1>7, <1>8, <1>9, <2>3, <3>1
            DEF CallInv, Live, Plain
  <2> QED BY <2>1, <2>2, <2>3 DEF SocketInv
<1>15. ASSUME NEW t \in Sockets PROVE SocketInv(t)'
    BY <1>4, <1>12, <1>13, <1>14, SameKeeps
<1> QED BY <1>8, <1>15 DEF SafeInv

\* The answer of a lookup keeps it.
LEMMA DnsReplySafe ==
    ASSUME SafeInv, Typed', NEW s \in Sockets, DnsReply(s)
    PROVE  SafeInv'
<1>1. /\ loop = "batch" /\ stack = <<>> /\ lookup[s] # "none"
      /\ lookup' = [lookup EXCEPT ![s] = "none"]
      /\ UNCHANGED <<open, registered, timers, todo, batch, loop>>
    BY DEF DnsReply, Idle
<1>2. /\ Shape /\ sock \in [Sockets -> Socket] /\ sock[s] \in Socket
      /\ lookup \in [Sockets -> {"none", "pending", "invalidated"}]
      /\ \A t \in Sockets : SocketInv(t)
    BY DEF SafeInv, Typed, CoreTyped
<1>3. /\ Items(stack) = {} /\ Pending' = Pending
      /\ \A t \in Sockets : ~Closing(t)
      /\ \A t \in Sockets \ {s} : lookup'[t] = lookup[t]
      /\ lookup'[s] = "none"
    BY <1>1, <1>2, ItemsEmpty DEF Pending, Closing
<1>4. CASE lookup[s] # "pending"
  <2>1. UNCHANGED <<sock, stack>>
      BY <1>4 DEF DnsReply
  <2>2. Shape' /\ \A t \in Sockets : ~Closing(t)' /\ Owner(t)' = Owner(t)
      BY <1>1, <1>2, <1>3, <2>1 DEF Shape, Closing, Owner
  <2>3. ASSUME NEW t \in Sockets \ {s} PROVE Same(t)
      BY <1>1, <1>3, <2>1, <2>2 DEF Same
  <2>4. SocketInv(s)'
      BY <1>1, <1>2, <1>3, <1>4, <2>1, <2>2
         DEF SocketInv, DueInv, StateInv, Live
  <2> QED BY <2>2, <2>3, <2>4, LocalStep
<1>5. CASE lookup[s] = "pending"
  <2>1. PICK arg \in {{}, {"ended"}} : stack' = <<Call("connecting", s, arg)>>
      BY <1>5 DEF DnsReply
  <2>2. /\ sock' = [sock EXCEPT ![s].dns = FALSE]
        /\ Live(s) /\ sock[s].dns /\ sock[s].state = "PENDING"
      BY <1>2, <1>5 DEF DnsReply, SocketInv, StateInv
  <2>3. /\ \A t \in Sockets \ {s} : sock'[t] = sock[t]
        /\ sock'[s].state = "PENDING" /\ sock'[s].told = sock[s].told
        /\ sock'[s].mem = sock[s].mem /\ sock'[s].proto = sock[s].proto
        /\ sock'[s].dns = FALSE /\ sock'[s].delayed = sock[s].delayed
        /\ sock'[s].jobs = sock[s].jobs /\ sock'[s].fd = sock[s].fd
      BY <1>2, <2>2 DEF Socket
  <2> DEFINE c == Call("connecting", s, arg)
  <2>4. c.at = "connecting" /\ c.s = s /\ "free" \notin c.arg
      BY CallIs
  <2>5. Items(stack') = {c} /\ Stacked(stack')
    <3>1. "connecting" \in Callbacks \union Suspended /\ arg \in Args
        BY DEF Suspended, Args
    <3> QED BY <2>1, <3>1, FirstCall
  <2> HIDE DEF c
  <2>6. Shape' /\ \A t \in Sockets : ~Closing(t)' /\ Owner(t)' = Owner(t)
    <3>1. \A t \in Sockets : sock'[t].fd = sock[t].fd
        BY <2>3
    <3>2. open' = open
        BY <1>1
    <3> QED BY <1>1, <1>2, <2>4, <2>5, <3>1, <3>2 DEF Shape, Closing, Owner
  <2>7. ASSUME NEW t \in Sockets \ {s} PROVE Same(t)
      BY <1>1, <1>3, <2>3, <2>4, <2>5, <2>6 DEF Same
  <2>8. DueInv(s)'
      BY <1>1, <1>2, <1>3, <2>2, <2>3, <2>6 DEF SocketInv, DueInv, Live
  <2>9. StateInv(s)'
      BY <1>1, <1>2, <1>3, <2>2, <2>3, <2>6 DEF SocketInv, StateInv, Live
  <2>10. ASSUME NEW d \in Items(stack'), d.s = s PROVE CallInv(d)'
      BY <2>2, <2>3, <2>4, <2>5, <2>10 DEF CallInv, Live
  <2> QED BY <2>6, <2>7, <2>8, <2>9, <2>10, LocalStep DEF SocketInv
<1> QED BY <1>4, <1>5

-----------------------------------------------------------------------------
(* The invariant.                                                          *)

\* The invariant, at the start.
LEMMA SafeInit == Init => SafeInv
<1> SUFFICES ASSUME Init PROVE SafeInv
    OBVIOUS
<1>1. Typed
    BY TypedInit
<1> DEFINE c == Call("main", NoSocket, {})
<1>2. /\ sock = [s \in Sockets |-> Blank] /\ registered = {}
      /\ lookup = [s \in Sockets |-> "none"]
      /\ timers = <<>> /\ todo = <<>> /\ batch = <<>> /\ loop = "timers"
      /\ stack = <<c>>
    BY DEF Init
<1>3. c.at = "main" /\ c.s = NoSocket /\ c.arg = {} /\ NoSocket \notin Sockets
    BY CallIs, SocketsAssumption DEF SocketsAssumption
<1> HIDE DEF c
<1>4. Items(stack) = {c} /\ Stacked(stack)
    BY <1>2, <1>3 DEF Items, Stacked, Outermost
<1>5. Pending = {} /\ Items(batch) = {} /\ Items(timers) = {} /\ Items(todo) = {}
    BY <1>2, ItemsEmpty, PendingIs
<1>6. Shape
    BY <1>2, <1>4, <1>5, ItemsEmpty DEF Shape
<1>7. \A s \in Sockets : ~Closing(s) /\ \A d \in Items(stack) : d.s # s
    BY <1>3, <1>4 DEF Closing
<1>8. ASSUME NEW s \in Sockets PROVE SocketInv(s)
  <2>1. /\ sock[s].mem = "none" /\ sock[s].state = "PENDING"
        /\ sock[s].told = 0 /\ ~sock[s].dns /\ sock[s].jobs = "none"
        /\ ~sock[s].delayed /\ lookup[s] = "none"
      BY <1>2 DEF Blank
  <2> QED BY <1>2, <1>5, <1>7, <2>1 DEF SocketInv, DueInv, StateInv, Live
<1> QED BY <1>1, <1>6, <1>8 DEF SafeInv

\* No step breaks it.
LEMMA SafeNext == Safe /\ SafeInv /\ [Next]_vars => SafeInv'
<1> SUFFICES ASSUME Safe, SafeInv, [Next]_vars PROVE SafeInv'
    OBVIOUS
<1>0. Typed'
    BY TypedNext DEF SafeInv
<1>1. CASE UserCall
  <2>1. PICK s \in Sockets :
            \/ \E proto \in {"TCP", "UDP"} : APE_socket_new(s, proto)
            \/ APE_socket_listen(s)
            \/ APE_socket_connect(s)
            \/ UserShutdown(s)
            \/ APE_socket_shutdown_now(s)
            \/ APE_socket_shutdown_delay(s)
            \/ ape_socket_destroy(s)
            \/ APE_socket_write(s)
      BY <1>1 DEF UserCall
  <2>2. CASE \E proto \in {"TCP", "UDP"} : APE_socket_new(s, proto)
      BY <1>0, <2>2, NewSafe
  <2>3. CASE APE_socket_listen(s)
      BY <1>0, <2>3, ListenSafe
  <2>4. CASE APE_socket_connect(s)
      BY <1>0, <2>4, ConnectSafe
  <2>5. CASE UserShutdown(s) \/ APE_socket_shutdown_now(s)
             \/ ape_socket_destroy(s)
      BY <1>0, <2>5, CloseCallsSafe
  <2>6. CASE APE_socket_shutdown_delay(s)
      BY <1>0, <2>6, DelaySafe
  <2>7. CASE APE_socket_write(s)
      BY <1>0, <2>7, WriteSafe
  <2> QED BY <2>1, <2>2, <2>3, <2>4, <2>5, <2>6, <2>7
<1>2. CASE CallbackReturn \/ WouldBlock
  <2>1. /\ stack # <<>> /\ Frame1.at # "on_disconnect" /\ stack' = Below
        /\ UNCHANGED <<sock, open, registered, lookup, timers, todo, batch, loop>>
      BY <1>2 DEF CallbackReturn, WouldBlock, At
  <2> QED BY <1>0, <2>1, PopStep
<1>3. CASE EndClose \/ ReadyToConnect \/ DelayReturn
    BY <1>0, <1>3, EndCloseSafe, ReadyToConnectSafe, DelayReturnSafe
<1>4. CASE Poll \/ BatchEnd \/ TimersEnd
    BY <1>0, <1>4, PollSafe, BatchEndSafe, TimersEndSafe
<1>5. CASE ServerEvent \/ ClientEvent
    BY <1>0, <1>5, EventsSafe
<1>6. CASE ape_socket_read \/ AfterRead \/ ClientReadUdp \/ ClientWrite
    BY <1>0, <1>6, ReadSafe, AfterReadSafe, ReadUdpSafe, ClientWriteSafe
<1>7. CASE \/ ape_socket_free \/ _ape_socket_destroy \/ ape_socket_connected
           \/ ape_socket_shutdown_delay_cb \/ DelayNotDue
    BY <1>0, <1>7, FreeTimerSafe, DestroyTimerSafe, ConnectedTimerSafe,
       DelayTimerSafe, DelayNotDueSafe
<1>8. CASE Peer
    BY <1>0, <1>8, DatagramSafe, AcceptSafe, DnsReplySafe DEF Peer
<1>9. CASE UNCHANGED vars
  <2>1. UNCHANGED <<sock, open, registered, lookup, timers, todo, batch, loop,
                    stack>>
      BY <1>9 DEF vars
  <2>2. Shape'
      BY <2>1 DEF SafeInv, Shape
  <2>3. ASSUME NEW t \in Sockets PROVE Same(t)
      BY <2>1 DEF Same, Pending, Closing, Owner
  <2> QED BY <1>0, <2>2, <2>3, NoStep
<1> QED BY <1>1, <1>2, <1>3, <1>4, <1>5, <1>6, <1>7, <1>8, <1>9
        DEF Next, Return, Dispatching, Firing

\* It is true of every state.
LEMMA SafeCorrect ==
    ASSUME Safe
    PROVE  Spec => []SafeInv
<1>1. SafeInv /\ [Next]_vars => SafeInv'
    BY SafeNext
<1> QED BY <1>1, SafeInit, PTL DEF Spec

-----------------------------------------------------------------------------
(* What it says.                                                           *)

\* What occurs at most once occurs once or never.
LEMMA Occurrences ==
    ASSUME NEW q, Distinct(q), NEW x
    PROVE  Cardinality({i \in DOMAIN q : q[i] = x})
              = IF x \in Items(q) THEN 1 ELSE 0
<1> DEFINE its == {i \in DOMAIN q : q[i] = x}
<1>1. CASE x \in Items(q)
  <2>1. PICK i \in DOMAIN q : q[i] = x
      BY <1>1 DEF Items
  <2>2. its = {i}
      BY <2>1 DEF Distinct
  <2> QED BY <1>1, <2>2, FS_Singleton
<1>2. CASE x \notin Items(q)
  <2>1. its = {}
      BY <1>2 DEF Items
  <2> QED BY <1>2, <2>1, FS_EmptySet
<1> QED BY <1>1, <1>2

\* on_disconnect is in progress once at most for a socket.
LEMMA ClosingOnce ==
    ASSUME Stacked(stack), NEW s
    PROVE  Cardinality(Frames("on_disconnect", s))
              = IF Closing(s) THEN 1 ELSE 0
<1>1. CASE Closing(s)
  <2>1. PICK i \in DOMAIN stack : stack[i].at = "on_disconnect" /\ stack[i].s = s
      BY <1>1 DEF Closing, Items
  <2>2. Frames("on_disconnect", s) = {i}
      BY <2>1 DEF Frames, Stacked
  <2> QED BY <1>1, <2>2, FS_Singleton
<1>2. CASE ~Closing(s)
  <2>1. Frames("on_disconnect", s) = {}
      BY <1>2 DEF Frames, Closing, Items
  <2> QED BY <1>2, <2>1, FS_EmptySet
<1> QED BY <1>1, <1>2

\* A timer is pending once or not at all.
LEMMA CountIs ==
    ASSUME Shape, NEW cb, NEW s
    PROVE  Count(cb, s) = IF On(cb, s) \in Pending THEN 1 ELSE 0
<1>1. /\ Distinct(timers) /\ Distinct(todo)
      /\ ~(On(cb, s) \in Items(timers) /\ On(cb, s) \in Items(todo))
    BY DEF Shape
<1>2. Count(cb, s) = (IF On(cb, s) \in Items(timers) THEN 1 ELSE 0)
                     + (IF On(cb, s) \in Items(todo) THEN 1 ELSE 0)
    BY <1>1, Occurrences DEF Count
<1> QED BY <1>1, <1>2, PendingIs

\* It implies NoDangling.
LEMMA SafeNoDangling == SafeInv => NoDangling
<1> SUFFICES ASSUME SafeInv PROVE NoDangling
    OBVIOUS
<1>1. /\ timers \in Seq(Timer) /\ todo \in Seq(Timer) /\ stack \in Seq(Calls)
      /\ \A s \in Sockets : SocketInv(s)
    BY DEF SafeInv, Typed, CoreTyped
<1>2. NoDanglingTimer
  <2>1. \A t \in Pending : t \in Timer
      BY <1>1 DEF Pending
  <2>2. ASSUME NEW t \in Pending PROVE Live(t.s)
    <3>1. /\ t = On(t.cb, t.s) /\ t.s \in Sockets
          /\ t.cb \in {"free", "destroy", "connected", "delay"}
        BY <2>1, OnIs
    <3>2. DueInv(t.s)
        BY <1>1, <3>1 DEF SocketInv
    <3> QED BY <2>2, <3>1, <3>2 DEF DueInv
  <2> QED BY <2>2 DEF NoDanglingTimer
<1>3. NoDanglingCall
  <2>1. ASSUME NEW i \in DOMAIN stack, stack[i].s # NoSocket
        PROVE  Live(stack[i].s)
    <3>1. stack[i] \in Frame
        BY <1>1 DEF Calls
    <3>2. stack[i].s \in Sockets
        BY <2>1, <3>1 DEF Frame
    <3>3. stack[i] \in Items(stack)
        BY DEF Items
    <3> QED BY <1>1, <3>2, <3>3 DEF SocketInv, CallInv
  <2> QED BY <2>1 DEF NoDanglingCall
<1>4. NoDanglingLookup
    BY <1>1 DEF NoDanglingLookup, SocketInv, StateInv
<1> QED BY <1>2, <1>3, <1>4 DEF NoDangling

\* It implies EndsOnce.
LEMMA SafeEndsOnce == SafeInv => EndsOnce
<1> SUFFICES ASSUME SafeInv PROVE EndsOnce
    OBVIOUS
<1>1. /\ Shape /\ Stacked(stack) /\ sock \in [Sockets -> Socket]
      /\ \A s \in Sockets : SocketInv(s)
    BY DEF SafeInv, Typed, CoreTyped, Shape
<1>2. ReleasedOnce
  <2>1. ASSUME NEW s \in Sockets, Live(s)
        PROVE  Count("free", s) + Count("destroy", s)
               + Cardinality(Frames("on_disconnect", s))
               = IF sock[s].state \in {"SHUTDOWN", "OFFLINE"} THEN 1 ELSE 0
    <3>1. /\ Count("free", s) = IF On("free", s) \in Pending THEN 1 ELSE 0
          /\ Count("destroy", s) = IF On("destroy", s) \in Pending THEN 1 ELSE 0
          /\ Cardinality(Frames("on_disconnect", s))
                = IF Closing(s) THEN 1 ELSE 0
        BY <1>1, CountIs, ClosingOnce
    <3>2. Closing(s) => sock[s].state = "OFFLINE"
        BY <1>1 DEF SocketInv, CallInv, Closing
    <3> QED BY <1>1, <2>1, <3>1, <3>2 DEF SocketInv, DueInv, StateInv
  <2> QED BY <2>1 DEF ReleasedOnce
<1>3. DisconnectOnce
    BY <1>1 DEF DisconnectOnce, SocketInv, StateInv
<1> QED BY <1>2, <1>3 DEF EndsOnce

\* It implies NoDanglingEvent.
LEMMA SafeNoDanglingEvent == SafeInv => NoDanglingEvent
<1> SUFFICES ASSUME SafeInv, NEW i \in DOMAIN batch PROVE Live(batch[i])
    BY DEF NoDanglingEvent
<1>1. batch[i] \in Sockets /\ batch[i] \in Items(batch)
    BY DEF SafeInv, Typed, Items
<1> QED BY <1>1 DEF SafeInv, SocketInv, StateInv

\* Whatever an application does that destroys nothing it has already shut down
\* and closes no UDP socket before on_connected, no timer, call in progress
\* or query of c-ares points to a freed structure (ape_socket_close,
\* ape_socket_free): for any number of sockets and any nesting of callbacks.
THEOREM NoDanglingCorrect == ASSUME Safe PROVE Spec => []NoDangling
  BY SafeCorrect, SafeNoDangling, PTL

\* With the same application, a socket that ends has one release left,
\* whichever of its ways to end meet, and is told of it once
\* (ape_socket_destroy, ape_shutdown, ape_socket_close).
THEOREM EndsOnceCorrect == ASSUME Safe PROVE Spec => []EndsOnce
  BY SafeCorrect, SafeEndsOnce, PTL

\* With the same application, no event of a batch points to a freed
\* structure: what is destroyed while the batch is dispatched (APE_loop_run)
\* is released only after it.
THEOREM NoDanglingEventCorrect == ASSUME Safe PROVE Spec => []NoDanglingEvent
  BY SafeCorrect, SafeNoDanglingEvent, PTL

-----------------------------------------------------------------------------
(* What a step begins, and what it makes of a socket.                      *)

\* What is known of a call when it begins.
Begin(c) ==
    /\ c \in Calls /\ c.at # "main" /\ c.s \in Sockets
    /\ c.at = "on_disconnect" => sock[c.s].state # "OFFLINE"
    /\ c.at \in {"on_read", "on_drain", "on_connected"} =>
          sock[c.s].state \in {"PROGRESS", "ONLINE"}
    /\ c.at \in {"on_connect", "on_message"} =>
          /\ stack # <<>> /\ Frame1.s = c.s
          /\ Frame1.at = IF c.at = "on_connect" THEN "accept" ELSE "recvfrom"
          /\ "foreign" \in c.arg => Owner(c.s) # c.s
    /\ c.at \in {"accept", "client"} =>
          /\ loop = "batch" /\ c.s \in Items(batch)
          /\ sock[c.s].type = IF c.at = "client" THEN "CLIENT" ELSE "SERVER"
    /\ c.at = "recvfrom" =>
          \/ /\ loop = "batch" /\ c.s \in Items(batch)
             /\ sock[c.s].type = "SERVER"
          \/ /\ stack # <<>> /\ Frame1.at = "client" /\ Frame1.s = c.s
             /\ sock[c.s].proto = "UDP"
    /\ c.at \in {"afterread", "write"} =>
          /\ stack # <<>> /\ Frame1.at \in {"client", "afterread"}
          /\ Frame1.s = c.s
    /\ c.at \notin {"on_connect", "on_message"} /\ "foreign" \in c.arg =>
          stack # <<>> /\ "foreign" \in Frame1.arg

\* The calls after a step: the innermost may have returned, one or two more
\* begin.
Stepped ==
    \E rest \in Seq(Calls) :
        /\ rest = stack \/ (stack # <<>> /\ rest = Below)
        /\ \/ stack' = rest
           \/ \E c \in Calls : Begin(c) /\ stack' = <<c>> \o rest
           \/ \E c, d \in Calls :
                 Begin(c) /\ Begin(d) /\ stack' = <<c>> \o (<<d>> \o rest)

\* What the ways to end a socket make of it; "direct" if an ONLINE client is
\* closed at once.
Ends(s, rest, direct) ==
    /\ open' = open /\ registered' = registered
    /\ \A t \in Sockets \ {s} : sock'[t] = sock[t]
    /\ sock'[s].mem = sock[s].mem /\ sock'[s].fd = sock[s].fd
    /\ sock'[s].proto = sock[s].proto /\ sock'[s].type = sock[s].type
    /\ \/ sock'[s].state = sock[s].state /\ stack' = rest
       \/ /\ sock'[s].state = "SHUTDOWN" /\ sock[s].state = "ONLINE"
          /\ sock[s].type # "SERVER" /\ stack' = rest
       \/ /\ sock'[s].state = "OFFLINE" /\ sock[s].state # "OFFLINE"
          /\ sock[s].state \in {"ONLINE", "SHUTDOWN"} =>
                sock[s].type = "SERVER" \/ direct
          /\ \E arg \in {{}, {"free"}} :
                stack' = <<Call("on_disconnect", s, arg)>> \o rest

\* Which sockets the begin of a close ends.
LEMMA BeginCloseEnds ==
    ASSUME SafeInv, NEW s \in Sockets, NEW arg \in {{}, {"free"}}, NEW rest,
           BeginClose(s, arg, rest), sock[s].state # "OFFLINE", NEW direct,
           sock[s].state \in {"ONLINE", "SHUTDOWN"} =>
              sock[s].type = "SERVER" \/ direct
    PROVE  Ends(s, rest, direct)
<1>1. sock \in [Sockets -> Socket] /\ sock[s] \in Socket
    BY DEF SafeInv, Typed, CoreTyped
<1>2. /\ \A t \in Sockets \ {s} : sock'[t] = sock[t]
      /\ sock'[s].mem = sock[s].mem /\ sock'[s].fd = sock[s].fd
      /\ sock'[s].proto = sock[s].proto /\ sock'[s].type = sock[s].type
      /\ sock'[s].state = "OFFLINE"
    BY <1>1 DEF BeginClose, Socket
<1> QED BY <1>2 DEF Ends, BeginClose

\* Which sockets ape_shutdown ends.
LEMMA ApeShutdownEnds ==
    ASSUME SafeInv, NEW s \in Sockets, NEW rest, ApeShutdown(s, rest),
           sock[s].state = "ONLINE"
    PROVE  Ends(s, rest, FALSE)
<1>1. sock \in [Sockets -> Socket] /\ sock[s] \in Socket
    BY DEF SafeInv, Typed, CoreTyped
<1>2. CASE sock[s].type = "SERVER"
    BY <1>2, BeginCloseEnds DEF ApeShutdown
<1>3. CASE sock[s].type # "SERVER"
  <2>1. sock' = [sock EXCEPT ![s].state = "SHUTDOWN"]
        /\ stack' = rest /\ UNCHANGED <<open, registered>>
      BY <1>3 DEF ApeShutdown
  <2>2. /\ \A t \in Sockets \ {s} : sock'[t] = sock[t]
        /\ sock'[s].mem = sock[s].mem /\ sock'[s].fd = sock[s].fd
        /\ sock'[s].proto = sock[s].proto /\ sock'[s].type = sock[s].type
        /\ sock'[s].state = "SHUTDOWN"
      BY <1>1, <2>1 DEF Socket
  <2> QED BY <1>3, <2>1, <2>2 DEF Ends
<1> QED BY <1>2, <1>3

\* Which sockets APE_socket_shutdown ends.
LEMMA ShutdownEnds ==
    ASSUME SafeInv, NEW s \in Sockets, NEW rest, APE_socket_shutdown(s, rest)
    PROVE  Ends(s, rest, FALSE)
<1>1. sock \in [Sockets -> Socket] /\ sock[s] \in Socket
    BY DEF SafeInv, Typed, CoreTyped
<1>2. CASE sock[s].state \in {"PENDING", "PROGRESS"} /\ BeginClose(s, {}, rest)
    BY <1>2, BeginCloseEnds
<1>3. CASE sock[s].state = "ONLINE" /\ ApeShutdown(s, rest)
    BY <1>3, ApeShutdownEnds
<1>4. CASE /\ UNCHANGED sock \/ sock' = [sock EXCEPT ![s].jobs = "shutdown"]
           /\ stack' = rest /\ UNCHANGED <<open, registered>>
  <2>1. /\ \A t \in Sockets \ {s} : sock'[t] = sock[t]
        /\ sock'[s].mem = sock[s].mem /\ sock'[s].fd = sock[s].fd
        /\ sock'[s].proto = sock[s].proto /\ sock'[s].type = sock[s].type
        /\ sock'[s].state = sock[s].state
    <3>1. CASE UNCHANGED sock
        BY <3>1
    <3>2. CASE sock' = [sock EXCEPT ![s].jobs = "shutdown"]
        BY <1>1, <3>2 DEF Socket
    <3> QED BY <1>4, <3>1, <3>2
  <2> QED BY <1>4, <2>1 DEF Ends
<1> QED BY <1>2, <1>3, <1>4 DEF APE_socket_shutdown

\* Each action that ends sockets ends one, or leaves them as they are.
LEMMA EndsSteps ==
    ASSUME SafeInv, NEW s \in Sockets, NEW rest, NEW direct,
           Ends(s, rest, direct), rest \in Seq(Calls),
           rest = stack \/ (stack # <<>> /\ rest = Below)
    PROVE  Stepped
<1>1. ASSUME NEW arg \in {{}, {"free"}},
             stack' = <<Call("on_disconnect", s, arg)>> \o rest,
             sock[s].state # "OFFLINE"
      PROVE  Stepped
  <2> DEFINE c == Call("on_disconnect", s, arg)
  <2>1. "on_disconnect" \in Callbacks \union Suspended /\ arg \in Args
      BY DEF Callbacks, Args
  <2>2. c \in Calls
      BY <2>1, CallTyped
  <2>3. c.at = "on_disconnect" /\ c.s = s /\ c.arg = arg
      BY CallIs
  <2> HIDE DEF c
  <2>4. Begin(c)
      BY <1>1, <2>2, <2>3 DEF Begin
  <2>5. stack' = <<c>> \o rest
      BY <1>1 DEF c
  <2> QED BY <2>2, <2>4, <2>5 DEF Stepped
<1>2. stack' = rest => Stepped
    BY DEF Stepped
<1> QED BY <1>1, <1>2 DEF Ends

\* Nothing that matters here changes but the calls.
LEMMA NothingEnds ==
    ASSUME SafeInv, NEW s \in Sockets, NEW rest, NEW direct, stack' = rest,
           UNCHANGED <<open, registered>>,
           \/ UNCHANGED sock
           \/ \E b \in BOOLEAN : sock' = [sock EXCEPT ![s].blocked = b]
           \/ sock' = [sock EXCEPT ![s].jobs = "data", ![s].blocked = TRUE]
    PROVE  Ends(s, rest, direct)
<1>1. sock \in [Sockets -> Socket] /\ sock[s] \in Socket
    BY DEF SafeInv, Typed, CoreTyped
<1>2. /\ \A t \in Sockets \ {s} : sock'[t] = sock[t]
      /\ sock'[s].mem = sock[s].mem /\ sock'[s].fd = sock[s].fd
      /\ sock'[s].proto = sock[s].proto /\ sock'[s].type = sock[s].type
      /\ sock'[s].state = sock[s].state
  <2>1. CASE UNCHANGED sock
      BY <2>1
  <2>2. CASE \E b \in BOOLEAN : sock' = [sock EXCEPT ![s].blocked = b]
      BY <1>1, <2>2 DEF Socket
  <2>3. CASE sock' = [sock EXCEPT ![s].jobs = "data", ![s].blocked = TRUE]
      BY <1>1, <2>3 DEF Socket
  <2> QED BY <2>1, <2>2, <2>3
<1> QED BY <1>2 DEF Ends

\* Which sockets user code ends.
LEMMA UserEnds ==
    ASSUME SafeInv, Safe, NEW s \in Sockets,
           \/ UserShutdown(s) \/ APE_socket_shutdown_now(s)
           \/ ape_socket_destroy(s) \/ APE_socket_write(s)
    PROVE  /\ MayClose(s) /\ UNCHANGED <<todo, batch, loop>>
           /\ \E direct \in BOOLEAN :
                 /\ Ends(s, stack, direct)
                 /\ direct /\ sock[s].proto = "UDP" /\ loop = "batch"
                    => "closeserver" \in Uses
<1>1. MayClose(s) /\ UNCHANGED <<todo, batch, loop>>
    BY DEF UserShutdown, APE_socket_shutdown_now, ape_socket_destroy,
           APE_socket_write
<1>2. CASE UserShutdown(s)
    BY <1>1, <1>2, ShutdownEnds DEF UserShutdown
<1>3. CASE APE_socket_shutdown_now(s)
    BY <1>1, <1>3, ApeShutdownEnds, BeginCloseEnds DEF APE_socket_shutdown_now
<1>4. CASE ape_socket_destroy(s)
  <2>1. Ends(s, stack, TRUE)
      BY <1>4, BeginCloseEnds DEF ape_socket_destroy
  <2> QED BY <1>1, <1>4, <2>1 DEF ape_socket_destroy
<1>5. CASE APE_socket_write(s)
    BY <1>1, <1>5, ApeShutdownEnds, NothingEnds DEF APE_socket_write
<1> QED BY <1>1, <1>2, <1>3, <1>4, <1>5

\* Which sockets a read ends.
LEMMA ReadEnds ==
    ASSUME SafeInv, AfterRead
    PROVE  /\ stack # <<>> /\ Frame1.at = "afterread" /\ Frame1.s \in Sockets
           /\ sock[Frame1.s].proto = "TCP"
           /\ UNCHANGED <<todo, batch, loop>>
           /\ \/ Ends(Frame1.s, Below, TRUE)
              \/ /\ stack' = ThenWrite(Frame1.s, Frame1.arg)
                 /\ UNCHANGED <<sock, open, registered>>
<1>1. /\ stack # <<>> /\ Frame1.at = "afterread"
      /\ UNCHANGED <<todo, batch, loop>>
    BY DEF AfterRead, At
<1>2. Frame1.s \in Sockets /\ sock[Frame1.s].proto = "TCP"
    BY <1>1, Innermost DEF CallInv
<1>3. PICK s \in Sockets : s = Frame1.s
    BY <1>2
<1>4. CASE sock[s].state # "OFFLINE" /\ BeginClose(s, {}, Below)
    BY <1>1, <1>2, <1>3, <1>4, BeginCloseEnds
<1>5. CASE /\ stack' = Below
           /\ UNCHANGED <<sock, open, registered, nfd, lookup, timers>>
    BY <1>1, <1>2, <1>3, <1>5, NothingEnds
<1>6. CASE /\ stack' = ThenWrite(s, Frame1.arg)
           /\ UNCHANGED <<sock, open, registered, nfd, lookup, timers>>
    BY <1>1, <1>2, <1>3, <1>6
<1> QED BY <1>3, <1>4, <1>5, <1>6 DEF AfterRead

\* Which sockets a write ends.
LEMMA WriteEnds ==
    ASSUME SafeInv, ClientWrite
    PROVE  /\ stack # <<>> /\ Frame1.at = "write" /\ Frame1.s \in Sockets
           /\ UNCHANGED <<todo, batch, loop>>
           /\ \/ Ends(Frame1.s, Below, FALSE)
              \/ /\ sock[Frame1.s].state \in {"ONLINE", "PROGRESS"}
                 /\ sock' \in {[sock EXCEPT ![Frame1.s].jobs = "none"],
                               [sock EXCEPT ![Frame1.s].state = "ONLINE"]}
                 /\ UNCHANGED <<open, registered>>
                 /\ \E at \in {"on_drain", "on_connected"} :
                       stack' = <<Call(at, Frame1.s, {})>> \o Below
<1>1. /\ stack # <<>> /\ Frame1.at = "write"
      /\ UNCHANGED <<todo, batch, loop>>
    BY DEF ClientWrite, At
<1>2. Frame1.s \in Sockets
    BY <1>1, Innermost
<1>3. PICK s \in Sockets : s = Frame1.s
    BY <1>2
<1>4. CASE sock[s].state = "ONLINE" /\ ape_socket_do_jobs(s)
  <2>1. CASE ApeShutdown(s, Below)
      BY <1>1, <1>2, <1>3, <1>4, <2>1, ApeShutdownEnds
  <2>2. CASE /\ sock' = [sock EXCEPT ![s].blocked = TRUE] /\ stack' = Below
             /\ UNCHANGED <<open, registered, nfd, lookup, timers>>
      BY <1>1, <1>2, <1>3, <2>2, NothingEnds
  <2>3. CASE /\ sock' = [sock EXCEPT ![s].jobs = "none"]
             /\ stack' = <<Call("on_drain", s, {})>> \o Below
             /\ UNCHANGED <<open, registered, nfd, lookup, timers>>
      BY <1>1, <1>2, <1>3, <1>4, <2>3
  <2> QED BY <1>4, <2>1, <2>2, <2>3 DEF ape_socket_do_jobs
<1>5. CASE sock[s].state = "PROGRESS" /\ BeginClose(s, {}, Below)
    BY <1>1, <1>2, <1>3, <1>5, BeginCloseEnds
<1>6. CASE /\ sock[s].state = "PROGRESS"
           /\ sock' = [sock EXCEPT ![s].state = "ONLINE"]
           /\ stack' = <<Call("on_connected", s, {})>> \o Below
           /\ UNCHANGED <<open, registered, nfd, lookup, timers>>
    BY <1>1, <1>2, <1>3, <1>6
<1>7. CASE /\ stack' = Below
           /\ UNCHANGED <<sock, open, registered, nfd, lookup, timers>>
    BY <1>1, <1>2, <1>3, <1>7, NothingEnds
<1> QED BY <1>3, <1>4, <1>5, <1>6, <1>7 DEF ClientWrite, Connection

\* Which sockets a connect ends.
LEMMA ConnectEnds ==
    ASSUME SafeInv, ReadyToConnect
    PROVE  /\ stack # <<>> /\ Frame1.at = "connecting" /\ Frame1.s \in Sockets
           /\ sock[Frame1.s].state = "PENDING"
           /\ UNCHANGED <<todo, batch, loop>>
           /\ \/ Ends(Frame1.s, Below, FALSE)
              \/ /\ stack' = Below /\ open' = open
                 /\ registered' = registered \union {Frame1.s}
                 /\ sock' = [sock EXCEPT
                       ![Frame1.s].type = "CLIENT",
                       ![Frame1.s].state = IF sock[Frame1.s].proto = "UDP"
                                           THEN "ONLINE" ELSE "PROGRESS"]
<1>1. /\ stack # <<>> /\ Frame1.at = "connecting"
      /\ UNCHANGED <<todo, batch, loop>>
    BY DEF ReadyToConnect, At
<1>2. Frame1.s \in Sockets /\ sock[Frame1.s].state = "PENDING"
    BY <1>1, Innermost DEF CallInv
<1>3. PICK s \in Sockets : s = Frame1.s
    BY <1>2
<1>4. CASE BeginClose(s, {}, Below)
    BY <1>1, <1>2, <1>3, <1>4, BeginCloseEnds
<1>5. CASE /\ stack' = Below
           /\ UNCHANGED <<sock, open, registered, nfd, lookup, timers>>
    BY <1>1, <1>2, <1>3, <1>5, NothingEnds
<1> QED BY <1>1, <1>2, <1>3, <1>4, <1>5 DEF ReadyToConnect

\* Which sockets a timer ends.
LEMMA TimerEnds ==
    ASSUME SafeInv, _ape_socket_destroy \/ ape_socket_shutdown_delay_cb
    PROVE  /\ loop = "timers" /\ stack = <<>> /\ UNCHANGED <<batch, loop>>
           /\ \E s \in Sockets, direct \in BOOLEAN :
                 \E rest \in {<<>>, <<Call("undelay", s, {})>>} :
                    Live(s) /\ Ends(s, rest, direct)
<1>1. CASE _ape_socket_destroy
  <2>1. Fires("destroy") /\ UNCHANGED <<batch, loop>>
      BY <1>1 DEF _ape_socket_destroy
  <2>2. PICK s \in Sockets : s = Head(todo).s
      BY <2>1, Due
  <2>3. /\ loop = "timers" /\ stack = <<>> /\ sock[s].state = "SHUTDOWN"
        /\ Live(s)
      BY <2>1, <2>2, Due DEF SocketInv, DueInv
  <2>4. BeginClose(s, {"free"}, <<>>)
      BY <1>1, <2>2, <2>3 DEF _ape_socket_destroy
  <2>5. Ends(s, <<>>, TRUE)
      BY <2>3, <2>4, BeginCloseEnds
  <2> QED BY <2>1, <2>3, <2>5
<1>2. CASE ape_socket_shutdown_delay_cb
  <2>1. Fires("delay") /\ UNCHANGED <<batch, loop>>
      BY <1>2 DEF ape_socket_shutdown_delay_cb
  <2>2. PICK s \in Sockets : s = Head(todo).s
      BY <2>1, Due
  <2>3. loop = "timers" /\ stack = <<>> /\ Live(s)
      BY <2>1, <2>2, Due
  <2>4. APE_socket_shutdown(s, <<Call("undelay", s, {})>>)
      BY <1>2, <2>2 DEF ape_socket_shutdown_delay_cb
  <2>5. Ends(s, <<Call("undelay", s, {})>>, FALSE)
      BY <2>4, ShutdownEnds
  <2> QED BY <2>1, <2>3, <2>5
<1> QED BY <1>1, <1>2

\* One call begins, about which nothing special is to be known but its place.
LEMMA Begins ==
    ASSUME SafeInv, NEW at \in Callbacks \union Suspended, at # "main",
           NEW s \in Sockets, NEW arg \in Args,
           at = "on_disconnect" => sock[s].state # "OFFLINE",
           at \in {"on_read", "on_drain", "on_connected"} =>
              sock[s].state \in {"PROGRESS", "ONLINE"},
           at \in {"on_connect", "on_message"} =>
              /\ stack # <<>> /\ Frame1.s = s /\ arg = Foreign(s)
              /\ Frame1.at = IF at = "on_connect" THEN "accept" ELSE "recvfrom",
           at \in {"accept", "client"} =>
              /\ loop = "batch" /\ s \in Items(batch)
              /\ sock[s].type = IF at = "client" THEN "CLIENT" ELSE "SERVER",
           at = "recvfrom" =>
              \/ /\ loop = "batch" /\ s \in Items(batch)
                 /\ sock[s].type = "SERVER"
              \/ /\ stack # <<>> /\ Frame1.at = "client" /\ Frame1.s = s
                 /\ sock[s].proto = "UDP",
           at \in {"afterread", "write"} =>
              /\ stack # <<>> /\ Frame1.at \in {"client", "afterread"}
              /\ Frame1.s = s,
           (at \notin {"on_connect", "on_message"} /\ "foreign" \in arg) =>
              (stack # <<>> /\ "foreign" \in Frame1.arg)
    PROVE  Call(at, s, arg) \in Calls /\ Begin(Call(at, s, arg))
<1> DEFINE c == Call(at, s, arg)
<1>1. c \in Calls /\ c.at = at /\ c.s = s /\ c.arg = arg
    BY CallTyped, CallIs
<1>2. "foreign" \in Foreign(s) => Owner(s) # s
    BY DEF Foreign
<1> HIDE DEF c
<1>3. Begin(c)
    BY <1>1, <1>2 DEF Begin
<1> QED BY <1>1, <1>3 DEF c

\* The stack is a sequence of frames.
LEMMA StackTyped ==
    ASSUME SafeInv
    PROVE  /\ stack \in Seq(Calls)
           /\ stack # <<>> => Below \in Seq(Calls)
           /\ <<>> \in Seq(Calls)
           /\ \A c \in Calls : <<c>> \o <<>> = <<c>>
  BY DEF SafeInv, Typed, CoreTyped, Below

\* A call begins and returns to `rest'.
LEMMA OneStep ==
    ASSUME SafeInv, NEW c \in Calls, Begin(c), NEW rest,
           rest = stack \/ (stack # <<>> /\ rest = Below),
           stack' = <<c>> \o rest
    PROVE  Stepped
  BY StackTyped DEF Stepped

\* A call begins on the empty stack.
LEMMA FirstStep ==
    ASSUME SafeInv, NEW c \in Calls, Begin(c), stack = <<>>, stack' = <<c>>
    PROVE  Stepped
  BY StackTyped DEF Stepped

\* Of a client's event: the write, and what is done before it.
LEMMA WriteSteps ==
    ASSUME SafeInv, stack # <<>>, Frame1.at \in {"client", "afterread"},
           Frame1.s \in Sockets, NEW bits, NEW first \in Seq(Calls),
           \/ first = <<>>
           \/ \E c \in Calls : Begin(c) /\ first = <<c>>,
           stack' = first \o ThenWrite(Frame1.s, bits)
    PROVE  Stepped
<1> DEFINE d == Call("write", Frame1.s, {})
<1>1. "write" \in Callbacks \union Suspended /\ {} \in Args
    BY DEF Suspended, Args
<1>2. d \in Calls /\ Begin(d)
    BY <1>1, Begins
<1>3. Below \in Seq(Calls)
    BY StackTyped
<1>4. ThenWrite(Frame1.s, bits) \in {Below, <<d>> \o Below}
    BY DEF ThenWrite
<1> HIDE DEF d
<1>5. <<d>> \o Below \in Seq(Calls)
    BY <1>2, <1>3
<1>6. CASE first = <<>>
  <2>1. stack' \in {Below, <<d>> \o Below}
      BY <1>3, <1>4, <1>5, <1>6
  <2> QED BY <1>2, <1>3, <2>1 DEF Stepped
<1>7. CASE \E c \in Calls : Begin(c) /\ first = <<c>>
    BY <1>2, <1>3, <1>4, <1>7 DEF Stepped
<1> QED BY <1>6, <1>7

\* ape_socket_shutdown_delay_cb goes on after the shutdown.
LEMMA TimerSteps ==
    ASSUME SafeInv, stack = <<>>, NEW s \in Sockets, NEW direct,
           NEW rest \in {<<>>, <<Call("undelay", s, {})>>},
           Ends(s, rest, direct)
    PROVE  Stepped
<1> DEFINE d == Call("undelay", s, {})
<1>1. /\ "undelay" \in Callbacks \union Suspended /\ {} \in Args
      /\ "on_disconnect" \in Callbacks \union Suspended /\ {"free"} \in Args
    BY DEF Suspended, Callbacks, Args
<1>2. d \in Calls /\ Begin(d)
    BY <1>1, Begins
<1> HIDE DEF d
<1>3. CASE rest = <<>>
    BY <1>3, EndsSteps, StackTyped
<1>4. CASE rest = <<d>>
  <2>1. rest = <<d>> \o <<>>
      BY <1>2, <1>4, StackTyped
  <2>2. CASE stack' = rest
      BY <1>2, <2>1, <2>2, StackTyped DEF Stepped
  <2>3. ASSUME NEW arg \in {{}, {"free"}}, sock[s].state # "OFFLINE",
               stack' = <<Call("on_disconnect", s, arg)>> \o rest
        PROVE  Stepped
    <3>1. /\ Call("on_disconnect", s, arg) \in Calls
          /\ Begin(Call("on_disconnect", s, arg))
        BY <1>1, <2>3, Begins
    <3> QED BY <1>2, <2>1, <2>3, <3>1, StackTyped DEF Stepped
  <2> QED BY <2>2, <2>3 DEF Ends
<1> QED BY <1>3, <1>4 DEF d

\* Every step is such.
LEMMA SteppedNext == Safe /\ SafeInv /\ Next => Stepped
<1> SUFFICES ASSUME Safe, SafeInv, Next PROVE Stepped
    OBVIOUS
<1>0. /\ stack' = stack => Stepped
      /\ stack # <<>> /\ stack' = Below => Stepped
      /\ stack \in Seq(Calls) /\ (stack # <<>> => Below \in Seq(Calls))
      /\ {} \in Args
    BY StackTyped DEF Stepped, Args
<1>1. CASE \E s \in Sockets : \/ \E proto \in {"TCP", "UDP"} : APE_socket_new(s, proto)
                              \/ APE_socket_listen(s)
                              \/ APE_socket_shutdown_delay(s)
    BY <1>0, <1>1 DEF APE_socket_new, APE_socket_listen, APE_socket_shutdown_delay
<1>2. ASSUME NEW s \in Sockets, APE_socket_connect(s) PROVE Stepped
  <2>1. CASE UNCHANGED stack
      BY <1>0, <2>1
  <2>2. ASSUME NEW arg \in {{}, {"ended"}},
               stack' = <<Call("connecting", s, arg)>> \o stack
        PROVE  Stepped
    <3>1. "connecting" \in Callbacks \union Suspended /\ arg \in Args
        BY DEF Suspended, Args
    <3>2. Call("connecting", s, arg) \in Calls /\ Begin(Call("connecting", s, arg))
        BY <3>1, Begins
    <3> QED BY <2>2, <3>2, OneStep
  <2> QED BY <1>2, <2>1, <2>2 DEF APE_socket_connect
<1>3. ASSUME NEW s \in Sockets,
             \/ UserShutdown(s) \/ APE_socket_shutdown_now(s)
             \/ ape_socket_destroy(s) \/ APE_socket_write(s)
      PROVE  Stepped
    BY <1>0, <1>3, UserEnds, EndsSteps
<1>4. CASE CallbackReturn \/ WouldBlock \/ EndClose \/ DelayReturn
    BY <1>0, <1>4 DEF CallbackReturn, WouldBlock, EndClose, DelayReturn, At
<1>5. CASE ReadyToConnect
    BY <1>0, <1>5, ConnectEnds, EndsSteps
<1>6. CASE Poll \/ BatchEnd \/ TimersEnd \/ ape_socket_free \/ DelayNotDue
    BY <1>0, <1>6 DEF Poll, BatchEnd, TimersEnd, ape_socket_free, DelayNotDue
<1>7. CASE ServerEvent \/ ClientEvent
  <2> DEFINE s == Head(batch)
  <2>1. /\ loop = "batch" /\ stack = <<>> /\ batch # <<>>
        /\ batch \in Seq(Sockets)
      BY <1>7 DEF ServerEvent, ClientEvent, Idle, SafeInv, Typed
  <2>2. s \in Sockets /\ s \in Items(batch)
      BY ZenonT(30), <2>1, ItemsPop
  <2>3. CASE ServerEvent
    <3>1. /\ sock[s].type = "SERVER"
          /\ \E at \in {"accept", "recvfrom"} : stack' = <<Call(at, s, {})>>
        BY <2>3 DEF ServerEvent
    <3>2. \A at \in {"accept", "recvfrom"} : at \in Callbacks \union Suspended
        BY DEF Suspended
    <3>3. \A at \in {"accept", "recvfrom"} :
              Call(at, s, {}) \in Calls /\ Begin(Call(at, s, {}))
        BY <1>0, <2>1, <2>2, <3>1, <3>2, Begins
    <3> QED BY <2>1, <3>1, <3>3, FirstStep
  <2>4. CASE ClientEvent
    <3>1. PICK bits \in SUBSET {"readable", "writable"} :
              stack' = <<Call("client", s, bits)>>
        BY <2>4 DEF ClientEvent
    <3>2. /\ sock[s].type = "CLIENT" /\ bits \in Args /\ "foreign" \notin bits
          /\ "client" \in Callbacks \union Suspended
        BY <2>4 DEF ClientEvent, Args, Suspended
    <3>3. Call("client", s, bits) \in Calls /\ Begin(Call("client", s, bits))
        BY <2>1, <2>2, <3>2, Begins
    <3> QED BY <2>1, <3>1, <3>3, FirstStep
  <2> QED BY <1>7, <2>3, <2>4
<1>8. CASE ape_socket_read
  <2>1. stack # <<>> /\ Frame1.at = "client"
      BY <1>8 DEF ape_socket_read, At
  <2>2. Frame1.s \in Sockets /\ Frame1.arg \in Args
      BY <2>1, Innermost
  <2>3. PICK s \in Sockets : s = Frame1.s
      BY <2>2
  <2>4. CASE stack' = ThenWrite(s, Frame1.arg)
    <3>1. ThenWrite(s, Frame1.arg) \in Seq(Calls)
        BY <2>1, ThenWriteIs
    <3>2. /\ <<>> \in Seq(Calls)
          /\ stack' = <<>> \o ThenWrite(Frame1.s, Frame1.arg)
        BY <2>3, <2>4, <3>1
    <3> QED BY <2>1, <2>2, <3>2, WriteSteps
  <2>5. ASSUME NEW data \in BOOLEAN, NEW ended \in SUBSET {"ended"},
               sock[s].state = "ONLINE",
               stack' = (IF data THEN <<Call("on_read", s, {})>> ELSE <<>>)
                        \o <<Call("afterread", s, Frame1.arg \union ended)>>
                        \o Below
        PROVE  Stepped
    <3> DEFINE x == Call("on_read", s, {})
               y == Call("afterread", s, Frame1.arg \union ended)
    <3>1. /\ "on_read" \in Callbacks \union Suspended
          /\ "afterread" \in Callbacks \union Suspended
          /\ Frame1.arg \union ended \in Args
        BY <2>2 DEF Callbacks, Suspended, Args
    <3>2. x \in Calls /\ Begin(x)
        BY <1>0, <2>5, <3>1, Begins
    <3>3. y \in Calls /\ Begin(y)
      <4>1. "foreign" \in Frame1.arg \union ended => "foreign" \in Frame1.arg
          OBVIOUS
      <4> QED BY <2>1, <2>3, <3>1, <4>1, Begins
    <3>4. stack' = (IF data THEN <<x>> ELSE <<>>) \o <<y>> \o Below
        BY <2>5
    <3> HIDE DEF x, y
    <3>5. /\ <<x>> \in Seq(Calls) /\ <<y>> \in Seq(Calls)
          /\ Below \in Seq(Calls)
        BY <1>0, <2>1, <3>2, <3>3
    <3>6. /\ (<<x>> \o <<y>>) \o Below = <<x>> \o (<<y>> \o Below)
          /\ <<>> \o <<y>> = <<y>>
        BY <3>5, ConcatAssociative
    <3>7. stack' = <<x>> \o (<<y>> \o Below) \/ stack' = <<y>> \o Below
        BY <3>4, <3>6
    <3> QED BY <2>1, <3>2, <3>3, <3>5, <3>7 DEF Stepped
  <2> QED BY <1>8, <2>3, <2>4, <2>5 DEF ape_socket_read
<1>9. CASE AfterRead
  <2>1. CASE Ends(Frame1.s, Below, TRUE)
      BY <1>0, <1>9, <2>1, ReadEnds, EndsSteps
  <2>2. CASE stack' = ThenWrite(Frame1.s, Frame1.arg)
    <3>1. stack # <<>> /\ Frame1.at = "afterread" /\ Frame1.s \in Sockets
        BY <1>9, ReadEnds
    <3>2. ThenWrite(Frame1.s, Frame1.arg) \in Seq(Calls)
        BY <3>1, ThenWriteIs
    <3>3. /\ <<>> \in Seq(Calls)
          /\ stack' = <<>> \o ThenWrite(Frame1.s, Frame1.arg)
        BY <2>2, <3>2
    <3> QED BY <3>1, <3>3, WriteSteps
  <2> QED BY <1>9, <2>1, <2>2, ReadEnds
<1>10. CASE ClientReadUdp
  <2>1. /\ stack # <<>> /\ Frame1.at = "client"
        /\ sock[Frame1.s].proto = "UDP"
        /\ stack' = (IF "readable" \in Frame1.arg
                     THEN <<Call("recvfrom", Frame1.s, {})>> ELSE <<>>)
                    \o ThenWrite(Frame1.s, Frame1.arg)
      BY <1>10 DEF ClientReadUdp, At
  <2>2. Frame1.s \in Sockets
      BY <2>1, Innermost
  <2>3. "recvfrom" \in Callbacks \union Suspended
      BY DEF Suspended
  <2> DEFINE c == Call("recvfrom", Frame1.s, {})
  <2>4. c \in Calls /\ Begin(c)
      BY <1>0, <2>1, <2>2, <2>3, Begins
  <2> HIDE DEF c
  <2>5. <<c>> \in Seq(Calls) /\ <<>> \in Seq(Calls)
      BY <2>4
  <2>6. PICK first \in {<<c>>, <<>>} :
            stack' = first \o ThenWrite(Frame1.s, Frame1.arg)
      BY <2>1 DEF c
  <2> QED BY <2>1, <2>2, <2>4, <2>5, <2>6, WriteSteps
<1>11. CASE ClientWrite
  <2>1. /\ stack # <<>> /\ Frame1.at = "write" /\ Frame1.s \in Sockets
      BY <1>11, WriteEnds
  <2>2. CASE Ends(Frame1.s, Below, FALSE)
      BY <1>0, <2>1, <2>2, EndsSteps
  <2>3. ASSUME NEW at \in {"on_drain", "on_connected"},
               sock[Frame1.s].state \in {"ONLINE", "PROGRESS"},
               stack' = <<Call(at, Frame1.s, {})>> \o Below
        PROVE  Stepped
    <3>1. at \in Callbacks \union Suspended
        BY DEF Callbacks
    <3>2. Call(at, Frame1.s, {}) \in Calls /\ Begin(Call(at, Frame1.s, {}))
        BY <1>0, <2>1, <2>3, <3>1, Begins
    <3> QED BY <2>1, <2>3, <3>2, OneStep
  <2> QED BY <1>11, <2>2, <2>3, WriteEnds
<1>12. CASE _ape_socket_destroy \/ ape_socket_shutdown_delay_cb
    BY <1>12, TimerEnds, TimerSteps
<1>13. CASE ape_socket_connected
  <2>1. Fires("connected") /\ stack' = <<Call("on_connected", Head(todo).s, {})>>
      BY <1>13 DEF ape_socket_connected
  <2>2. PICK s \in Sockets : s = Head(todo).s
      BY <2>1, Due
  <2>3. stack = <<>> /\ sock[s].state = "ONLINE"
      BY <2>1, <2>2, Due DEF SocketInv, DueInv
  <2>4. "on_connected" \in Callbacks \union Suspended
      BY DEF Callbacks
  <2>5. /\ Call("on_connected", s, {}) \in Calls
        /\ Begin(Call("on_connected", s, {}))
      BY <1>0, <2>3, <2>4, Begins
  <2> QED BY <2>1, <2>2, <2>3, <2>5, FirstStep
<1>14. CASE ape_socket_read_udp \/ \E c \in Sockets : ape_socket_accept(c)
  <2>1. PICK at \in {"on_message", "on_connect"} :
            /\ stack # <<>>
            /\ Frame1.at = IF at = "on_connect" THEN "accept" ELSE "recvfrom"
            /\ stack' = <<Call(at, Frame1.s, Foreign(Frame1.s))>> \o stack
      BY <1>14 DEF ape_socket_read_udp, ape_socket_accept, At
  <2>2. PICK s \in Sockets : s = Frame1.s
      BY <2>1, Innermost
  <2>3. Foreign(s) \in Args /\ at \in Callbacks \union Suspended
      BY DEF Foreign, Args, Callbacks
  <2>4. Call(at, s, Foreign(s)) \in Calls /\ Begin(Call(at, s, Foreign(s)))
      BY <2>1, <2>2, <2>3, Begins
  <2> QED BY <2>1, <2>2, <2>4, OneStep
<1>15. ASSUME NEW s \in Sockets, DnsReply(s) PROVE Stepped
  <2>1. CASE UNCHANGED stack
      BY <1>0, <2>1
  <2>2. ASSUME NEW arg \in {{}, {"ended"}}, stack = <<>>,
               stack' = <<Call("connecting", s, arg)>>
        PROVE  Stepped
    <3>1. "connecting" \in Callbacks \union Suspended /\ arg \in Args
        BY DEF Suspended, Args
    <3>2. Call("connecting", s, arg) \in Calls /\ Begin(Call("connecting", s, arg))
        BY <3>1, Begins
    <3> QED BY <2>2, <3>2, FirstStep
  <2> QED BY <1>15, <2>1, <2>2 DEF DnsReply, Idle
<1> QED BY <1>1, <1>2, <1>3, <1>4, <1>5, <1>6, <1>7, <1>8, <1>9, <1>10, <1>11,
           <1>12, <1>13, <1>14, <1>15
        DEF Next, UserCall, Return, Dispatching, Firing, Peer

\* A call in progress after a step was so before, or begins.
LEMMA SteppedItems ==
    ASSUME SafeInv, Stepped, NEW c \in Items(stack')
    PROVE  c \in Items(stack) \/ Begin(c)
<1>1. PICK rest \in Seq(Calls) :
          /\ rest = stack \/ (stack # <<>> /\ rest = Below)
          /\ \/ stack' = rest
             \/ \E a \in Calls : Begin(a) /\ stack' = <<a>> \o rest
             \/ \E a, b \in Calls :
                   Begin(a) /\ Begin(b) /\ stack' = <<a>> \o (<<b>> \o rest)
    BY DEF Stepped
<1>2. Items(rest) \subseteq Items(stack)
    BY <1>1, Innermost
<1>3. CASE stack' = rest
    BY <1>2, <1>3
<1>4. ASSUME NEW a \in Calls, Begin(a), stack' = <<a>> \o rest
      PROVE  c \in Items(stack) \/ Begin(c)
  <2>1. Items(<<a>> \o rest) = {a} \union Items(rest)
      BY ItemsPush
  <2> QED BY <1>2, <1>4, <2>1
<1>5. ASSUME NEW a \in Calls, NEW b \in Calls, Begin(a), Begin(b),
             stack' = <<a>> \o (<<b>> \o rest)
      PROVE  c \in Items(stack) \/ Begin(c)
  <2>1. /\ <<b>> \o rest \in Seq(Calls)
        /\ Items(<<b>> \o rest) = {b} \union Items(rest)
      BY ItemsPush
  <2> DEFINE q == <<b>> \o rest
  <2>2. Items(<<a>> \o q) = {a} \union Items(q)
    <3> HIDE DEF q
    <3>1. q \in Seq(Calls)
        BY <2>1 DEF q
    <3> QED BY <3>1, ItemsPush
  <2> QED BY <1>2, <1>5, <2>1, <2>2
<1> QED BY <1>1, <1>3, <1>4, <1>5

-----------------------------------------------------------------------------
(* Who owns a descriptor.                                                  *)

\* A socket that is not closed, or that is being closed.
Holds(s) == Live(s) /\ (sock[s].state # "OFFLINE" \/ Closing(s))

\* A socket that holds a descriptor is its owner.
OwnInv == \A s \in Sockets : Holds(s) => Owner(s) = s

\* OwnsDescriptor, by owners.
LEMMA OwnsIs == OwnsDescriptor <=> OwnInv
<1>1. \A s \in Sockets : Frames("on_disconnect", s) # {} <=> Closing(s)
    BY DEF Frames, Closing, Items
<1> QED BY <1>1 DEF OwnsDescriptor, OwnInv, Holds

\* A step that opens and closes no descriptor.
Kept ==
    /\ open' = open
    /\ \A t \in Sockets :
          /\ sock'[t].fd = sock[t].fd /\ sock'[t].mem = sock[t].mem
          /\ sock[t].state = "OFFLINE" => sock'[t].state = "OFFLINE"

\* Who holds a descriptor after a step held it before or got it.
LEMMA HeldBefore ==
    ASSUME SafeInv, Stepped, NEW t \in Sockets, Live(t), Holds(t)',
           sock[t].state = "OFFLINE" => sock'[t].state = "OFFLINE"
    PROVE  Holds(t)
<1>1. ASSUME Closing(t)' PROVE Closing(t) \/ sock[t].state # "OFFLINE"
  <2>1. PICK c \in Items(stack') : c.at = "on_disconnect" /\ c.s = t
      BY <1>1 DEF Closing
  <2>2. c \in Items(stack) \/ Begin(c)
      BY SteppedItems
  <2> QED BY <2>1, <2>2 DEF Closing, Begin
<1> QED BY <1>1 DEF Holds

\* Steps that leave the owners alone.
LEMMA OwnKept ==
    ASSUME SafeInv, OwnInv, Stepped, Kept
    PROVE  OwnInv'
<1>1. \A t \in Sockets : Owner(t)' = Owner(t)
    BY DEF Kept, Owner
<1>2. ASSUME NEW t \in Sockets, Holds(t)' PROVE Holds(t)
  <2>1. Live(t)
      BY <1>2 DEF Holds, Live, Kept
  <2> QED BY <1>2, <2>1, HeldBefore DEF Kept
<1> QED BY <1>1, <1>2 DEF OwnInv

\* What leaves the structures alone, or sets other fields of them.
LEMMA KeptFields ==
    ASSUME SafeInv, open' = open, NEW s \in Sockets, NEW v,
           \/ UNCHANGED sock
           \/ sock' = [sock EXCEPT ![s].blocked = v]
           \/ sock' = [sock EXCEPT ![s].delayed = v]
           \/ sock' = [sock EXCEPT ![s].dns = v]
           \/ sock' = [sock EXCEPT ![s].jobs = v]
           \/ /\ sock[s].state # "OFFLINE"
              /\ \/ sock' = [sock EXCEPT ![s].state = v]
                 \/ \E type : sock' = [sock EXCEPT ![s].type = type, ![s].state = v]
    PROVE  Kept
<1>1. sock \in [Sockets -> Socket] /\ sock[s] \in Socket
    BY DEF SafeInv, Typed, CoreTyped
<1>2. /\ \A t \in Sockets \ {s} : sock'[t] = sock[t]
      /\ sock'[s].fd = sock[s].fd /\ sock'[s].mem = sock[s].mem
      /\ sock[s].state = "OFFLINE" => sock'[s].state = "OFFLINE"
  <2>1. CASE UNCHANGED sock
      BY <2>1
  <2>2. CASE \/ sock' = [sock EXCEPT ![s].blocked = v]
             \/ sock' = [sock EXCEPT ![s].delayed = v]
      BY <1>1, <2>2 DEF Socket
  <2>3. CASE \/ sock' = [sock EXCEPT ![s].dns = v]
             \/ sock' = [sock EXCEPT ![s].jobs = v]
      BY <1>1, <2>3 DEF Socket
  <2>4. CASE sock[s].state # "OFFLINE" /\ sock' = [sock EXCEPT ![s].state = v]
      BY <1>1, <2>4 DEF Socket
  <2>5. ASSUME NEW type, sock[s].state # "OFFLINE",
               sock' = [sock EXCEPT ![s].type = type, ![s].state = v]
        PROVE  /\ \A t \in Sockets \ {s} : sock'[t] = sock[t]
               /\ sock'[s].fd = sock[s].fd /\ sock'[s].mem = sock[s].mem
      BY <1>1, <2>5 DEF Socket
  <2> QED BY <2>1, <2>2, <2>3, <2>4, <2>5
<1> QED BY <1>2 DEF Kept

\* Steps that only end sockets.
LEMMA EndsKept ==
    ASSUME NEW s \in Sockets, NEW rest, NEW direct, Ends(s, rest, direct)
    PROVE  Kept
  BY DEF Ends, Kept

\* Most steps are of these kinds.
LEMMA KeptNext ==
    Own /\ SafeInv /\ Next =>
       \/ Kept \/ EndClose \/ ape_socket_free
       \/ \E s \in Sockets, proto \in {"TCP", "UDP"} : APE_socket_new(s, proto)
       \/ \E s \in Sockets : ape_socket_accept(s)
<1> SUFFICES ASSUME Own, SafeInv, Next,
                    ~ \/ EndClose \/ ape_socket_free
                      \/ \E s \in Sockets, proto \in {"TCP", "UDP"} :
                            APE_socket_new(s, proto)
                      \/ \E s \in Sockets : ape_socket_accept(s)
             PROVE  Kept
    OBVIOUS
<1>0. UNCHANGED <<sock, open>> => Kept
    BY DEF Kept
<1>1. ASSUME NEW s \in Sockets,
             \/ APE_socket_listen(s) \/ APE_socket_connect(s)
             \/ APE_socket_shutdown_delay(s) \/ DnsReply(s)
      PROVE  Kept
  <2>1. CASE APE_socket_listen(s)
    <3>1. /\ sock[s].state = "PENDING" /\ open' = open
          /\ sock' = [sock EXCEPT ![s].type = "SERVER", ![s].state = "ONLINE"]
        BY <2>1 DEF APE_socket_listen, Unused, Own
    <3> QED BY <3>1, KeptFields
  <2>2. CASE APE_socket_connect(s)
      BY <2>2, KeptFields DEF APE_socket_connect
  <2>3. CASE APE_socket_shutdown_delay(s)
      BY <2>3, KeptFields DEF APE_socket_shutdown_delay
  <2>4. CASE DnsReply(s)
      BY <2>4, KeptFields DEF DnsReply
  <2> QED BY <1>1, <2>1, <2>2, <2>3, <2>4
<1>2. ASSUME NEW s \in Sockets,
             \/ UserShutdown(s) \/ APE_socket_shutdown_now(s)
             \/ ape_socket_destroy(s) \/ APE_socket_write(s)
      PROVE  Kept
    BY <1>2, UserEnds, EndsKept DEF Own
<1>3. CASE \/ CallbackReturn \/ WouldBlock \/ Poll \/ BatchEnd \/ TimersEnd
           \/ DelayNotDue \/ ServerEvent \/ ape_socket_read \/ ClientReadUdp
           \/ ape_socket_connected \/ ape_socket_read_udp
    BY <1>0, <1>3
       DEF CallbackReturn, WouldBlock, Poll, BatchEnd, TimersEnd, DelayNotDue,
           ServerEvent, ape_socket_read, ClientReadUdp, ape_socket_connected,
           ape_socket_read_udp
<1>4. CASE ClientEvent
  <2>1. batch # <<>> /\ batch \in Seq(Sockets) /\ open' = open
      BY <1>4 DEF ClientEvent, SafeInv, Typed
  <2>2. Head(batch) \in Sockets
      BY <2>1
  <2>3. UNCHANGED sock \/ sock' = [sock EXCEPT ![Head(batch)].blocked = FALSE]
      BY <1>4 DEF ClientEvent
  <2> QED BY <2>1, <2>2, <2>3, KeptFields
<1>5. CASE AfterRead
    BY <1>0, <1>5, ReadEnds, EndsKept
<1>6. CASE ClientWrite
  <2>1. CASE Ends(Frame1.s, Below, FALSE)
      BY <1>6, <2>1, WriteEnds, EndsKept
  <2>2. CASE /\ sock[Frame1.s].state \in {"ONLINE", "PROGRESS"}
             /\ sock' \in {[sock EXCEPT ![Frame1.s].jobs = "none"],
                           [sock EXCEPT ![Frame1.s].state = "ONLINE"]}
             /\ UNCHANGED <<open, registered>>
      BY <1>6, <2>2, WriteEnds, KeptFields
  <2> QED BY <1>6, <2>1, <2>2, WriteEnds
<1>7. CASE ReadyToConnect
  <2>1. CASE Ends(Frame1.s, Below, FALSE)
      BY <1>7, <2>1, ConnectEnds, EndsKept
  <2>2. CASE ~Ends(Frame1.s, Below, FALSE)
    <3>1. PICK s \in Sockets : s = Frame1.s
        BY <1>7, ConnectEnds
    <3>2. /\ sock[s].state = "PENDING" /\ open' = open
          /\ \E v \in {"ONLINE", "PROGRESS"} :
                sock' = [sock EXCEPT ![s].type = "CLIENT", ![s].state = v]
        BY <1>7, <2>2, <3>1, ConnectEnds
    <3> QED BY <3>2, KeptFields
  <2> QED BY <2>1, <2>2
<1>8. CASE DelayReturn
  <2>1. /\ stack # <<>> /\ Frame1.at = "undelay" /\ open' = open
        /\ sock' = [sock EXCEPT ![Frame1.s].delayed = FALSE]
      BY <1>8 DEF DelayReturn, At
  <2>2. Frame1.s \in Sockets
      BY <2>1, Innermost
  <2> QED BY <2>1, <2>2, KeptFields
<1>9. CASE _ape_socket_destroy \/ ape_socket_shutdown_delay_cb
    BY <1>9, TimerEnds, EndsKept
<1> QED BY <1>1, <1>2, <1>3, <1>4, <1>5, <1>6, <1>7, <1>8, <1>9
        DEF Next, UserCall, Return, Dispatching, Firing, Peer

\* A descriptor is opened for `s', allocated by the step.
LEMMA OwnOpened ==
    ASSUME SafeInv, SafeInv', OwnInv, Stepped, NEW s \in Sockets,
           sock[s].mem = "none", FreeFds # {},
           open' = [open EXCEPT ![LowestFd] = s], sock'[s].fd = LowestFd,
           \A t \in Sockets \ {s} : sock'[t] = sock[t]
    PROVE  OwnInv'
<1>1. ASSUME NEW t \in Sockets \ {s}, Holds(t)' PROVE Owner(t)' = t
  <2>1. Live(t) /\ sock'[t] = sock[t]
      BY <1>1 DEF Holds, Live
  <2>2. Holds(t)
      BY <1>1, <2>1, HeldBefore
  <2> QED BY <2>1, <2>2, Opened DEF OwnInv
<1>2. Owner(s)' = s
  <2>1. LowestFd \in Fds /\ LowestFd # NoFd
      BY LowestFree DEF Fds, NoFd
  <2>2. open \in [Fds -> Sockets \union {NoSocket}]
      BY DEF SafeInv, Typed, CoreTyped
  <2>3. open'[LowestFd] = s
      BY <2>1, <2>2
  <2> QED BY <2>1, <2>3 DEF Owner
<1> QED BY <1>1, <1>2 DEF OwnInv

\* No step breaks it.
LEMMA OwnNext == Own /\ SafeInv /\ SafeInv' /\ OwnInv /\ [Next]_vars => OwnInv'
<1> SUFFICES ASSUME Own, SafeInv, SafeInv', OwnInv, [Next]_vars PROVE OwnInv'
    OBVIOUS
<1>1. CASE UNCHANGED vars
    BY <1>1 DEF vars, OwnInv, Holds, Owner, Live, Closing
<1>2. CASE Next
  <2>0. Stepped
      BY <1>2, SteppedNext DEF Own
  <2>1. CASE Kept
      BY <2>0, <2>1, OwnKept
  <2>2. ASSUME NEW s \in Sockets, NEW proto \in {"TCP", "UDP"},
               APE_socket_new(s, proto)
        PROVE  OwnInv'
    <3>1. /\ sock[s].mem = "none" /\ FreeFds # {}
          /\ open' = [open EXCEPT ![LowestFd] = s]
          /\ sock' = [sock EXCEPT ![s] = Fresh(proto)]
          /\ sock \in [Sockets -> Socket]
        BY <2>2 DEF APE_socket_new, SafeInv, Typed, CoreTyped
    <3>2. /\ sock'[s].fd = LowestFd
          /\ \A t \in Sockets \ {s} : sock'[t] = sock[t]
        BY <3>1 DEF Fresh, Blank
    <3> QED BY <2>0, <3>1, <3>2, OwnOpened
  <2>3. ASSUME NEW s \in Sockets, ape_socket_accept(s) PROVE OwnInv'
    <3>1. /\ sock[s].mem = "none" /\ FreeFds # {}
          /\ open' = [open EXCEPT ![LowestFd] = s]
          /\ sock' = [sock EXCEPT ![s] = [Fresh("TCP") EXCEPT !.state = "ONLINE",
                                                              !.type = "CLIENT"]]
          /\ sock \in [Sockets -> Socket]
        BY <2>3 DEF ape_socket_accept, SafeInv, Typed, CoreTyped
    <3>2. /\ sock'[s].fd = LowestFd
          /\ \A t \in Sockets \ {s} : sock'[t] = sock[t]
        BY <3>1 DEF Fresh, Blank
    <3> QED BY <2>0, <3>1, <3>2, OwnOpened
  <2>4. CASE EndClose
    <3>0. /\ stack # <<>> /\ Frame1.at = "on_disconnect"
          /\ Frame1.s \in Sockets /\ CallInv(Frame1)
        BY <2>4, Innermost DEF EndClose, At
    <3>1. PICK s \in Sockets : s = Frame1.s
        BY <3>0
    <3>2. /\ Live(s) /\ sock[s].state = "OFFLINE" /\ Closing(s)
          /\ \A d \in Items(Below) : ~(d.at = "on_disconnect" /\ d.s = s)
          /\ sock \in [Sockets -> Socket]
          /\ open \in [Fds -> Sockets \union {NoSocket}]
        BY <3>0, <3>1, Innermost DEF CallInv, Closing, SafeInv, Typed, CoreTyped
    <3>3. /\ open' = [open EXCEPT ![sock[s].fd] = NoSocket]
          /\ stack' = Below /\ sock' \in {sock, [sock EXCEPT ![s] = Released(s)]}
        BY <2>4, <3>1 DEF EndClose, Free
    <3>4. Owner(s) = s
        BY <3>2 DEF OwnInv, Holds
    <3>5. ~Holds(s)'
      <4>1. ~Closing(s)'
          BY <3>2, <3>3 DEF Closing
      <4>2. sock'[s].state = "OFFLINE" \/ sock'[s].mem = "freed"
          BY <3>2, <3>3 DEF Released, Blank
      <4> QED BY <4>1, <4>2 DEF Holds, Live
    <3>6. ASSUME NEW t \in Sockets \ {s}, Holds(t)' PROVE Owner(t)' = t
      <4>1. sock'[t] = sock[t] /\ Live(t)
          BY <3>2, <3>3, <3>6 DEF Holds, Live
      <4>2. Owner(t) = t
          BY <2>0, <3>6, <4>1, HeldBefore DEF OwnInv
      <4>3. sock[t].fd # sock[s].fd
          BY <3>4, <4>2 DEF Owner
      <4> QED BY <3>2, <3>3, <4>1, <4>2, <4>3 DEF Owner
    <3> QED BY <3>5, <3>6 DEF OwnInv
  <2>5. CASE ape_socket_free
    <3>1. PICK s \in Sockets : s = Head(todo).s
        BY <2>5, Due DEF ape_socket_free
    <3>2. /\ sock' = [sock EXCEPT ![s] = Released(s)] /\ open' = open
          /\ sock \in [Sockets -> Socket]
        BY <2>5, <3>1 DEF ape_socket_free, Free, SafeInv, Typed, CoreTyped
    <3>3. ~Holds(s)'
        BY <3>2 DEF Holds, Live, Released, Blank
    <3>4. ASSUME NEW t \in Sockets \ {s}, Holds(t)' PROVE Owner(t)' = t
      <4>1. sock'[t] = sock[t] /\ Live(t)
          BY <3>2, <3>4 DEF Holds, Live
      <4>2. Owner(t) = t
          BY <2>0, <3>4, <4>1, HeldBefore DEF OwnInv
      <4> QED BY <3>2, <4>1, <4>2 DEF Owner
    <3> QED BY <3>3, <3>4 DEF OwnInv
  <2> QED BY <1>2, <2>1, <2>2, <2>3, <2>4, <2>5, KeptNext
<1> QED BY <1>1, <1>2

\* Owners, at the start.
LEMMA OwnInit == Init => OwnInv
  BY DEF Init, OwnInv, Holds, Live, Blank

\* It is true of every state.
LEMMA OwnCorrect ==
    ASSUME Own
    PROVE  Spec => [](SafeInv /\ OwnInv)
<1>1. SafeInv /\ OwnInv /\ [Next]_vars => (SafeInv /\ OwnInv)'
    BY SafeNext, OwnNext DEF Own
<1> QED BY <1>1, SafeInit, OwnInit, PTL DEF Spec

\* With an application as above whose listen() calls do not fail, a socket
\* owns its descriptor until the descriptor is closed, on_disconnect
\* included (APE_socket_new, ape_socket_accept, ape_socket_close): although
\* the kernel gives a number again at once.
THEOREM OwnsDescriptorCorrect == ASSUME Own PROVE Spec => []OwnsDescriptor
<1>1. SafeInv /\ OwnInv => OwnsDescriptor
    BY OwnsIs
<1> QED BY <1>1, OwnCorrect, PTL

-----------------------------------------------------------------------------
(* Who gets input.                                                         *)

\* What a step makes of a socket.
Turn(s) ==
    \/ /\ sock'[s].proto = sock[s].proto /\ sock'[s].type = sock[s].type
       /\ sock'[s].state = sock[s].state
    \/ \* It is allocated.
       /\ sock[s].mem = "none"
       /\ \/ sock'[s].state = "PENDING" /\ sock'[s].type = "UNKNOWN"
          \/ sock'[s].state = "ONLINE" /\ sock'[s].type = "CLIENT"
    \/ \* It is freed.
       /\ sock[s].state = "OFFLINE" /\ loop = "timers"
       /\ sock'[s].mem = "freed"
       /\ sock'[s].state = "PENDING" /\ sock'[s].type = "UNKNOWN"
    \/ \* It is connected, or ends.
       /\ sock'[s].proto = sock[s].proto /\ sock'[s].type = sock[s].type
       /\ \/ sock[s].state = "PROGRESS" /\ sock'[s].state = "ONLINE"
          \/ sock[s].type # "SERVER" /\ sock'[s].state = "SHUTDOWN"
          \/ /\ sock'[s].state = "OFFLINE"
             /\ loop = "batch" =>
                   \/ sock[s].type = "UNKNOWN"
                   \/ sock[s].type # "SERVER" /\ sock[s].proto = "TCP"
    \/ \* It listens, or connects.
       /\ sock[s].state = "PENDING" /\ sock'[s].proto = sock[s].proto
       /\ \/ sock'[s].type = "SERVER" /\ sock'[s].state = "ONLINE"
          \/ /\ sock'[s].type = "CLIENT"
             /\ sock'[s].state = IF sock[s].proto = "UDP" THEN "ONLINE"
                                                          ELSE "PROGRESS"

\* Steps that leave the roles alone.
LEMMA RoleKept ==
    ASSUME NEW s \in Sockets, RoleInv(s), Turn(s), SafeInv
    PROVE  RoleInv(s)'
<1>1. sock[s] \in Socket
    BY DEF SafeInv, Typed, CoreTyped
<1>2. sock[s].proto \in {"TCP", "UDP"}
    BY <1>1 DEF Socket
<1> QED BY <1>2 DEF RoleInv, Turn

\* Only what still can be read is closed while events are dispatched.
LEMMA ServedKept ==
    ASSUME NEW s \in Sockets, Served(s), RoleInv(s), Turn(s), Live(s),
           loop = "batch"
    PROVE  /\ Served(s)'
           /\ sock'[s].type = sock[s].type /\ sock'[s].proto = sock[s].proto
  BY DEF Served, RoleInv, Turn, Live

\* Steps that leave a call served.
LEMMA ServedCallKept ==
    ASSUME NEW c, c.s \in Sockets, ServedCall(c), RoleInv(c.s), Turn(c.s),
           Live(c.s), loop' = loop
    PROVE  ServedCall(c)'
<1>1. CASE c.at \in {"accept", "recvfrom", "client", "afterread", "write"}
  <2>1. loop = "batch" /\ Served(c.s)
      BY <1>1 DEF ServedCall
  <2>2. /\ Served(c.s)'
        /\ sock'[c.s].type = sock[c.s].type
        /\ sock'[c.s].proto = sock[c.s].proto
      BY <2>1, ServedKept
  <2> QED BY <2>1, <2>2 DEF ServedCall
<1>2. CASE c.at \notin {"accept", "recvfrom", "client", "afterread", "write"}
    BY <1>2 DEF ServedCall
<1> QED BY <1>1, <1>2

\* A socket is told of its end once it is closed.
LEMMA NotTold ==
    ASSUME SafeInv, NEW s \in Sockets, Live(s), sock[s].state # "OFFLINE"
    PROVE  sock[s].told = 0
  BY DEF SafeInv, SocketInv, StateInv, Live

\* What begins serves a socket, and gets what is its own.
LEMMA BeginServed ==
    ASSUME QuietInv, NEW c, Begin(c)
    PROVE  /\ c.at \in {"accept", "recvfrom", "client", "afterread", "write"}
              => ServedCall(c) /\ Live(c.s)
           /\ "foreign" \notin c.arg
           /\ c.at \in Callbacks \ {"on_disconnect"} => sock[c.s].told = 0
<1>1. /\ SafeInv /\ OwnInv /\ c.s \in Sockets /\ c.at # "main"
      /\ sock[c.s] \in Socket
    BY OwnsIs DEF QuietInv, Begin, SafeInv, Typed, CoreTyped
<1>2. stack # <<>> => /\ Frame1 \in Items(stack) /\ ServedCall(Frame1)
                      /\ "foreign" \notin Frame1.arg
                      /\ Frame1.at # "main" => Live(Frame1.s)
  <2> HAVE stack # <<>>
  <2>1. Frame1 \in Items(stack) /\ (Frame1.at # "main" => CallInv(Frame1))
      BY <1>1, Innermost
  <2>2. \A d \in Items(stack) : "foreign" \notin d.arg
      BY DEF QuietInv, OwnInput, Items
  <2> QED BY <2>1, <2>2 DEF QuietInv, CallInv
<1>3. c.s \in Items(batch) => Served(c.s) /\ Live(c.s)
    BY <1>1 DEF QuietInv, SafeInv, SocketInv, StateInv
<1>4. CASE c.at \in {"accept", "recvfrom", "client", "afterread", "write"}
  <2>1. ServedCall(c) /\ Live(c.s)
    <3>1. CASE \/ c.at \in {"accept", "client"}
               \/ /\ c.at = "recvfrom" /\ loop = "batch"
                  /\ c.s \in Items(batch) /\ sock[c.s].type = "SERVER"
      <4>1. loop = "batch" /\ Served(c.s) /\ Live(c.s)
          BY <1>3, <3>1 DEF Begin
      <4> QED BY <3>1, <4>1 DEF Begin, ServedCall
    <3>2. CASE ~ \/ c.at \in {"accept", "client"}
                 \/ /\ c.at = "recvfrom" /\ loop = "batch"
                    /\ c.s \in Items(batch) /\ sock[c.s].type = "SERVER"
      <4>1. /\ stack # <<>> /\ Frame1.s = c.s
            /\ Frame1.at \in {"client", "afterread"}
            /\ c.at \in {"recvfrom", "afterread", "write"}
            /\ c.at = "recvfrom" => sock[c.s].proto = "UDP"
          BY <1>4, <3>2 DEF Begin
      <4> QED BY <1>2, <4>1 DEF ServedCall
    <3> QED BY <3>1, <3>2
  <2>2. "foreign" \notin c.arg
      BY <1>2, <1>4 DEF Begin
  <2> QED BY <1>4, <2>1, <2>2 DEF Callbacks
<1>5. CASE c.at \in {"on_connect", "on_message"}
  <2>1. /\ stack # <<>> /\ Frame1.s = c.s /\ Frame1.at \in {"accept", "recvfrom"}
        /\ "foreign" \in c.arg => Owner(c.s) # c.s
      BY <1>5 DEF Begin
  <2>2. Live(c.s) /\ sock[c.s].state # "OFFLINE"
      BY <1>2, <2>1 DEF ServedCall, Served
  <2>3. Owner(c.s) = c.s
      BY <1>1, <2>2 DEF OwnInv, Holds
  <2> QED BY <1>1, <1>5, <2>1, <2>2, <2>3, NotTold
<1>6. CASE c.at \notin {"accept", "recvfrom", "client", "afterread", "write",
                        "on_connect", "on_message"}
  <2>1. "foreign" \notin c.arg
      BY <1>2, <1>6 DEF Begin
  <2>2. ASSUME c.at \in {"on_read", "on_drain", "on_connected"}
        PROVE  sock[c.s].told = 0
    <3>1. sock[c.s].state \in {"PROGRESS", "ONLINE"}
        BY <2>2 DEF Begin
    <3>2. Live(c.s)
        BY <1>1, <3>1 DEF SafeInv, SocketInv, StateInv
    <3> QED BY <1>1, <3>1, <3>2, NotTold
  <2> QED BY <1>1, <1>6, <2>1, <2>2 DEF Callbacks
<1> QED BY <1>4, <1>5, <1>6

\* A step that ends `s': who is read from is not closed.
LEMMA EndsTurn ==
    ASSUME NEW s \in Sockets, NEW rest, NEW direct, Ends(s, rest, direct),
           (loop = "batch" /\ sock[s].state # "OFFLINE"
            /\ (sock[s].state \in {"ONLINE", "SHUTDOWN"} =>
                   sock[s].type = "SERVER" \/ direct)) =>
              \/ sock[s].type = "UNKNOWN"
              \/ sock[s].type # "SERVER" /\ sock[s].proto = "TCP",
           NEW t \in Sockets
    PROVE  Turn(t)
  BY DEF Ends, Turn

\* Steps within a turn.
LEMMA SameTurn ==
    ASSUME SafeInv, NEW s \in Sockets, NEW v,
           \/ UNCHANGED sock
           \/ sock' = [sock EXCEPT ![s].blocked = v]
           \/ sock' = [sock EXCEPT ![s].delayed = v]
           \/ sock' = [sock EXCEPT ![s].dns = v]
           \/ sock' = [sock EXCEPT ![s].jobs = v],
           NEW t \in Sockets
    PROVE  Turn(t)
<1>1. sock \in [Sockets -> Socket] /\ sock[s] \in Socket
    BY DEF SafeInv, Typed, CoreTyped
<1>2. /\ \A u \in Sockets \ {s} : sock'[u] = sock[u]
      /\ sock'[s].proto = sock[s].proto /\ sock'[s].type = sock[s].type
      /\ sock'[s].state = sock[s].state
    BY <1>1 DEF Socket
<1> QED BY <1>2 DEF Turn

\* What a step does to the turn.
LEMMA TurnNext ==
    ASSUME Quiet, QuietInv, Next, NEW t \in Sockets
    PROVE  Turn(t)
<1>0. /\ Own /\ Safe /\ SafeInv /\ "closeserver" \notin Uses
      /\ sock \in [Sockets -> Socket]
      /\ \A s \in Sockets : RoleInv(s) /\ sock[s] \in Socket
    BY DEF Quiet, Own, QuietInv, SafeInv, Typed, CoreTyped
<1>1. ASSUME NEW s \in Sockets,
             \/ APE_socket_listen(s) \/ APE_socket_connect(s)
             \/ APE_socket_shutdown_delay(s) \/ DnsReply(s)
      PROVE  Turn(t)
  <2>1. CASE APE_socket_listen(s)
    <3>1. /\ sock[s].state = "PENDING"
          /\ sock' = [sock EXCEPT ![s].type = "SERVER", ![s].state = "ONLINE"]
        BY <1>0, <2>1 DEF APE_socket_listen, Unused, Own
    <3>2. /\ \A u \in Sockets \ {s} : sock'[u] = sock[u]
          /\ sock'[s].proto = sock[s].proto /\ sock'[s].type = "SERVER"
          /\ sock'[s].state = "ONLINE"
        BY <1>0, <3>1 DEF Socket
    <3> QED BY <3>1, <3>2 DEF Turn
  <2>2. CASE APE_socket_connect(s)
      BY <1>0, <2>2, SameTurn DEF APE_socket_connect
  <2>3. CASE APE_socket_shutdown_delay(s)
      BY <1>0, <2>3, SameTurn DEF APE_socket_shutdown_delay
  <2>4. CASE DnsReply(s)
      BY <1>0, <2>4, SameTurn DEF DnsReply
  <2> QED BY <1>1, <2>1, <2>2, <2>3, <2>4
<1>2. ASSUME NEW s \in Sockets,
             \/ UserShutdown(s) \/ APE_socket_shutdown_now(s)
             \/ ape_socket_destroy(s) \/ APE_socket_write(s)
      PROVE  Turn(t)
  <2>1. PICK direct \in BOOLEAN :
            /\ Ends(s, stack, direct) /\ MayClose(s)
            /\ direct /\ sock[s].proto = "UDP" => loop # "batch"
      BY <1>0, <1>2, UserEnds
  <2>2. loop = "batch" => sock[s].type # "SERVER"
      BY <1>0, <2>1 DEF MayClose
  <2>3. /\ sock[s].state \in {"PENDING", "PROGRESS", "ONLINE", "SHUTDOWN",
                              "OFFLINE"}
        /\ sock[s].proto \in {"TCP", "UDP"} /\ RoleInv(s)
      BY <1>0 DEF Socket
  <2> QED BY <2>1, <2>2, <2>3, EndsTurn DEF RoleInv
<1>3. CASE \/ CallbackReturn \/ WouldBlock \/ Poll \/ BatchEnd \/ TimersEnd
           \/ DelayNotDue \/ ServerEvent \/ ape_socket_read \/ ClientReadUdp
           \/ ape_socket_connected \/ ape_socket_read_udp
    BY <1>0, <1>3, SameTurn
       DEF CallbackReturn, WouldBlock, Poll, BatchEnd, TimersEnd, DelayNotDue,
           ServerEvent, ape_socket_read, ClientReadUdp, ape_socket_connected,
           ape_socket_read_udp
<1>4. CASE ClientEvent
  <2>1. batch # <<>> /\ batch \in Seq(Sockets)
      BY <1>0, <1>4 DEF ClientEvent, SafeInv, Typed
  <2>2. Head(batch) \in Sockets
      BY <2>1
  <2>3. UNCHANGED sock \/ sock' = [sock EXCEPT ![Head(batch)].blocked = FALSE]
      BY <1>4 DEF ClientEvent
  <2> QED BY <1>0, <2>2, <2>3, SameTurn
<1>5. CASE AfterRead
  <2>1. PICK s \in Sockets : s = Frame1.s
      BY <1>0, <1>5, ReadEnds
  <2>2. /\ stack # <<>> /\ Frame1.at = "afterread" /\ sock[s].proto = "TCP"
        /\ Ends(s, Below, TRUE) \/ UNCHANGED sock
      BY <1>0, <1>5, <2>1, ReadEnds
  <2>3. sock[s].type = "CLIENT"
      BY <1>0, <2>1, <2>2, Innermost DEF QuietInv, ServedCall
  <2> QED BY <1>0, <2>2, <2>3, EndsTurn, SameTurn
<1>6. CASE ClientWrite
  <2>1. PICK s \in Sockets : s = Frame1.s
      BY <1>0, <1>6, WriteEnds
  <2>2. /\ stack # <<>> /\ Frame1.at = "write"
        /\ \/ Ends(s, Below, FALSE)
           \/ sock' = [sock EXCEPT ![s].jobs = "none"]
           \/ /\ sock[s].state \in {"ONLINE", "PROGRESS"}
              /\ sock' = [sock EXCEPT ![s].state = "ONLINE"]
      BY <1>0, <1>6, <2>1, WriteEnds
  <2>3. sock[s].type = "CLIENT"
      BY <1>0, <2>1, <2>2, Innermost DEF QuietInv, ServedCall
  <2>4. CASE Ends(s, Below, FALSE)
    <3>1. /\ sock[s].state \in {"PENDING", "PROGRESS", "ONLINE", "SHUTDOWN",
                                "OFFLINE"}
          /\ RoleInv(s)
        BY <1>0 DEF Socket
    <3> QED BY <2>3, <2>4, <3>1, EndsTurn DEF RoleInv
  <2>5. CASE /\ sock[s].state \in {"ONLINE", "PROGRESS"}
             /\ sock' = [sock EXCEPT ![s].state = "ONLINE"]
    <3>1. /\ \A u \in Sockets \ {s} : sock'[u] = sock[u]
          /\ sock'[s].proto = sock[s].proto /\ sock'[s].type = sock[s].type
          /\ sock'[s].state = "ONLINE"
        BY <1>0, <2>5 DEF Socket
    <3> QED BY <2>5, <3>1 DEF Turn
  <2> QED BY <1>0, <2>2, <2>4, <2>5, SameTurn
<1>7. CASE ReadyToConnect
  <2>1. PICK s \in Sockets : s = Frame1.s
      BY <1>0, <1>7, ConnectEnds
  <2>2. /\ sock[s].state = "PENDING"
        /\ \/ Ends(s, Below, FALSE)
           \/ sock' = [sock EXCEPT
                 ![s].type = "CLIENT",
                 ![s].state = IF sock[s].proto = "UDP" THEN "ONLINE"
                                                       ELSE "PROGRESS"]
      BY <1>0, <1>7, <2>1, ConnectEnds
  <2>3. CASE Ends(s, Below, FALSE)
      BY <1>0, <2>2, <2>3, EndsTurn DEF RoleInv
  <2>4. CASE sock' = [sock EXCEPT
                 ![s].type = "CLIENT",
                 ![s].state = IF sock[s].proto = "UDP" THEN "ONLINE"
                                                       ELSE "PROGRESS"]
    <3>1. /\ \A u \in Sockets \ {s} : sock'[u] = sock[u]
          /\ sock'[s].proto = sock[s].proto /\ sock'[s].type = "CLIENT"
          /\ sock'[s].state = IF sock[s].proto = "UDP" THEN "ONLINE"
                                                       ELSE "PROGRESS"
        BY <1>0, <2>4 DEF Socket
    <3> QED BY <2>2, <3>1 DEF Turn
  <2> QED BY <2>2, <2>3, <2>4
<1>8. CASE DelayReturn
  <2>1. /\ stack # <<>> /\ Frame1.at = "undelay"
        /\ sock' = [sock EXCEPT ![Frame1.s].delayed = FALSE]
      BY <1>8 DEF DelayReturn, At
  <2>2. Frame1.s \in Sockets
      BY <1>0, <2>1, Innermost
  <2> QED BY <1>0, <2>1, <2>2, SameTurn
<1>9. CASE _ape_socket_destroy \/ ape_socket_shutdown_delay_cb
    BY <1>0, <1>9, TimerEnds, EndsTurn
<1>10. ASSUME NEW s \in Sockets,
              \/ \E proto \in {"TCP", "UDP"} : APE_socket_new(s, proto)
              \/ ape_socket_accept(s)
       PROVE  Turn(t)
  <2>1. /\ sock[s].mem = "none"
        /\ \/ \E proto \in {"TCP", "UDP"} :
                 sock' = [sock EXCEPT ![s] = Fresh(proto)]
           \/ sock' = [sock EXCEPT ![s] = [Fresh("TCP") EXCEPT
                                              !.state = "ONLINE",
                                              !.type = "CLIENT"]]
      BY <1>10 DEF APE_socket_new, ape_socket_accept
  <2>2. /\ \A u \in Sockets \ {s} : sock'[u] = sock[u]
        /\ \/ sock'[s].state = "PENDING" /\ sock'[s].type = "UNKNOWN"
           \/ sock'[s].state = "ONLINE" /\ sock'[s].type = "CLIENT"
    <3>1. CASE \E proto \in {"TCP", "UDP"} :
                  sock' = [sock EXCEPT ![s] = Fresh(proto)]
        BY <1>0, <3>1 DEF Fresh, Blank
    <3>2. CASE sock' = [sock EXCEPT ![s] = [Fresh("TCP") EXCEPT
                                               !.state = "ONLINE",
                                               !.type = "CLIENT"]]
        BY <1>0, <3>2 DEF Fresh, Blank
    <3> QED BY <2>1, <3>1, <3>2
  <2> QED BY <2>1, <2>2 DEF Turn
<1>11. CASE EndClose \/ ape_socket_free
  <2>1. \/ UNCHANGED sock
        \/ \E s \in Sockets : /\ sock' = [sock EXCEPT ![s] = Released(s)]
                              /\ sock[s].state = "OFFLINE" /\ loop = "timers"
    <3>1. CASE EndClose
      <4>1. /\ stack # <<>> /\ Frame1.at = "on_disconnect"
            /\ \/ UNCHANGED sock
               \/ /\ "free" \in Frame1.arg
                  /\ sock' = [sock EXCEPT ![Frame1.s] = Released(Frame1.s)]
          BY <3>1 DEF EndClose, At, Free
      <4>2. Frame1.s \in Sockets /\ CallInv(Frame1)
          BY <1>0, <4>1, Innermost
      <4> QED BY <4>1, <4>2 DEF CallInv
    <3>2. CASE ape_socket_free
      <4>1. /\ Fires("free")
            /\ sock' = [sock EXCEPT ![Head(todo).s] = Released(Head(todo).s)]
          BY <3>2 DEF ape_socket_free, Free
      <4>2. PICK s \in Sockets : s = Head(todo).s
          BY <1>0, <4>1, Due
      <4>3. loop = "timers" /\ sock[s].state = "OFFLINE"
          BY <1>0, <4>1, <4>2, Due DEF SocketInv, DueInv
      <4> QED BY <4>1, <4>2, <4>3
    <3> QED BY <1>11, <3>1, <3>2
  <2>2. CASE UNCHANGED sock
      BY <2>2 DEF Turn
  <2>3. ASSUME NEW s \in Sockets, sock' = [sock EXCEPT ![s] = Released(s)],
               sock[s].state = "OFFLINE", loop = "timers"
        PROVE  Turn(t)
    <3>1. /\ \A u \in Sockets \ {s} : sock'[u] = sock[u]
          /\ sock'[s].state = "PENDING" /\ sock'[s].type = "UNKNOWN"
          /\ sock'[s].mem = "freed"
        BY <1>0, <2>3 DEF Released, Blank
    <3> QED BY <2>3, <3>1 DEF Turn
  <2> QED BY <2>1, <2>2, <2>3
<1> QED BY <1>1, <1>2, <1>3, <1>4, <1>5, <1>6, <1>7, <1>8, <1>9, <1>10, <1>11
        DEF Next, UserCall, Return, Dispatching, Firing, Peer

\* Events are polled, and the loop goes on, only between the calls.
LEMMA BatchNext ==
    ASSUME Next, SafeInv
    PROVE  \/ loop' = loop /\ Items(batch') \subseteq Items(batch)
           \/ /\ stack = <<>> /\ Items(batch') \subseteq registered
              /\ UNCHANGED <<stack, sock, registered>>
<1>1. CASE Poll
  <2>1. stack = <<>> /\ UNCHANGED <<stack, sock, registered>>
      BY <1>1 DEF Poll, Idle
  <2>2. PICK n \in 0 .. MaxBatch : \E b \in [1 .. n -> registered] : batch' = b
      BY <1>1 DEF Poll
  <2> QED BY <2>1, <2>2 DEF Items
<1>2. CASE BatchEnd \/ TimersEnd
  <2>1. /\ stack = <<>> /\ UNCHANGED <<stack, sock, registered>>
        /\ batch' = batch /\ batch = <<>>
      BY <1>2 DEF BatchEnd, TimersEnd, Idle, SafeInv, Shape
  <2> QED BY <2>1, ItemsEmpty
<1>3. CASE ServerEvent \/ ClientEvent
  <2>1. loop' = loop /\ batch # <<>> /\ batch' = Tail(batch)
      BY <1>3 DEF ServerEvent, ClientEvent
  <2>2. Items(batch) = {Head(batch)} \union Items(Tail(batch))
      BY <2>1, ItemsPop DEF SafeInv, Typed
  <2> QED BY <2>1, <2>2
<1>4. CASE UserCall
    BY <1>4 DEF UserCall, APE_socket_new, APE_socket_listen, APE_socket_connect,
           UserShutdown, APE_socket_shutdown_now, APE_socket_shutdown_delay,
           ape_socket_destroy, APE_socket_write
<1>5. CASE \/ ape_socket_read \/ AfterRead \/ ClientReadUdp \/ ClientWrite
           \/ WouldBlock \/ Return
    BY <1>5 DEF Return, CallbackReturn, EndClose, ReadyToConnect, DelayReturn,
           ape_socket_read, AfterRead, ClientReadUdp, ClientWrite, WouldBlock
<1>6. CASE \/ ape_socket_free \/ _ape_socket_destroy \/ ape_socket_connected
           \/ ape_socket_shutdown_delay_cb \/ DelayNotDue \/ Peer
    BY <1>6 DEF Peer, ape_socket_free, _ape_socket_destroy, ape_socket_connected,
           ape_socket_shutdown_delay_cb, DelayNotDue, ape_socket_read_udp,
           ape_socket_accept, DnsReply
<1> QED BY <1>1, <1>2, <1>3, <1>4, <1>5, <1>6
        DEF Next, Dispatching, Firing

\* What is registered for events listens or connects.
LEMMA RegisteredNext ==
    ASSUME Next, SafeInv, NEW s \in registered', s \notin registered
    PROVE  s \in Sockets /\ sock'[s].type # "UNKNOWN"
<1>0. sock \in [Sockets -> Socket]
    BY DEF SafeInv, Typed, CoreTyped
<1>1. ASSUME NEW t \in Sockets, NEW type \in {"SERVER", "CLIENT"}, NEW v,
             sock' = [sock EXCEPT ![t].type = type, ![t].state = v],
             registered' = registered \union {t}
      PROVE  s \in Sockets /\ sock'[s].type # "UNKNOWN"
  <2>1. s = t /\ sock[t] \in Socket
      BY <1>0, <1>1
  <2>2. sock'[t].type = type
      BY <1>0, <1>1, <2>1 DEF Socket
  <2> QED BY <2>1, <2>2
<1>2. ASSUME NEW t \in Sockets, APE_socket_listen(t)
      PROVE  s \in Sockets /\ sock'[s].type # "UNKNOWN"
    BY <1>1, <1>2 DEF APE_socket_listen
<1>3. CASE ReadyToConnect
  <2>1. PICK t \in Sockets : t = Frame1.s
      BY <1>3, ConnectEnds
  <2>2. /\ registered' = registered \union {t}
        /\ \E v : sock' = [sock EXCEPT ![t].type = "CLIENT", ![t].state = v]
      BY <1>3, <2>1, ConnectEnds DEF Ends
  <2> QED BY <1>1, <2>2
<1>4. ASSUME NEW c \in Sockets, ape_socket_accept(c)
      PROVE  s \in Sockets /\ sock'[s].type # "UNKNOWN"
  <2>1. s = c /\ sock'[c].type = "CLIENT"
      BY <1>0, <1>4 DEF ape_socket_accept, Fresh, Blank
  <2> QED BY <2>1
<1>5. ASSUME NEW t \in Sockets,
             \/ \E proto \in {"TCP", "UDP"} : APE_socket_new(t, proto)
             \/ APE_socket_connect(t) \/ APE_socket_shutdown_delay(t)
             \/ DnsReply(t)
      PROVE  FALSE
    BY <1>5 DEF APE_socket_new, APE_socket_connect, APE_socket_shutdown_delay,
           DnsReply
<1>6. ASSUME NEW t \in Sockets,
             \/ UserShutdown(t) \/ APE_socket_shutdown_now(t)
             \/ ape_socket_destroy(t) \/ APE_socket_write(t)
      PROVE  FALSE
    BY <1>6 DEF UserShutdown, APE_socket_shutdown_now, ape_socket_destroy,
           APE_socket_write, APE_socket_shutdown, ApeShutdown, BeginClose
<1>7. CASE \/ AfterRead \/ ClientWrite \/ _ape_socket_destroy
           \/ ape_socket_shutdown_delay_cb
    BY <1>7 DEF AfterRead, ClientWrite, _ape_socket_destroy,
           ape_socket_shutdown_delay_cb, ape_socket_do_jobs, Connection,
           APE_socket_shutdown, ApeShutdown, BeginClose
<1>8. CASE \/ CallbackReturn \/ EndClose \/ DelayReturn \/ Poll \/ ServerEvent
           \/ ClientEvent \/ BatchEnd \/ ape_socket_read \/ ClientReadUdp
           \/ WouldBlock \/ ape_socket_free \/ ape_socket_connected
           \/ DelayNotDue \/ TimersEnd \/ ape_socket_read_udp
    BY <1>8 DEF CallbackReturn, EndClose, DelayReturn, Poll, ServerEvent,
           ClientEvent, BatchEnd, ape_socket_read, ClientReadUdp, WouldBlock,
           ape_socket_free, ape_socket_connected, DelayNotDue, TimersEnd,
           ape_socket_read_udp
<1> QED BY <1>2, <1>3, <1>4, <1>5, <1>6, <1>7, <1>8
        DEF Next, UserCall, Return, Dispatching, Firing, Peer

\* No step breaks it.
LEMMA QuietNext == Quiet /\ QuietInv /\ [Next]_vars => QuietInv'
<1> SUFFICES ASSUME Quiet, QuietInv, [Next]_vars PROVE QuietInv'
    OBVIOUS
<1>0. Own /\ Safe /\ SafeInv /\ OwnInv
    BY OwnsIs DEF Quiet, Own, QuietInv
<1>1. SafeInv' /\ OwnInv'
    BY <1>0, SafeNext, OwnNext
<1>2. OwnsDescriptor'
  <2>1. \A s \in Sockets : Frames("on_disconnect", s)' # {} <=> Closing(s)'
      BY DEF Frames, Closing, Items
  <2> QED BY <1>1, <2>1 DEF OwnsDescriptor, OwnInv, Holds
<1>3. CASE UNCHANGED vars
  <2>1. UNCHANGED <<sock, registered, batch, loop, stack>>
      BY <1>3 DEF vars
  <2> QED BY <1>1, <1>2, <2>1
          DEF QuietInv, OwnInput, RoleInv, Served, ServedCall
<1>4. CASE Next
  <2>1. Stepped /\ \A s \in Sockets : Turn(s) /\ RoleInv(s)
      BY <1>0, <1>4, SteppedNext, TurnNext DEF QuietInv
  <2>2. \A s \in Sockets : RoleInv(s)'
      BY <1>0, <2>1, RoleKept
  <2>3. ASSUME NEW c \in Items(stack') PROVE "foreign" \notin c.arg
    <3>1. CASE c \in Items(stack)
        BY <3>1 DEF QuietInv, OwnInput, Items
    <3>2. CASE Begin(c)
        BY <3>2, BeginServed
    <3> QED BY <1>0, <2>1, <3>1, <3>2, SteppedItems
  <2>4. OwnInput'
      BY <2>3 DEF OwnInput, Items
  <2>5. ASSUME NEW s \in registered' PROVE sock'[s].type # "UNKNOWN"
    <3>1. CASE s \notin registered
        BY <1>0, <1>4, <3>1, RegisteredNext
    <3>2. CASE s \in registered
      <4>1. s \in Sockets /\ sock[s].type # "UNKNOWN" /\ sock[s].mem = "live"
          BY <1>0, <3>2
             DEF QuietInv, SafeInv, Typed, CoreTyped, SocketInv, StateInv, Live
      <4>2. sock'[s].mem = "live"
          BY <1>1, <4>1 DEF SafeInv, SocketInv, StateInv, Live
      <4> QED BY <2>1, <4>1, <4>2 DEF Turn
    <3> QED BY <3>1, <3>2
  <2>6. ASSUME NEW s \in Items(batch') PROVE Served(s)'
    <3>1. CASE loop' = loop /\ Items(batch') \subseteq Items(batch)
      <4>1. s \in Items(batch) /\ s \in Sockets
        <5>1. batch \in Seq(Sockets)
            BY <1>0 DEF SafeInv, Typed
        <5> QED BY <3>1, <5>1, ItemsTyped
      <4>2. loop = "batch"
          BY <1>0, <4>1, ItemsEmpty DEF SafeInv, Shape
      <4>3. Served(s) /\ Live(s)
          BY <1>0, <4>1 DEF QuietInv, SafeInv, SocketInv, StateInv
      <4> QED BY <2>1, <4>1, <4>2, <4>3, ServedKept
    <3>2. CASE /\ stack = <<>> /\ Items(batch') \subseteq registered
               /\ UNCHANGED <<stack, sock, registered>>
      <4>1. s \in registered /\ s \in Sockets
          BY <1>0, <3>2 DEF SafeInv, Typed, CoreTyped
      <4>2. sock[s].type # "UNKNOWN"
          BY <4>1 DEF QuietInv
      <4>3. sock[s].state # "OFFLINE"
        <5>1. ~Closing(s)
            BY <3>2, ItemsEmpty DEF Closing
        <5> QED BY <1>0, <4>1, <5>1 DEF SafeInv, SocketInv, StateInv
      <4> QED BY <3>2, <4>2, <4>3 DEF Served
    <3> QED BY <1>0, <1>4, <3>1, <3>2, BatchNext
  <2>7. ASSUME NEW c \in Items(stack') PROVE ServedCall(c)'
    <3>1. CASE loop' = loop
      <4>1. CASE c.at \notin {"accept", "recvfrom", "client", "afterread", "write"}
          BY <4>1 DEF ServedCall
      <4>2. CASE c.at \in {"accept", "recvfrom", "client", "afterread", "write"}
        <5>1. ServedCall(c) /\ Live(c.s) /\ c.s \in Sockets
          <6>1. CASE c \in Items(stack)
            <7>1. stack \in Seq(Calls)
                BY <1>0 DEF SafeInv, Typed, CoreTyped
            <7>2. c \in Calls
                BY <6>1, <7>1, ItemsTyped
            <7>3. c.s \in Sockets
                BY <4>2, <7>2 DEF Calls
            <7>4. CallInv(c)
                BY <1>0, <6>1, <7>3 DEF SafeInv, SocketInv
            <7> QED BY <6>1, <7>3, <7>4 DEF QuietInv, CallInv
          <6>2. CASE Begin(c)
              BY <4>2, <6>2, BeginServed DEF Begin
          <6> QED BY <1>0, <2>1, <6>1, <6>2, SteppedItems
        <5> QED BY <2>1, <3>1, <5>1, ServedCallKept
      <4> QED BY <4>1, <4>2
    <3>2. CASE stack = <<>> /\ UNCHANGED stack
        BY <3>2, ItemsEmpty
    <3> QED BY <1>0, <1>4, <3>1, <3>2, BatchNext
  <2> QED BY <1>1, <1>2, <2>2, <2>4, <2>5, <2>6, <2>7 DEF QuietInv
<1> QED BY <1>3, <1>4

\* The invariant, at the start.
LEMMA QuietInit == Init => QuietInv
<1> SUFFICES ASSUME Init PROVE QuietInv
    OBVIOUS
<1>1. SafeInv /\ OwnsDescriptor
    BY SafeInit, OwnInit, OwnsIs
<1> DEFINE c == Call("main", NoSocket, {})
<1>2. /\ sock = [s \in Sockets |-> Blank] /\ registered = {}
      /\ batch = <<>> /\ stack = <<c>>
    BY DEF Init
<1>3. c.at = "main" /\ c.arg = {}
    BY CallIs
<1> HIDE DEF c
<1>4. Items(stack) = {c} /\ Items(batch) = {} /\ OwnInput
    BY <1>2, <1>3, ItemsEmpty DEF Items, OwnInput
<1>5. ServedCall(c)
    BY <1>3 DEF ServedCall
<1>6. \A s \in Sockets : RoleInv(s)
    BY <1>2 DEF RoleInv, Blank
<1> QED BY <1>1, <1>2, <1>4, <1>5, <1>6 DEF QuietInv

\* It is true of every state.
LEMMA QuietCorrect ==
    ASSUME Quiet
    PROVE  Spec => []QuietInv
<1>1. QuietInv /\ [Next]_vars => QuietInv'
    BY QuietNext
<1> QED BY <1>1, QuietInit, PTL DEF Spec

\* With an application that, moreover, closes no server or UDP socket while
\* it loops on accept() or recvfrom(), a connection or a datagram comes from
\* the descriptor of the socket whose callback gets it (ape_socket_accept,
\* ape_socket_read_udp).
THEOREM OwnInputCorrect == ASSUME Quiet PROVE Spec => []OwnInput
<1>1. QuietInv => OwnInput
    BY DEF QuietInv
<1> QED BY <1>1, QuietCorrect, PTL

\* A call that begins is a callback of a socket that has not been told.
LEMMA QuietStep ==
    Quiet /\ QuietInv /\ [Next]_vars =>
       \A s \in Sockets :
          stack' # stack /\ Len(stack') >= Len(stack) /\ Head(stack').s = s
              /\ Head(stack').at \in Callbacks \ {"on_disconnect"}
          => sock[s].told = 0
<1> SUFFICES ASSUME Quiet, QuietInv, [Next]_vars, NEW s \in Sockets,
                    stack' # stack, Len(stack') >= Len(stack),
                    Head(stack').s = s,
                    Head(stack').at \in Callbacks \ {"on_disconnect"}
             PROVE  sock[s].told = 0
    OBVIOUS
<1>1. Next /\ Safe /\ SafeInv /\ stack \in Seq(Calls)
    BY DEF vars, Quiet, Own, QuietInv, SafeInv, Typed, CoreTyped
<1>2. Stepped
    BY <1>1, SteppedNext
<1>3. PICK rest \in Seq(Calls) :
          /\ rest = stack \/ (stack # <<>> /\ rest = Below)
          /\ \/ stack' = rest
             \/ \E a \in Calls : Begin(a) /\ stack' = <<a>> \o rest
             \/ \E a, b \in Calls :
                   Begin(a) /\ Begin(b) /\ stack' = <<a>> \o (<<b>> \o rest)
    BY <1>2 DEF Stepped
<1>4. stack' # rest
  <2>1. stack # <<>> => Len(Below) = Len(stack) - 1 /\ Len(stack) \in Nat
      BY <1>1 DEF Below
  <2> QED BY <1>3, <2>1
<1>5. ASSUME NEW a \in Calls, NEW q \in Seq(Calls), Begin(a),
             stack' = <<a>> \o q
      PROVE  sock[s].told = 0
  <2>1. Head(stack') = a
      BY <1>5
  <2> QED BY <1>5, <2>1, BeginServed
<1>6. \A b \in Calls : <<b>> \o rest \in Seq(Calls)
    OBVIOUS
<1> QED BY <1>3, <1>4, <1>5, <1>6

\* With the same application no callback of a socket begins after its
\* on_disconnect (APE_loop_run, ape_socket_read, ape_socket_do_jobs): what was
\* polled, scheduled or asked for before is ignored.
THEOREM QuietAfterDisconnectCorrect ==
    ASSUME Quiet PROVE Spec => QuietAfterDisconnect
<1>1. QuietInv /\ [Next]_vars =>
         [\A s \in Sockets :
             stack' # stack /\ Len(stack') >= Len(stack) /\ Head(stack').s = s
                 /\ Head(stack').at \in Callbacks \ {"on_disconnect"}
             => sock[s].told = 0]_vars
    BY QuietStep
<1> QED BY <1>1, QuietCorrect, PTL DEF Spec, QuietAfterDisconnect
=============================================================================
