--------------------------- MODULE SendPathProofs ---------------------------
(***************************************************************************)
(* Proofs about SendPath: the types, the free packet slots, the counters   *)
(* of buffered memory, the order of the job list and the release of the    *)
(* buffers.  The lemmas about sums, lists of packets and lists of slots    *)
(* come first, then one inductive invariant after the other.               *)
(***************************************************************************)
EXTENDS SendPath, FiniteSetTheorems, SequenceTheorems, WellFoundedInduction,
        TLAPS

-----------------------------------------------------------------------------
(* The inductive invariants.                                               *)

\* A packet in a list has bytes left.
Open(list) == \A k \in DOMAIN list : list[k].offset < list[k].len

OpenSlots(ss) == \A i \in 1 .. Len(ss) : Open(ss[i].list)

\* When a call may be in progress, and what it works on.
Phases ==
    /\ pc \in {"write", "jobs"} => state = "ONLINE"
    /\ state = "FREED" => pc = "user"
    /\ pc = "write" => writing.item \in DOMAIN length

\* A file job has its file.
FileJobs == \A i \in DOMAIN slots :
               Active(slots[i]) /\ Type(slots[i]) = {"SENDFILE"} => slots[i].file # 0

\* What the counters rest on.
CountInv == /\ TypeOK /\ Phases /\ SpareSlots /\ BufferAccounting
            /\ OpenSlots(slots) /\ FileJobs

\* Without files: the first n slots are active, each for one kind of job; a
\* list of packets is followed by a shutdown; if the slot behind them is the
\* current one, do_jobs is about to shut down.
JobList(n) ==
    /\ \A i \in DOMAIN slots : Active(slots[i]) <=> i <= n
    /\ current \in {n, n + 1}
    /\ \A i \in 1 .. n : Type(slots[i]) \in {{"WRITEV"}, {"SHUTDOWN"}}
    /\ \A i \in 1 .. n - 1 : {"SHUTDOWN"} \in {Type(slots[i]), Type(slots[i + 1])}
    /\ n > 0 /\ current = n + 1 =>
          Type(slots[1]) = {"SHUTDOWN"} /\ (state = "ONLINE" => pc = "jobs")
    /\ n = 0 => Type(slots[1]) \subseteq {"WRITEV"}
    /\ current = n \/ n = 0 =>
          \A i \in DOMAIN slots : i > n /\ i > 1 => slots[i].flags = {}

\* There is such a number of jobs.
JobsListed == \E n \in 0 .. Len(slots) : JobList(n)

\* Packets are in active write jobs only.
ListsInJobs ==
    \A i \in DOMAIN slots :
        /\ slots[i].ptr # "file"
        /\ slots[i].list # <<>> => Active(slots[i]) /\ Type(slots[i]) = {"WRITEV"}

\* While the kernel would block there is a job; while a write is tried there
\* is none.
Blocking ==
    /\ state # "FREED" /\ blocked => Active(slots[1])
    /\ pc = "write" => ~Active(slots[1])
    /\ pc = "jobs" => ~blocked

\* What is true of the jobs, without files.
JobInv == JobsListed /\ ListsInJobs /\ Blocking

\* An item is in one place: in one packet, or being written, or released.
Waits(x) == \E i \in DOMAIN slots : \E k \in DOMAIN slots[i].list :
               slots[i].list[k].item = x

Written(x) == pc = "write" /\ writing.item = x

\* No item is in two packets.
OnePacket ==
    \A i, j \in DOMAIN slots : \A k \in DOMAIN slots[i].list, l \in DOMAIN slots[j].list :
        slots[i].list[k].item = slots[j].list[l].item => i = j /\ k = l

\* Its buffer is released when it is in none and not being written.
OneHolder ==
    \A x \in Items :
        /\ x \notin DOMAIN length => released[x] = 0 /\ ~Waits(x)
        /\ x \in DOMAIN length
           => released[x] = IF Waits(x) \/ Written(x) THEN 0 ELSE 1
        /\ ~(Waits(x) /\ Written(x))

\* What ape_socket_free leaves.
NothingLeft ==
    state = "FREED" => total = 0 /\ \A i \in DOMAIN slots : slots[i].list = <<>>

\* What is true of the buffers, without files.
ReleaseInv == CountInv /\ JobInv /\ OnePacket /\ OneHolder /\ NothingLeft

-----------------------------------------------------------------------------
(* Induction, from the well-foundedness of < on the naturals.              *)

\* If 0 is in a set and each number is followed by the next, all are in it.
LEMMA Induction ==
    ASSUME NEW T \in SUBSET Nat, 0 \in T, \A n \in T : n + 1 \in T
    PROVE  T = Nat
<1>1. SUFFICES ASSUME Nat \ T # {} PROVE FALSE
    OBVIOUS
<1>2. PICK m \in Nat \ T : \A n \in Nat \ T : <<n, m>> \notin OpToRel(<, Nat)
    BY <1>1, NatLessThanWellFounded, WFMin, Zenon
<1>3. \A n \in Nat \ T : ~(n < m)
    BY <1>2, Zenon DEF OpToRel
<1>4. m # 0 /\ m - 1 \in Nat
    OBVIOUS
<1>5. m - 1 \in T
    BY <1>3, <1>4
<1> QED
    BY <1>4, <1>5

-----------------------------------------------------------------------------
(* Partial sums.                                                           *)

\* What the definition of PartialSums says of a function over 0 .. n.
IsSum(f, n, g) == g = [k \in 0 .. n |-> IF k = 0 THEN 0 ELSE g[k - 1] + f[k]]

\* The function that PartialSums chooses exists.
LEMMA SumsExist ==
    ASSUME NEW f \in Seq(Nat), NEW n \in 0 .. Len(f)
    PROVE  \E g \in [0 .. n -> Nat] : IsSum(f, n, g)
<1> DEFINE T == {m \in Nat : m <= Len(f) => \E g \in [0 .. m -> Nat] : IsSum(f, m, g)}
<1>1. 0 \in T
  <2>1. /\ [k \in 0 .. 0 |-> 0] \in [0 .. 0 -> Nat]
        /\ IsSum(f, 0, [k \in 0 .. 0 |-> 0])
    BY DEF IsSum
  <2> QED
    BY <2>1
<1>2. ASSUME NEW m \in T PROVE m + 1 \in T
  <2>1. SUFFICES ASSUME m + 1 <= Len(f)
                 PROVE  \E g \in [0 .. m + 1 -> Nat] : IsSum(f, m + 1, g)
    OBVIOUS
  <2>2. PICK g \in [0 .. m -> Nat] : IsSum(f, m, g)
    BY <2>1
  <2> DEFINE h == [k \in 0 .. m + 1 |-> IF k = m + 1 THEN g[m] + f[m + 1] ELSE g[k]]
  <2>3. h \in [0 .. m + 1 -> Nat]
    BY <2>1
  <2>4. \A k \in 0 .. m : g[k] = IF k = 0 THEN 0 ELSE g[k - 1] + f[k]
    BY <2>2, Zenon DEF IsSum
  <2>5. ASSUME NEW k \in 0 .. m + 1
        PROVE  h[k] = IF k = 0 THEN 0 ELSE h[k - 1] + f[k]
    <3>1. CASE k = m + 1
        <4>1. h[k] = g[m] + f[k] /\ h[k - 1] = g[m]
            BY <3>1
        <4> QED
            BY <3>1, <4>1
    <3>2. CASE k \in 0 .. m
        <4>1. h[k] = g[k] /\ (k # 0 => h[k - 1] = g[k - 1])
            BY <3>2
        <4> HIDE DEF h
        <4> QED
            BY <3>2, <4>1, <2>4
    <3> QED
        BY <3>1, <3>2
  <2>6. IsSum(f, m + 1, h)
    <3> HIDE DEF h
    <3>1. h = [k \in 0 .. m + 1 |-> h[k]]
        BY <2>3
    <3> QED
        BY <3>1, <2>5, Zenon DEF IsSum
  <2> QED
    BY <2>3, <2>6
<1>3. T = Nat
  <2>1. T \in SUBSET Nat
    BY DEF T
  <2> HIDE DEF T
  <2> QED
    BY <1>1, <1>2, <2>1, Induction
<1> QED
    BY <1>3

\* The partial sums, one after the other.
LEMMA SumsDef ==
    ASSUME NEW f \in Seq(Nat)
    PROVE  /\ PartialSums(f) \in [0 .. Len(f) -> Nat]
           /\ PartialSums(f)[0] = 0
           /\ \A k \in 1 .. Len(f) : PartialSums(f)[k] = PartialSums(f)[k - 1] + f[k]
<1>1. PartialSums(f) = CHOOSE g : IsSum(f, Len(f), g)
    BY Zenon DEF PartialSums, IsSum
<1>2. IsSum(f, Len(f), PartialSums(f))
  <2>1. \E g \in [0 .. Len(f) -> Nat] : IsSum(f, Len(f), g)
    <3>1. Len(f) \in 0 .. Len(f)
        OBVIOUS
    <3> QED
        BY <3>1, SumsExist
  <2> QED
    BY <1>1, <2>1, Zenon
<1> DEFINE s == PartialSums(f)
<1>3. \A k \in 0 .. Len(f) : s[k] = IF k = 0 THEN 0 ELSE s[k - 1] + f[k]
    BY <1>2, Zenon DEF IsSum
<1> DEFINE T == {m \in Nat : m <= Len(f) => s[m] \in Nat}
<1>4. T = Nat
  <2>1. T \in SUBSET Nat
    BY DEF T
  <2>2. 0 \in T
    BY <1>3
  <2>3. \A m \in T : m + 1 \in T
    BY <1>3
  <2> HIDE DEF T
  <2> QED
    BY <2>1, <2>2, <2>3, Induction
<1>5. s = [k \in 0 .. Len(f) |-> s[k]]
    BY <1>2, Zenon DEF IsSum
<1> QED
    BY <1>3, <1>4, <1>5

\* They do not decrease.
LEMMA SumsMonotone ==
    ASSUME NEW f \in Seq(Nat), NEW i \in 0 .. Len(f), NEW j \in i .. Len(f)
    PROVE  PartialSums(f)[i] <= PartialSums(f)[j]
<1> DEFINE s == PartialSums(f)
           P(m) == i + m <= Len(f) => s[i] <= s[i + m]
           T == {m \in Nat : P(m)}
<1>1. /\ s \in [0 .. Len(f) -> Nat]
      /\ \A k \in 1 .. Len(f) : s[k] = s[k - 1] + f[k]
    BY SumsDef
<1>2. Len(f) \in Nat /\ i \in Nat /\ j \in Nat /\ f \in [1 .. Len(f) -> Nat]
    OBVIOUS
<1> HIDE DEF s
<1>3. P(0)
    BY <1>1, <1>2
<1>4. ASSUME NEW m \in Nat, P(m) PROVE P(m + 1)
  <2>1. SUFFICES ASSUME i + (m + 1) <= Len(f) PROVE s[i] <= s[i + (m + 1)]
    OBVIOUS
  <2>2. s[i + (m + 1)] = s[i + m] + f[i + (m + 1)] /\ s[i] <= s[i + m]
    BY <1>1, <1>2, <1>4, <2>1
  <2>3. /\ i \in 0 .. Len(f) /\ i + m \in 0 .. Len(f)
        /\ i + (m + 1) \in 1 .. Len(f)
    BY <1>2, <2>1
  <2>4. s[i] \in Nat /\ s[i + m] \in Nat /\ f[i + (m + 1)] \in Nat
    BY <1>1, <1>2, <2>3
  <2> QED
    BY <2>2, <2>4
<1> HIDE DEF P
<1>5. T = Nat
  <2>1. T \in SUBSET Nat /\ 0 \in T /\ \A m \in T : m + 1 \in T
    BY <1>3, <1>4
  <2> HIDE DEF T
  <2> QED
    BY <2>1, Induction
<1>6. P(j - i)
    BY <1>2, <1>5
<1> QED
    BY <1>2, <1>6 DEF s, P

\* Behind a and b, f and g have n equal numbers.
SameRun(f, a, g, b, n) ==
    /\ a + n <= Len(f) /\ b + n <= Len(g)
    /\ \A j \in 1 .. n : f[a + j] = g[b + j]

\* Two runs of equal numbers add the same.
LEMMA SumsOfRun ==
    ASSUME NEW f \in Seq(Nat), NEW g \in Seq(Nat),
           NEW a \in 0 .. Len(f), NEW b \in 0 .. Len(g), NEW n \in Nat,
           SameRun(f, a, g, b, n)
    PROVE  \A j \in 0 .. n : PartialSums(f)[a + j] - PartialSums(f)[a]
                             = PartialSums(g)[b + j] - PartialSums(g)[b]
<1> DEFINE s == PartialSums(f)
           t == PartialSums(g)
           P(m) == m <= n => s[a + m] - s[a] = t[b + m] - t[b]
           T == {m \in Nat : P(m)}
<1>1. /\ s \in [0 .. Len(f) -> Nat]
      /\ \A k \in 1 .. Len(f) : s[k] = s[k - 1] + f[k]
    BY SumsDef
<1>2. /\ t \in [0 .. Len(g) -> Nat]
      /\ \A k \in 1 .. Len(g) : t[k] = t[k - 1] + g[k]
    BY SumsDef
<1>3. /\ Len(f) \in Nat /\ a \in Nat /\ f \in [1 .. Len(f) -> Nat]
      /\ Len(g) \in Nat /\ b \in Nat /\ g \in [1 .. Len(g) -> Nat]
      /\ a + n <= Len(f) /\ b + n <= Len(g)
    BY DEF SameRun
<1> HIDE DEF s, t
<1>4. P(0)
  <2>1. a + 0 = a /\ b + 0 = b /\ a \in 0 .. Len(f) /\ b \in 0 .. Len(g)
    BY <1>3
  <2>2. s[a] \in Nat /\ t[b] \in Nat
    BY <1>1, <1>2, <2>1
  <2>3. s[a] - s[a] = t[b] - t[b]
    BY <2>2
  <2> QED
    BY <2>1, <2>3
<1>5. ASSUME NEW m \in Nat, P(m) PROVE P(m + 1)
  <2>1. SUFFICES ASSUME m + 1 <= n
                 PROVE  s[a + (m + 1)] - s[a] = t[b + (m + 1)] - t[b]
    OBVIOUS
  <2>2. s[a + (m + 1)] = s[a + m] + f[a + (m + 1)]
    BY <1>1, <1>3, <2>1
  <2>3. t[b + (m + 1)] = t[b + m] + g[b + (m + 1)]
    BY <1>2, <1>3, <2>1
  <2>4. m + 1 \in 1 .. n
    BY <2>1
  <2>5. f[a + (m + 1)] = g[b + (m + 1)]
    BY <2>4 DEF SameRun
  <2>6. s[a + m] - s[a] = t[b + m] - t[b]
    BY <1>5, <2>1
  <2>7. /\ a \in 0 .. Len(f) /\ a + m \in 0 .. Len(f) /\ a + (m + 1) \in 1 .. Len(f)
        /\ b \in 0 .. Len(g) /\ b + m \in 0 .. Len(g)
    BY <1>3, <2>1
  <2>8. /\ s[a] \in Nat /\ s[a + m] \in Nat /\ t[b] \in Nat /\ t[b + m] \in Nat
        /\ f[a + (m + 1)] \in Nat
    BY <1>1, <1>2, <1>3, <2>7
  <2>9. (s[a + m] + f[a + (m + 1)]) - s[a] = (t[b + m] + f[a + (m + 1)]) - t[b]
    <3>1. \A u, v, w, x, y \in Nat : u - v = w - x => (u + y) - v = (w + y) - x
        OBVIOUS
    <3> DEFINE u == s[a + m] v == s[a] w == t[b + m] x == t[b] y == f[a + (m + 1)]
    <3>2. u \in Nat /\ v \in Nat /\ w \in Nat /\ x \in Nat /\ y \in Nat
        BY <2>8
    <3>3. u - v = w - x
        BY <2>6
    <3> HIDE DEF u, v, w, x, y
    <3>4. (u + y) - v = (w + y) - x
        BY <3>2, <3>3
    <3> QED
        BY <3>4 DEF u, v, w, x, y
  <2> QED
    BY <2>2, <2>3, <2>5, <2>9
<1> HIDE DEF P
<1>6. T = Nat
  <2>1. T \in SUBSET Nat /\ 0 \in T /\ \A m \in T : m + 1 \in T
    BY <1>4, <1>5
  <2> HIDE DEF T
  <2> QED
    BY <2>1, Induction
<1>7. \A j \in 0 .. n : P(j) /\ j <= n
    BY <1>6
<1> QED
    BY <1>7 DEF s, t, P

\* The same, of all the numbers in front.
LEMMA SumsAgree ==
    ASSUME NEW f \in Seq(Nat), NEW g \in Seq(Nat),
           NEW n \in Nat, SameRun(f, 0, g, 0, n)
    PROVE  \A j \in 0 .. n : PartialSums(f)[j] = PartialSums(g)[j]
<1>1. /\ 0 \in 0 .. Len(f) /\ 0 \in 0 .. Len(g)
      /\ 0 + n <= Len(f) /\ 0 + n <= Len(g)
    BY DEF SameRun
<1>2. \A j \in 0 .. n : PartialSums(f)[0 + j] - PartialSums(f)[0]
                        = PartialSums(g)[0 + j] - PartialSums(g)[0]
    BY <1>1, SumsOfRun
<1>3. /\ PartialSums(f) \in [0 .. Len(f) -> Nat] /\ PartialSums(f)[0] = 0
      /\ PartialSums(g) \in [0 .. Len(g) -> Nat] /\ PartialSums(g)[0] = 0
    BY SumsDef
<1>4. ASSUME NEW j \in 0 .. n PROVE PartialSums(f)[j] = PartialSums(g)[j]
  <2>1. j + 0 = j /\ 0 + j = j /\ j \in 0 .. Len(f) /\ j \in 0 .. Len(g)
    BY <1>1
  <2>2. PartialSums(f)[j] \in Nat /\ PartialSums(g)[j] \in Nat
    BY <1>3, <2>1
  <2> QED
    BY <1>2, <1>3, <2>1, <2>2
<1> QED
    BY <1>4

\* Numbers that are not greater do not add more.
LEMMA SumsBelow ==
    ASSUME NEW f \in Seq(Nat), NEW g \in Seq(Nat), Len(f) = Len(g),
           \A j \in 1 .. Len(f) : f[j] <= g[j]
    PROVE  SumOf(f) <= SumOf(g)
<1> DEFINE s == PartialSums(f)
           t == PartialSums(g)
           P(m) == m <= Len(f) => s[m] <= t[m]
           T == {m \in Nat : P(m)}
<1>1. /\ s \in [0 .. Len(f) -> Nat] /\ s[0] = 0
      /\ \A k \in 1 .. Len(f) : s[k] = s[k - 1] + f[k]
    BY SumsDef
<1>2. /\ t \in [0 .. Len(f) -> Nat] /\ t[0] = 0
      /\ \A k \in 1 .. Len(f) : t[k] = t[k - 1] + g[k]
    BY SumsDef
<1>3. /\ Len(f) \in Nat /\ f \in [1 .. Len(f) -> Nat] /\ g \in [1 .. Len(f) -> Nat]
    OBVIOUS
<1> HIDE DEF s, t
<1>4. P(0)
    BY <1>1, <1>2
<1>5. ASSUME NEW m \in Nat, P(m) PROVE P(m + 1)
  <2>1. SUFFICES ASSUME m + 1 <= Len(f) PROVE s[m + 1] <= t[m + 1]
    OBVIOUS
  <2>2. m + 1 \in 1 .. Len(f) /\ (m + 1) - 1 = m /\ m \in 0 .. Len(f)
    BY <1>3, <2>1
  <2>3. s[m + 1] = s[m] + f[m + 1] /\ t[m + 1] = t[m] + g[m + 1]
    BY <1>1, <1>2, <2>2
  <2>4. s[m] <= t[m] /\ f[m + 1] <= g[m + 1]
    BY <1>5, <2>1, <2>2
  <2>5. s[m] \in Nat /\ t[m] \in Nat /\ f[m + 1] \in Nat /\ g[m + 1] \in Nat
    BY <1>1, <1>2, <1>3, <2>2
  <2> QED
    BY SMTT(30), <2>3, <2>4, <2>5
<1> HIDE DEF P
<1>6. T = Nat
  <2>1. T \in SUBSET Nat /\ 0 \in T /\ \A m \in T : m + 1 \in T
    BY <1>4, <1>5
  <2> HIDE DEF T
  <2> QED
    BY <2>1, Induction
<1>7. P(Len(f))
    BY <1>3, <1>6
<1> QED
    BY <1>3, <1>7 DEF s, t, P, SumOf

\* Zeros add nothing.
LEMMA SumsOfZeros ==
    ASSUME NEW f \in Seq(Nat), NEW a \in 0 .. Len(f),
           \A j \in a + 1 .. Len(f) : f[j] = 0
    PROVE  \A j \in a .. Len(f) : PartialSums(f)[j] = PartialSums(f)[a]
<1> DEFINE s == PartialSums(f)
           P(m) == a + m <= Len(f) => s[a + m] = s[a]
           T == {m \in Nat : P(m)}
<1>1. /\ s \in [0 .. Len(f) -> Nat]
      /\ \A k \in 1 .. Len(f) : s[k] = s[k - 1] + f[k]
    BY SumsDef
<1>2. Len(f) \in Nat /\ a \in Nat
    OBVIOUS
<1> HIDE DEF s
<1>3. P(0)
    BY <1>1, <1>2
<1>4. ASSUME NEW m \in Nat, P(m) PROVE P(m + 1)
  <2>1. SUFFICES ASSUME a + (m + 1) <= Len(f) PROVE s[a + (m + 1)] = s[a]
    OBVIOUS
  <2>2. /\ a + (m + 1) \in 1 .. Len(f) /\ a + (m + 1) \in a + 1 .. Len(f)
        /\ (a + (m + 1)) - 1 = a + m /\ a + m \in 0 .. Len(f)
    BY <1>2, <2>1
  <2>3. s[a + (m + 1)] = s[a + m] + f[a + (m + 1)]
    BY <1>1, <2>2
  <2>4. f[a + (m + 1)] = 0 /\ s[a + m] = s[a] /\ s[a + m] \in Nat
    <3>1. f[a + (m + 1)] = 0 /\ s[a + m] \in Nat
        BY <1>1, <2>2
    <3>2. a + m <= Len(f)
        BY <1>2, <2>1
    <3> QED
        BY <1>4, <3>1, <3>2
  <2> QED
    BY <2>3, <2>4
<1> HIDE DEF P
<1>5. T = Nat
  <2>1. T \in SUBSET Nat /\ 0 \in T /\ \A m \in T : m + 1 \in T
    BY <1>3, <1>4
  <2> HIDE DEF T
  <2> QED
    BY <2>1, Induction
<1>6. ASSUME NEW j \in a .. Len(f) PROVE s[j] = s[a]
  <2>1. j - a \in Nat /\ a + (j - a) = j /\ j <= Len(f)
    BY <1>2
  <2>2. P(j - a)
    BY <1>5, <2>1
  <2> QED
    BY <2>1, <2>2 DEF P
<1> QED
    BY <1>6 DEF s

\* f and g are as long, and differ in the i-th number only.
DifferAt(f, g, i) ==
    Len(f) = Len(g) /\ \A j \in 1 .. Len(f) : j # i => f[j] = g[j]

\* One number is changed: the sums from it on change by the difference.
LEMMA SumsChanged ==
    ASSUME NEW f \in Seq(Nat), NEW g \in Seq(Nat), NEW i \in 1 .. Len(f),
           DifferAt(f, g, i)
    PROVE  /\ \A j \in 0 .. i - 1 : PartialSums(g)[j] = PartialSums(f)[j]
           /\ \A j \in i .. Len(f) :
                 PartialSums(g)[j] = PartialSums(f)[j] + g[i] - f[i]
<1> DEFINE s == PartialSums(f)
           t == PartialSums(g)
           m == i - 1
           n == Len(f) - i
<1>1. Len(g) = Len(f) /\ Len(f) \in Nat
    BY DEF DifferAt
<1>2. /\ s \in [0 .. Len(f) -> Nat] /\ s[i] = s[m] + f[i]
      /\ t \in [0 .. Len(f) -> Nat] /\ t[i] = t[m] + g[i]
    BY <1>1, SumsDef
<1>3. /\ i \in Nat /\ i \in 0 .. Len(f) /\ m \in Nat /\ m \in 0 .. Len(f)
      /\ f[i] \in Nat /\ g[i] \in Nat /\ n \in Nat
    BY <1>1
<1>4. \A j \in 0 .. m : s[j] = t[j]
  <2>1. SameRun(f, 0, g, 0, m)
    BY <1>1 DEF DifferAt, SameRun
  <2> QED
    BY <1>3, <2>1, SumsAgree
<1>5. \A j \in 0 .. n : s[i + j] - s[i] = t[i + j] - t[i]
  <2>1. SameRun(f, i, g, i, n)
    <3>1. ASSUME NEW j \in 1 .. n PROVE f[i + j] = g[i + j]
        <4>1. i + j \in 1 .. Len(f) /\ i + j # i
            BY <1>1
        <4> QED
            BY <4>1 DEF DifferAt
    <3> QED
        BY <1>1, <3>1 DEF SameRun
  <2>2. i \in 0 .. Len(f) /\ i \in 0 .. Len(g) /\ n \in Nat
    BY <1>1, <1>3
  <2> HIDE DEF s, t, n
  <2>3. \A j \in 0 .. n : PartialSums(f)[i + j] - PartialSums(f)[i]
                           = PartialSums(g)[i + j] - PartialSums(g)[i]
    BY <2>1, <2>2, SumsOfRun, Zenon
  <2> QED
    BY <2>3 DEF s, t
<1>6. ASSUME NEW j \in i .. Len(f) PROVE t[j] = s[j] + g[i] - f[i]
  <2>1. j - i \in 0 .. n /\ i + (j - i) = j /\ j \in 0 .. Len(f)
    BY <1>1
  <2> HIDE DEF s, t, m, n
  <2>2. s[j] - s[i] = t[j] - t[i]
    BY <1>5, <2>1
  <2>3. s[j] \in Nat /\ t[j] \in Nat /\ s[m] \in Nat
    BY <1>2, <1>3, <2>1
  <2>4. t[m] = s[m]
    BY <1>3, <1>4
  <2>5. PICK x \in Nat, y \in Nat, z \in Nat, u \in Nat, v \in Nat :
            x = s[j] /\ y = t[j] /\ z = s[m] /\ u = f[i] /\ v = g[i]
    BY <1>3, <2>3
  <2>6. x - (z + u) = y - (z + v)
    BY <1>2, <2>2, <2>4, <2>5
  <2>7. y = x + v - u
    BY <2>6
  <2> QED
    BY <2>5, <2>7
<1> QED
    BY <1>4, <1>6

\* g is f with its first number moved to the c-th place.
IsRotated(f, g, c) ==
    /\ Len(f) = Len(g) /\ g[c] = f[1]
    /\ \A j \in 1 .. c - 1 : g[j] = f[j + 1]
    /\ \A j \in c + 1 .. Len(f) : g[j] = f[j]

\* The first number moves to the c-th place.
LEMMA SumsRotated ==
    ASSUME NEW f \in Seq(Nat), NEW g \in Seq(Nat), NEW c \in 1 .. Len(f),
           IsRotated(f, g, c)
    PROVE  /\ \A j \in 0 .. c - 1 : PartialSums(g)[j] = PartialSums(f)[j + 1] - f[1]
           /\ \A j \in c .. Len(f) : PartialSums(g)[j] = PartialSums(f)[j]
<1> DEFINE s == PartialSums(f)
           t == PartialSums(g)
           m == c - 1
           n == Len(f) - c
<1>1. Len(g) = Len(f) /\ Len(f) \in Nat /\ g[c] = f[1]
    BY DEF IsRotated
<1>2. /\ s \in [0 .. Len(f) -> Nat] /\ s[0] = 0 /\ s[1] = s[0] + f[1] /\ s[c] = s[m] + f[c]
      /\ t \in [0 .. Len(f) -> Nat] /\ t[0] = 0 /\ t[c] = t[m] + f[1]
  <2>1. 1 \in 1 .. Len(f) /\ 1 - 1 = 0
    BY <1>1
  <2> QED
    BY <1>1, <2>1, SumsDef
<1>3. /\ c \in Nat /\ c \in 0 .. Len(f) /\ m \in Nat /\ n \in Nat
      /\ f[1] \in Nat /\ 1 \in 0 .. Len(f) /\ 0 \in 0 .. Len(f) /\ m + 1 = c
    BY <1>1
<1>4. \A j \in 0 .. m : s[1 + j] - s[1] = t[0 + j] - t[0]
  <2>1. SameRun(f, 1, g, 0, m)
    BY <1>1 DEF IsRotated, SameRun
  <2> QED
    BY <1>1, <1>3, <2>1, SumsOfRun
<1>5. \A j \in 0 .. n : s[c + j] - s[c] = t[c + j] - t[c]
  <2>1. SameRun(f, c, g, c, n)
    <3>1. ASSUME NEW j \in 1 .. n PROVE f[c + j] = g[c + j]
        <4>1. c + j \in c + 1 .. Len(f)
            BY SMTT(30), <1>1
        <4> QED
            BY <4>1 DEF IsRotated
    <3> QED
        BY <1>1, <3>1 DEF SameRun
  <2>2. c \in 0 .. Len(f) /\ c \in 0 .. Len(g) /\ n \in Nat
    BY <1>1, <1>3
  <2> HIDE DEF s, t, n
  <2>3. \A j \in 0 .. n : PartialSums(f)[c + j] - PartialSums(f)[c]
                           = PartialSums(g)[c + j] - PartialSums(g)[c]
    BY <2>1, <2>2, SumsOfRun, Zenon
  <2> QED
    BY <2>3 DEF s, t
<1> HIDE DEF s, t, m
<1>6. ASSUME NEW j \in 0 .. m PROVE t[j] = s[j + 1] - f[1]
  <2>1. /\ 1 + j = j + 1 /\ 0 + j = j /\ j + 1 \in 0 .. Len(f) /\ j \in 0 .. Len(f)
    BY <1>1, <1>3
  <2>2. s[j + 1] \in Nat /\ t[j] \in Nat
    BY <1>2, <2>1
  <2>3. s[j + 1] - s[1] = t[j] - t[0]
    BY <1>4, <2>1
  <2> QED
    BY <1>2, <1>3, <2>2, <2>3
<1>7. t[c] = s[c]
  <2>1. t[m] = s[c] - f[1]
    BY <1>3, <1>6
  <2>2. s[c] \in Nat
    BY <1>2, <1>3
  <2> QED
    BY <1>2, <1>3, <2>1, <2>2
<1>8. ASSUME NEW j \in c .. Len(f) PROVE t[j] = s[j]
  <2>1. j - c \in 0 .. n /\ c + (j - c) = j /\ j \in 0 .. Len(f)
    BY <1>1, <1>3
  <2> HIDE DEF n
  <2>2. s[j] - s[c] = t[j] - s[c]
    BY <1>5, <1>7, <2>1
  <2>3. s[j] \in Nat /\ t[j] \in Nat /\ s[c] \in Nat
    BY <1>2, <1>3, <2>1
  <2> QED
    BY <2>2, <2>3
<1> QED
    BY <1>6, <1>8 DEF s, t, m

\* Every unit of the sum is in one of the numbers.
LEMMA SumsLocate ==
    ASSUME NEW f \in Seq(Nat), NEW u \in 1 .. SumOf(f)
    PROVE  \E k \in 1 .. Len(f) : PartialSums(f)[k - 1] < u /\ u <= PartialSums(f)[k]
<1> DEFINE s == PartialSums(f)
           P(m) == m <= Len(f) /\ u <= s[m] => \E k \in 1 .. m : s[k - 1] < u /\ u <= s[k]
           T == {m \in Nat : P(m)}
<1>1. s \in [0 .. Len(f) -> Nat] /\ s[0] = 0
    BY SumsDef
<1>2. Len(f) \in Nat /\ u <= s[Len(f)] /\ u \in Nat /\ u > 0
    BY <1>1 DEF SumOf
<1> HIDE DEF s
<1>3. P(0)
    BY <1>1, <1>2
<1>4. ASSUME NEW m \in Nat, P(m) PROVE P(m + 1)
  <2>1. SUFFICES ASSUME m + 1 <= Len(f), u <= s[m + 1]
                 PROVE  \E k \in 1 .. m + 1 : s[k - 1] < u /\ u <= s[k]
    OBVIOUS
  <2>2. CASE u <= s[m]
    BY <1>2, <1>4, <2>1, <2>2
  <2>3. CASE ~(u <= s[m])
    <3>1. (m + 1) - 1 = m /\ m \in 0 .. Len(f) /\ m + 1 \in 1 .. m + 1
        BY <1>2, <2>1
    <3>2. s[m] \in Nat
        BY <1>1, <3>1
    <3>3. s[(m + 1) - 1] < u
        BY <1>2, <2>3, <3>1, <3>2
    <3> QED
        BY <2>1, <3>1, <3>3
  <2> QED
    BY <2>2, <2>3
<1> HIDE DEF P
<1>5. T = Nat
  <2>1. T \in SUBSET Nat /\ 0 \in T /\ \A m \in T : m + 1 \in T
    BY <1>3, <1>4
  <2> HIDE DEF T
  <2> QED
    BY <2>1, Induction
<1>6. P(Len(f))
    BY <1>2, <1>5
<1> QED
    BY <1>2, <1>6 DEF s, P

-----------------------------------------------------------------------------
(* Lists of packets.                                                       *)

\* What the packets of a list have left.
LEMMA LeftsType ==
    ASSUME NEW list \in Seq(Packet), Open(list)
    PROVE  /\ Lefts(list) \in Seq(Nat) /\ Len(Lefts(list)) = Len(list)
           /\ \A k \in 1 .. Len(list) :
                 /\ Lefts(list)[k] = Left(list[k])
                 /\ Left(list[k]) \in Nat \ {0}
<1>1. ASSUME NEW k \in 1 .. Len(list) PROVE Left(list[k]) \in Nat \ {0}
  <2>1. list[k] \in Packet /\ list[k].offset < list[k].len
    BY DEF Open
  <2>2. PICK o \in Nat, l \in Nat : o = list[k].offset /\ l = list[k].len
    BY <2>1 DEF Packet
  <2> QED
    BY <2>1, <2>2 DEF Left
<1>2. Lefts(list) = [k \in 1 .. Len(list) |-> Left(list[k])]
    BY DEF Lefts
<1> QED
    BY <1>1, <1>2

\* What is left before a packet, one packet after the other.
LEMMA BeforeDef ==
    ASSUME NEW list \in Seq(Packet), Open(list)
    PROVE  /\ LeftIn(list) \in Nat
           /\ Before(list, 1) = 0 /\ Before(list, Len(list) + 1) = LeftIn(list)
           /\ \A k \in 1 .. Len(list) + 1 : Before(list, k) \in 0 .. LeftIn(list)
           /\ \A k \in 1 .. Len(list) :
                 /\ Left(list[k]) \in Nat \ {0}
                 /\ Before(list, k + 1) = Before(list, k) + Left(list[k])
<1> DEFINE f == Lefts(list)
<1>1. /\ f \in Seq(Nat) /\ Len(f) = Len(list) /\ Len(list) \in Nat
      /\ \A k \in 1 .. Len(list) : f[k] = Left(list[k]) /\ Left(list[k]) \in Nat \ {0}
    BY LeftsType
<1> HIDE DEF f
<1>2. /\ PartialSums(f) \in [0 .. Len(list) -> Nat] /\ PartialSums(f)[0] = 0
      /\ \A k \in 1 .. Len(list) : PartialSums(f)[k] = PartialSums(f)[k - 1] + f[k]
    BY <1>1, SumsDef
<1>3. \A k : Before(list, k) = PartialSums(f)[k - 1]
    BY DEF Before, f
<1>4. LeftIn(list) = PartialSums(f)[Len(list)]
    BY <1>1 DEF LeftIn, SumOf, f
<1>5. LeftIn(list) \in Nat
    BY <1>1, <1>2, <1>4
<1>6. Before(list, 1) = 0 /\ Before(list, Len(list) + 1) = LeftIn(list)
  <2>1. 1 - 1 = 0 /\ (Len(list) + 1) - 1 = Len(list)
    BY <1>1
  <2>2. /\ Before(list, 1) = PartialSums(f)[1 - 1]
        /\ Before(list, Len(list) + 1) = PartialSums(f)[(Len(list) + 1) - 1]
    BY <1>3
  <2> QED
    BY <1>2, <1>4, <2>1, <2>2
<1>7. ASSUME NEW k \in 1 .. Len(list) + 1 PROVE Before(list, k) \in 0 .. LeftIn(list)
  <2>1. k - 1 \in 0 .. Len(f) /\ Len(f) \in k - 1 .. Len(f)
    BY <1>1
  <2>2. PartialSums(f)[k - 1] \in Nat
    BY <1>1, <1>2, <2>1
  <2>3. PartialSums(f)[k - 1] <= PartialSums(f)[Len(f)]
    BY <1>1, <2>1, SumsMonotone
  <2> QED
    BY <1>1, <1>3, <1>4, <1>5, <2>2, <2>3
<1>8. ASSUME NEW k \in 1 .. Len(list)
      PROVE  /\ Left(list[k]) \in Nat \ {0}
             /\ Before(list, k + 1) = Before(list, k) + Left(list[k])
  <2>1. (k + 1) - 1 = k
    OBVIOUS
  <2>2. PartialSums(f)[k] = PartialSums(f)[k - 1] + Left(list[k])
    BY <1>1, <1>2
  <2> QED
    BY <1>1, <1>3, <2>1, <2>2
<1> QED
    BY <1>5, <1>6, <1>7, <1>8

\* It does not decrease.
LEMMA BeforeMonotone ==
    ASSUME NEW list \in Seq(Packet), Open(list),
           NEW j \in 1 .. Len(list) + 1, NEW k \in j .. Len(list) + 1
    PROVE  Before(list, j) <= Before(list, k)
<1>1. Lefts(list) \in Seq(Nat) /\ Len(Lefts(list)) = Len(list) /\ Len(list) \in Nat
    BY LeftsType
<1>2. j - 1 \in 0 .. Len(Lefts(list)) /\ k - 1 \in j - 1 .. Len(Lefts(list))
    BY <1>1
<1> QED
    BY <1>1, <1>2, SumsMonotone DEF Before

\* What writev is offered is no more than is left.
LEMMA OfferedBound ==
    ASSUME NEW list \in Seq(Packet), Open(list)
    PROVE  Offered(list) \in 0 .. LeftIn(list)
<1> DEFINE m == IF Len(list) < MaxChunks THEN Len(list) ELSE MaxChunks
<1>1. m \in Nat /\ 1 + m \in 1 .. Len(list) + 1
    BY SendPathAssumption
<1> QED
    BY <1>1, BeforeDef DEF Offered

\* The packet of a byte.
LEMMA PacketOfDef ==
    ASSUME NEW list \in Seq(Packet), Open(list), NEW j \in 1 .. LeftIn(list)
    PROVE  /\ PacketOf(list, j) \in 1 .. Len(list)
           /\ Before(list, PacketOf(list, j)) < j
           /\ j <= Before(list, PacketOf(list, j)) + Left(list[PacketOf(list, j)])
<1> DEFINE f == Lefts(list)
           Has(k) == Before(list, k) < j /\ j <= Before(list, k) + Left(list[k])
<1>1. f \in Seq(Nat) /\ Len(f) = Len(list) /\ Len(list) \in Nat
    BY LeftsType
<1>2. j \in 1 .. SumOf(f)
    BY DEF LeftIn
<1> HIDE DEF f
<1>3. PICK k \in 1 .. Len(f) : PartialSums(f)[k - 1] < j /\ j <= PartialSums(f)[k]
    BY <1>1, <1>2, SumsLocate
<1>4. Has(k)
  <2>1. (k + 1) - 1 = k /\ k \in 1 .. Len(list)
    BY <1>1
  <2>2. Before(list, k) = PartialSums(f)[k - 1] /\ Before(list, k + 1) = PartialSums(f)[k]
    BY <2>1 DEF Before, f
  <2>3. Before(list, k + 1) = Before(list, k) + Left(list[k])
    BY <2>1, BeforeDef
  <2> QED
    BY <1>3, <2>2, <2>3
<1>5. k \in DOMAIN list
    BY <1>1, <1>3
<1>6. PacketOf(list, j) = CHOOSE i \in DOMAIN list : Has(i)
    BY DEF PacketOf
<1> HIDE DEF Has
<1>7. PacketOf(list, j) \in DOMAIN list /\ Has(PacketOf(list, j))
    BY <1>4, <1>5, <1>6, Zenon
<1> QED
    BY <1>7 DEF Has

\* The first packet that is not finished when n bytes are taken.
LEMMA FirstLeftDef ==
    ASSUME NEW list \in Seq(Packet), Open(list), NEW n \in 0 .. LeftIn(list),
           NEW first, first = FirstLeft(list, n)
    PROVE  /\ first \in 1 .. Len(list) + 1
           /\ Before(list, first) <= n
           /\ first <= Len(list) => n < Before(list, first) + Left(list[first])
           /\ n = LeftIn(list) <=> first = Len(list) + 1
<1>1. LeftIn(list) \in Nat /\ Len(list) \in Nat
    BY BeforeDef
<1>2. CASE n = LeftIn(list)
  <2>1. first = Len(list) + 1
    BY <1>2 DEF FirstLeft
  <2>2. Before(list, first) = n
    BY <1>2, <2>1, BeforeDef
  <2> QED
    BY <1>1, <1>2, <2>1, <2>2
<1>3. CASE n # LeftIn(list)
  <2>1. first = PacketOf(list, n + 1) /\ n + 1 \in 1 .. LeftIn(list)
    BY <1>1, <1>3 DEF FirstLeft
  <2>2. /\ first \in 1 .. Len(list)
        /\ Before(list, first) < n + 1
        /\ n + 1 <= Before(list, first) + Left(list[first])
    BY <2>1, PacketOfDef
  <2>3. first \in 1 .. Len(list) + 1 /\ first # Len(list) + 1
    BY <1>1, <2>2
  <2>4. Before(list, first) \in Nat /\ Left(list[first]) \in Nat
    BY <2>2, <2>3, BeforeDef
  <2>5. PICK b \in Nat, l \in Nat : b = Before(list, first) /\ l = Left(list[first])
    BY <2>4
  <2>6. b <= n /\ n < b + l
    BY <2>2, <2>5
  <2> QED
    BY <1>3, <2>3, <2>5, <2>6
<1> QED
    BY <1>2, <1>3

\* What is left of a list when n bytes are taken.
LEMMA AfterDef ==
    ASSUME NEW list \in Seq(Packet), Open(list), NEW n \in 0 .. LeftIn(list),
           NEW first, first = FirstLeft(list, n)
    PROVE  /\ After(list, n) \in Seq(Packet) /\ Open(After(list, n))
           /\ Len(After(list, n)) = Len(list) + 1 - first
           /\ \A k \in 1 .. Len(list) + 1 - first :
                 /\ k + first - 1 \in 1 .. Len(list)
                 /\ After(list, n)[k] =
                       IF k = 1 THEN [list[first] EXCEPT
                                         !.offset = @ + n - Before(list, first)]
                                ELSE list[k + first - 1]
<1> DEFINE l == [list EXCEPT ![first].offset = @ + n - Before(list, first)]
           a == After(list, n)
<1>1. /\ first \in 1 .. Len(list) + 1 /\ Before(list, first) <= n
      /\ first <= Len(list) => n < Before(list, first) + Left(list[first])
    BY FirstLeftDef
<1>2. Len(list) \in Nat /\ first \in Nat
    BY <1>1
<1>3. CASE first > Len(list)
  <2>1. a = <<>> /\ first = Len(list) + 1
    BY <1>1, <1>2, <1>3 DEF After
  <2> QED
    BY <1>2, <2>1 DEF Open
<1>4. CASE first <= Len(list)
  <2>1. a = SubSeq(l, first, Len(list)) /\ first \in 1 .. Len(list)
    BY <1>1, <1>2, <1>4 DEF After
  <2> DEFINE p == [list[first] EXCEPT !.offset = @ + n - Before(list, first)]
  <2>2. PICK o \in Nat, e \in Nat, b \in Nat :
            o = list[first].offset /\ e = list[first].len /\ b = Before(list, first)
    <3>1. list[first].offset \in Nat /\ list[first].len \in Nat
        <4>1. list[first] \in Packet
            BY <2>1
        <4> QED
            BY <4>1 DEF Packet
    <3>2. Before(list, first) \in Nat
        BY <1>1, BeforeDef
    <3> QED
        BY <3>1, <3>2
  <2>3. b <= n /\ n < b + (e - o)
    BY <1>1, <1>4, <2>2 DEF Left
  <2>4. p \in Packet /\ p.offset < p.len
    <3>1. o + n - b \in Nat /\ o + n - b < e
        BY SMTT(30), <2>2, <2>3
    <3>2. list[first] \in Packet
        BY <2>1
    <3> QED
        BY <2>2, <3>1, <3>2 DEF Packet
  <2>5. l \in Seq(Packet) /\ Len(l) = Len(list)
        /\ \A k \in 1 .. Len(list) : l[k] = IF k = first THEN p ELSE list[k]
    <3>1. l = [list EXCEPT ![first] = p]
        BY <2>1
    <3> HIDE DEF p, l
    <3> QED
        BY <2>1, <2>4, <3>1
  <2> HIDE DEF l, p
  <2>6. a \in Seq(Packet) /\ Len(a) = Len(list) + 1 - first
        /\ \A k \in 1 .. Len(list) + 1 - first : a[k] = l[k + first - 1]
    <3>1. \A k \in first .. Len(list) : l[k] \in Packet
        BY <2>1, <2>5
    <3>2. a = [k \in 1 .. Len(list) - first + 1 |-> l[k + first - 1]]
        BY <1>2, <2>1, <2>5
    <3>3. \A k \in 1 .. Len(list) - first + 1 : k + first - 1 \in first .. Len(list)
        BY <1>2, <2>1
    <3> DEFINE m == Len(list) - first + 1
    <3>4. m = Len(list) + 1 - first /\ m \in Nat
        BY <1>2, <2>1
    <3> HIDE DEF m
    <3>5. a \in [1 .. m -> Packet]
        BY <3>1, <3>2, <3>3 DEF m
    <3>6. a \in Seq(Packet) /\ Len(a) = m
        BY <3>4, <3>5
    <3> QED
        BY <3>2, <3>4, <3>6 DEF m
  <2>7. ASSUME NEW k \in 1 .. Len(list) + 1 - first
        PROVE  /\ k + first - 1 \in 1 .. Len(list)
               /\ a[k] = IF k = 1 THEN p ELSE list[k + first - 1]
    <3>1. k + first - 1 \in 1 .. Len(list) /\ (k + first - 1 = first <=> k = 1)
        BY <1>2, <2>1
    <3> QED
        BY <2>5, <2>6, <3>1
  <2>8. Open(a)
    <3>1. ASSUME NEW k \in 1 .. Len(list) + 1 - first PROVE a[k].offset < a[k].len
        <4>1. \A i \in 1 .. Len(list) : list[i].offset < list[i].len
            BY DEF Open
        <4> QED
            BY <2>4, <2>7, <4>1
    <3>2. DOMAIN a = 1 .. Len(list) + 1 - first
        BY <2>6
    <3> QED
        BY <3>1, <3>2 DEF Open
  <2> QED
    BY <2>6, <2>7, <2>8 DEF p
<1> QED
    BY <1>2, <1>3, <1>4

\* After n bytes are taken, n less is left before each packet.
LEMMA AfterBefore ==
    ASSUME NEW list \in Seq(Packet), Open(list), NEW n \in 0 .. LeftIn(list),
           NEW first, first = FirstLeft(list, n)
    PROVE  /\ LeftIn(After(list, n)) = LeftIn(list) - n
           /\ \A k \in 2 .. Len(list) + 1 - first :
                 Before(After(list, n), k) = Before(list, k + first - 1) - n
<1> DEFINE a == After(list, n)
           d == first - 1
           m == Len(list) - first
<1>1. /\ first \in 1 .. Len(list) + 1 /\ Before(list, first) <= n
      /\ first <= Len(list) => n < Before(list, first) + Left(list[first])
      /\ n = LeftIn(list) <=> first = Len(list) + 1
    BY FirstLeftDef
<1>2. /\ a \in Seq(Packet) /\ Open(a) /\ Len(a) = Len(list) + 1 - first
      /\ \A k \in 1 .. Len(list) + 1 - first :
            /\ k + first - 1 \in 1 .. Len(list)
            /\ a[k] = IF k = 1 THEN [list[first] EXCEPT
                                        !.offset = @ + n - Before(list, first)]
                               ELSE list[k + first - 1]
    BY AfterDef
<1> HIDE DEF a
<1>3. Len(list) \in Nat /\ first \in Nat /\ LeftIn(list) \in Nat
    BY <1>1, BeforeDef
<1>4. CASE first = Len(list) + 1
  <2>1. Len(a) = 0
    BY <1>2, <1>3, <1>4
  <2>2. LeftIn(a) = 0
    <3>1. Before(a, 1) = 0 /\ Before(a, Len(a) + 1) = LeftIn(a)
        BY <1>2, BeforeDef
    <3> QED
        BY <2>1, <3>1
  <2>3. n = LeftIn(list) /\ 2 .. Len(list) + 1 - first = {}
    BY <1>1, <1>3, <1>4
  <2> QED
    BY <1>3, <2>2, <2>3 DEF a
<1>5. CASE first # Len(list) + 1
  <2>1. first \in 1 .. Len(list) /\ m \in Nat /\ 1 \in 1 .. Len(list) + 1 - first
    BY <1>1, <1>3, <1>5
  <2> DEFINE f == Lefts(list)
             g == Lefts(a)
  <2>2. /\ f \in Seq(Nat) /\ Len(f) = Len(list)
        /\ \A k \in 1 .. Len(list) : f[k] = Left(list[k])
    BY LeftsType
  <2>3. /\ g \in Seq(Nat) /\ Len(g) = Len(list) + 1 - first
        /\ \A k \in 1 .. Len(list) + 1 - first : g[k] = Left(a[k])
    BY <1>2, LeftsType
  <2> HIDE DEF f, g
  <2>4. SameRun(f, first, g, 1, m)
    <3>1. ASSUME NEW j \in 1 .. m PROVE f[first + j] = g[1 + j]
        <4>1. /\ 1 + j \in 1 .. Len(list) + 1 - first /\ 1 + j # 1
              /\ (1 + j) + first - 1 = first + j /\ first + j \in 1 .. Len(list)
            BY <1>3, <2>1
        <4>2. a[1 + j] = list[first + j]
            BY <1>2, <4>1
        <4> QED
            BY <2>2, <2>3, <4>1, <4>2
    <3>2. first + m <= Len(f) /\ 1 + m <= Len(g)
        BY <1>3, <2>2, <2>3
    <3> QED
        BY <3>1, <3>2 DEF SameRun
  <2>5. first \in 0 .. Len(f) /\ 1 \in 0 .. Len(g)
    BY <1>3, <2>1, <2>2, <2>3
  <2> HIDE DEF m
  <2>6. \A j \in 0 .. m : PartialSums(f)[first + j] - PartialSums(f)[first]
                          = PartialSums(g)[1 + j] - PartialSums(g)[1]
    BY <2>1, <2>2, <2>3, <2>4, <2>5, SumsOfRun, Zenon
  <2>7. \A k : Before(list, k) = PartialSums(f)[k - 1] /\ Before(a, k) = PartialSums(g)[k - 1]
    BY DEF Before, f, g
  <2>8. PICK b \in Nat, o \in Nat, e \in Nat :
            b = Before(list, first) /\ o = list[first].offset /\ e = list[first].len
    <3>1. list[first].offset \in Nat /\ list[first].len \in Nat
        <4>1. list[first] \in Packet
            BY <2>1
        <4> QED
            BY <4>1 DEF Packet
    <3>2. Before(list, first) \in Nat
        BY <1>1, BeforeDef
    <3> QED
        BY <3>1, <3>2
  <2>9. /\ PartialSums(f)[first] = b + (e - o)
        /\ PartialSums(g)[1] = (b + (e - o)) - n
    <3>1. Before(list, first + 1) = b + (e - o) /\ (first + 1) - 1 = first
        <4>1. Before(list, first + 1) = Before(list, first) + Left(list[first])
            BY <2>1, BeforeDef
        <4> QED
            BY <1>3, <2>8, <4>1 DEF Left
    <3>2. Before(a, 1 + 1) = Left(a[1]) /\ (1 + 1) - 1 = 1
        <4>1. 1 \in 1 .. Len(a)
            BY <1>2, <2>1
        <4>2. Before(a, 1 + 1) = Before(a, 1) + Left(a[1]) /\ Before(a, 1) = 0
              /\ Left(a[1]) \in Nat
            BY <1>2, <4>1, BeforeDef
        <4> QED
            BY <4>2
    <3>3. a[1] = [list[first] EXCEPT !.offset = @ + n - Before(list, first)]
        BY <1>2, <2>1
    <3>4. list[first] \in Packet
        BY <2>1
    <3>5. Left(a[1]) = e - (o + n - b)
        BY <2>8, <3>3, <3>4 DEF Packet, Left
    <3>6. e - (o + n - b) = (b + (e - o)) - n
        <4>1. PICK z \in Int : z = n
            BY <1>3
        <4>2. e - (o + z - b) = (b + (e - o)) - z
            OBVIOUS
        <4> QED
            BY <4>1, <4>2
    <3>7. PartialSums(f)[first] = Before(list, first + 1)
        BY <2>7, <3>1
    <3>8. PartialSums(g)[1] = Before(a, 1 + 1)
        BY <2>7, <3>2
    <3> QED
        BY <3>1, <3>2, <3>5, <3>6, <3>7, <3>8
  <2>10. ASSUME NEW j \in 0 .. m
         PROVE  PartialSums(g)[1 + j] = PartialSums(f)[first + j] - n
    <3>1. first + j \in 0 .. Len(f) /\ 1 + j \in 0 .. Len(g)
        <4>1. j \in 0 .. Len(list) - first /\ Len(list) - first \in Nat
            BY <2>1 DEF m
        <4>2. first + j \in 0 .. Len(list) /\ 1 + j \in 0 .. Len(list) + 1 - first
            BY <1>3, <4>1
        <4> QED
            BY <2>2, <2>3, <4>2
    <3>2. PICK x \in Nat, y \in Nat :
             x = PartialSums(f)[first + j] /\ y = PartialSums(g)[1 + j]
        BY <2>2, <2>3, <3>1, SumsDef
    <3>3. x - (b + (e - o)) = y - ((b + (e - o)) - n)
        BY <2>6, <2>9, <3>2
    <3>4. PICK z \in Int : z = n
        BY <1>3
    <3>5. y = x - z
        BY <3>3, <3>4
    <3> QED
        BY <3>2, <3>4, <3>5
  <2>11. LeftIn(a) = LeftIn(list) - n
    <3>1. m \in 0 .. m /\ first + m = Len(list) /\ 1 + m = Len(list) + 1 - first
        BY <1>3, <2>1 DEF m
    <3>2. LeftIn(a) = PartialSums(g)[1 + m] /\ LeftIn(list) = PartialSums(f)[first + m]
        BY <2>2, <2>3, <3>1 DEF LeftIn, SumOf, f, g
    <3> QED
        BY <2>10, <3>1, <3>2
  <2>12. ASSUME NEW k \in 2 .. Len(list) + 1 - first
         PROVE  Before(a, k) = Before(list, k + first - 1) - n
    <3>1. /\ k - 2 \in 0 .. m /\ 1 + (k - 2) = k - 1
          /\ first + (k - 2) = (k + first - 1) - 1
        BY <1>3, <2>1 DEF m
    <3>2. PartialSums(g)[k - 1] = PartialSums(f)[(k + first - 1) - 1] - n
        BY <2>10, <3>1
    <3> QED
        BY <2>7, <3>2
  <2> QED
    BY <2>11, <2>12 DEF a
<1> QED
    BY <1>4, <1>5

\* The bytes on the wire are those of the packets, from their offsets on.
LEMMA WireDef ==
    ASSUME NEW list \in Seq(Packet), Open(list)
    PROVE  /\ Wire(list) \in Seq(Items \X (Nat \ {0})) /\ Len(Wire(list)) = LeftIn(list)
           /\ \A j \in 1 .. LeftIn(list) : \E k \in 1 .. Len(list) :
                 /\ j - Before(list, k) \in 1 .. Left(list[k])
                 /\ Wire(list)[j] = <<list[k].item, list[k].offset + j - Before(list, k)>>
<1> DEFINE n == LeftIn(list)
<1>1. n \in Nat
    BY BeforeDef
<1>2. ASSUME NEW j \in 1 .. n
      PROVE  /\ Wire(list)[j] \in Items \X (Nat \ {0})
             /\ \E k \in 1 .. Len(list) :
                  /\ j - Before(list, k) \in 1 .. Left(list[k])
                  /\ Wire(list)[j] = <<list[k].item, list[k].offset + j - Before(list, k)>>
  <2> DEFINE k == PacketOf(list, j)
  <2>1. k \in 1 .. Len(list) /\ Before(list, k) < j /\ j <= Before(list, k) + Left(list[k])
    BY PacketOfDef
  <2>2. Wire(list)[j] = <<list[k].item, list[k].offset + j - Before(list, k)>>
    BY DEF Wire
  <2> HIDE DEF k
  <2>3. list[k] \in Packet /\ k \in 1 .. Len(list) + 1
    BY <2>1
  <2>4. Before(list, k) \in Nat /\ Left(list[k]) \in Nat
    BY <2>1, <2>3, BeforeDef
  <2>5. PICK b \in Nat, l \in Nat, o \in Nat :
            b = Before(list, k) /\ l = Left(list[k]) /\ o = list[k].offset
    BY <2>3, <2>4 DEF Packet
  <2>6. j - b \in 1 .. l /\ o + j - b \in Nat \ {0}
    <3>1. PICK z \in Nat : z = j
        BY <1>1
    <3>2. b < z /\ z <= b + l
        BY <2>1, <2>5, <3>1
    <3>3. z - b \in 1 .. l /\ o + z - b \in Nat \ {0}
        BY <3>2
    <3> QED
        BY <3>1, <3>3
  <2>7. list[k].item \in Items
    BY <2>3 DEF Packet
  <2> QED
    BY SMTT(30), <2>1, <2>2, <2>5, <2>6, <2>7
<1>3. Wire(list) \in [1 .. n -> Items \X (Nat \ {0})]
  <2>1. Wire(list) = [j \in 1 .. n |-> Wire(list)[j]]
    BY DEF Wire
  <2> QED
    BY <1>2, <2>1
<1>4. Wire(list) \in Seq(Items \X (Nat \ {0})) /\ Len(Wire(list)) = n
  <2> HIDE DEF n
  <2> QED
    BY <1>1, <1>3
<1> QED
    BY <1>2, <1>4

-----------------------------------------------------------------------------
(* Lists of jobs.                                                          *)

\* A list without packets.
LEMMA EmptyList ==
    LeftIn(<<>>) = 0 /\ Open(<<>>) /\ <<>> \in Seq(Packet) /\ EmptySlot \in Slot
<1>1. Open(<<>>) /\ <<>> \in Seq(Packet)
    BY DEF Open
<1>2. Before(<<>>, 1) = 0 /\ Before(<<>>, Len(<<>>) + 1) = LeftIn(<<>>)
    BY <1>1, BeforeDef
<1>3. Len(<<>>) + 1 = 1
    OBVIOUS
<1>4. EmptySlot \in Slot
    BY <1>1 DEF EmptySlot, Slot
<1> QED
    BY <1>1, <1>2, <1>3, <1>4

\* What the lists of the slots have left.
LEMMA SlotLeftsType ==
    ASSUME NEW ss \in Seq(Slot), OpenSlots(ss)
    PROVE  /\ SlotLefts(ss) \in Seq(Nat) /\ Len(SlotLefts(ss)) = Len(ss)
           /\ \A i \in 1 .. Len(ss) : SlotLefts(ss)[i] = LeftIn(ss[i].list)
           /\ \A i \in 1 .. Len(ss) : LeftIn(ss[i].list) \in Nat
           /\ SlotsLeft(ss) \in Nat
<1>1. SlotLefts(ss) = [i \in 1 .. Len(ss) |-> LeftIn(ss[i].list)]
    BY DEF SlotLefts
<1>2. ASSUME NEW i \in 1 .. Len(ss) PROVE LeftIn(ss[i].list) \in Nat
  <2>1. ss[i].list \in Seq(Packet)
    <3>1. ss[i] \in Slot
        OBVIOUS
    <3> QED
        BY <3>1 DEF Slot
  <2>2. Open(ss[i].list)
    BY DEF OpenSlots
  <2> QED
    BY <2>1, <2>2, BeforeDef
<1>3. SlotLefts(ss) \in Seq(Nat) /\ Len(SlotLefts(ss)) = Len(ss)
    BY <1>1, <1>2
<1>4. SlotsLeft(ss) \in Nat
  <2>1. Len(ss) \in 0 .. Len(SlotLefts(ss))
    BY <1>3
  <2>2. PartialSums(SlotLefts(ss)) \in [0 .. Len(SlotLefts(ss)) -> Nat]
    BY <1>3, SumsDef
  <2> QED
    BY <1>3, <2>1, <2>2 DEF SlotsLeft, SumOf
<1> QED
    BY <1>1, <1>2, <1>3, <1>4

\* tt has the lists of ss, and empty ones behind them.
Extends(tt, ss) ==
    /\ Len(ss) <= Len(tt)
    /\ \A i \in 1 .. Len(ss) : tt[i].list = ss[i].list
    /\ \A i \in Len(ss) + 1 .. Len(tt) : tt[i].list = <<>>

\* Slots without packets are added.
LEMMA SlotsExtended ==
    ASSUME NEW ss \in Seq(Slot), OpenSlots(ss), NEW tt \in Seq(Slot), Extends(tt, ss)
    PROVE  /\ OpenSlots(tt) /\ SlotsLeft(tt) = SlotsLeft(ss)
           /\ \A j \in 0 .. Len(ss) :
                 PartialSums(SlotLefts(tt))[j] = PartialSums(SlotLefts(ss))[j]
           /\ \A j \in Len(ss) .. Len(tt) :
                 PartialSums(SlotLefts(tt))[j] = SlotsLeft(ss)
<1> DEFINE f == SlotLefts(ss)
           g == SlotLefts(tt)
<1>1. OpenSlots(tt)
    BY EmptyList DEF OpenSlots, Extends
<1>2. /\ f \in Seq(Nat) /\ Len(f) = Len(ss) /\ Len(ss) \in Nat
      /\ \A i \in 1 .. Len(ss) : f[i] = LeftIn(ss[i].list)
    BY SlotLeftsType
<1>3. /\ g \in Seq(Nat) /\ Len(g) = Len(tt) /\ Len(tt) \in Nat
      /\ \A i \in 1 .. Len(tt) : g[i] = LeftIn(tt[i].list)
    BY <1>1, SlotLeftsType
<1>4. SumOf(f) = SlotsLeft(ss) /\ SumOf(g) = SlotsLeft(tt)
    BY DEF SlotsLeft
<1> HIDE DEF f, g
<1>5. SameRun(g, 0, f, 0, Len(ss))
  <2>1. 0 + Len(ss) <= Len(g) /\ 0 + Len(ss) <= Len(f)
    BY <1>2, <1>3 DEF Extends
  <2>2. ASSUME NEW i \in 1 .. Len(ss) PROVE g[0 + i] = f[0 + i]
    <3>1. i \in 1 .. Len(tt) /\ 0 + i = i
        BY <1>2, <1>3 DEF Extends
    <3>2. tt[i].list = ss[i].list
        BY DEF Extends
    <3> QED
        BY <1>2, <1>3, <3>1, <3>2
  <2> QED
    BY <2>1, <2>2 DEF SameRun
<1>6. \A j \in 0 .. Len(ss) : PartialSums(g)[j] = PartialSums(f)[j]
    BY <1>2, <1>3, <1>5, SumsAgree
<1>7. \A j \in Len(ss) .. Len(tt) : PartialSums(g)[j] = PartialSums(g)[Len(ss)]
  <2>1. \A j \in Len(ss) + 1 .. Len(g) : g[j] = 0
    BY SMTT(30), <1>2, <1>3, EmptyList DEF Extends
  <2>2. Len(ss) \in 0 .. Len(g)
    BY <1>2, <1>3 DEF Extends
  <2> QED
    BY <1>3, <2>1, <2>2, SumsOfZeros
<1>8. PartialSums(g)[Len(ss)] = SlotsLeft(ss)
    BY <1>2, <1>4, <1>6 DEF SumOf
<1>9. SlotsLeft(tt) = SlotsLeft(ss)
  <2>1. Len(tt) \in Len(ss) .. Len(tt)
    BY <1>2, <1>3 DEF Extends
  <2> QED
    BY <1>3, <1>4, <1>7, <1>8, <2>1 DEF SumOf
<1> QED
    BY <1>1, <1>6, <1>7, <1>8, <1>9 DEF f, g

\* The list of the i-th slot is changed.
LEMMA SlotsChanged ==
    ASSUME NEW ss \in Seq(Slot), OpenSlots(ss), NEW tt \in Seq(Slot), Len(tt) = Len(ss),
           NEW i \in 1 .. Len(ss), Open(tt[i].list),
           \A j \in 1 .. Len(ss) : j # i => tt[j].list = ss[j].list
    PROVE  /\ OpenSlots(tt)
           /\ SlotsLeft(tt) = SlotsLeft(ss) + LeftIn(tt[i].list) - LeftIn(ss[i].list)
           /\ \A j \in 0 .. i - 1 :
                 PartialSums(SlotLefts(tt))[j] = PartialSums(SlotLefts(ss))[j]
           /\ \A j \in i .. Len(ss) :
                 PartialSums(SlotLefts(tt))[j] = PartialSums(SlotLefts(ss))[j]
                                         + LeftIn(tt[i].list) - LeftIn(ss[i].list)
<1> DEFINE f == SlotLefts(ss)
           g == SlotLefts(tt)
<1>1. OpenSlots(tt)
    BY DEF OpenSlots
<1>2. /\ f \in Seq(Nat) /\ Len(f) = Len(ss) /\ Len(ss) \in Nat
      /\ \A j \in 1 .. Len(ss) : f[j] = LeftIn(ss[j].list)
    BY SlotLeftsType
<1>3. /\ g \in Seq(Nat) /\ Len(g) = Len(ss)
      /\ \A j \in 1 .. Len(ss) : g[j] = LeftIn(tt[j].list)
    BY <1>1, SlotLeftsType
<1>4. SumOf(f) = SlotsLeft(ss) /\ SumOf(g) = SlotsLeft(tt)
    BY DEF SlotsLeft
<1> HIDE DEF f, g
<1>5. DifferAt(f, g, i)
    BY <1>2, <1>3 DEF DifferAt
<1>6. /\ \A j \in 0 .. i - 1 : PartialSums(g)[j] = PartialSums(f)[j]
      /\ \A j \in i .. Len(f) : PartialSums(g)[j] = PartialSums(f)[j] + g[i] - f[i]
    BY <1>2, <1>3, <1>5, SumsChanged
<1>7. \A j \in i .. Len(ss) : PartialSums(g)[j] = PartialSums(f)[j]
                                         + LeftIn(tt[i].list) - LeftIn(ss[i].list)
    BY <1>2, <1>3, <1>6
<1>8. Len(ss) \in i .. Len(ss)
    BY <1>2
<1>9. SlotsLeft(tt) = SlotsLeft(ss) + LeftIn(tt[i].list) - LeftIn(ss[i].list)
    BY <1>2, <1>3, <1>4, <1>7, <1>8 DEF SumOf
<1> QED
    BY <1>1, <1>6, <1>7, <1>9 DEF f, g

\* The first list moves to the c-th place.
LEMMA SlotsRotated ==
    ASSUME NEW ss \in Seq(Slot), OpenSlots(ss), NEW tt \in Seq(Slot), Len(tt) = Len(ss),
           NEW c \in 1 .. Len(ss), tt[c].list = ss[1].list,
           \A j \in 1 .. c - 1 : tt[j].list = ss[j + 1].list,
           \A j \in c + 1 .. Len(ss) : tt[j].list = ss[j].list
    PROVE  /\ OpenSlots(tt) /\ SlotsLeft(tt) = SlotsLeft(ss)
           /\ \A j \in 0 .. c - 1 : PartialSums(SlotLefts(tt))[j]
                 = PartialSums(SlotLefts(ss))[j + 1] - LeftIn(ss[1].list)
           /\ \A j \in c .. Len(ss) :
                 PartialSums(SlotLefts(tt))[j] = PartialSums(SlotLefts(ss))[j]
<1> DEFINE f == SlotLefts(ss)
           g == SlotLefts(tt)
<1>1. OpenSlots(tt)
  <2>1. ASSUME NEW i \in 1 .. Len(ss) PROVE Open(tt[i].list)
    <3>1. CASE i \in 1 .. c - 1
        <4>1. i + 1 \in 1 .. Len(ss)
            BY <3>1
        <4> QED
            BY <3>1, <4>1 DEF OpenSlots
    <3>2. CASE i = c
        <4>1. 1 \in 1 .. Len(ss)
            OBVIOUS
        <4> QED
            BY <3>2, <4>1 DEF OpenSlots
    <3>3. CASE i \in c + 1 .. Len(ss)
        BY <3>3 DEF OpenSlots
    <3> QED
        BY <3>1, <3>2, <3>3
  <2> QED
    BY <2>1 DEF OpenSlots
<1>2. /\ f \in Seq(Nat) /\ Len(f) = Len(ss) /\ Len(ss) \in Nat
      /\ \A j \in 1 .. Len(ss) : f[j] = LeftIn(ss[j].list)
    BY SlotLeftsType
<1>3. /\ g \in Seq(Nat) /\ Len(g) = Len(ss)
      /\ \A j \in 1 .. Len(ss) : g[j] = LeftIn(tt[j].list)
    BY <1>1, SlotLeftsType
<1>4. SumOf(f) = SlotsLeft(ss) /\ SumOf(g) = SlotsLeft(tt)
    BY DEF SlotsLeft
<1> HIDE DEF f, g
<1>5. IsRotated(f, g, c)
  <2>1. 1 \in 1 .. Len(ss) /\ \A j \in 1 .. c - 1 : j \in 1 .. Len(ss) /\ j + 1 \in 1 .. Len(ss)
    BY <1>2
  <2>2. \A j \in c + 1 .. Len(ss) : j \in 1 .. Len(ss)
    BY <1>2
  <2> QED
    BY <1>2, <1>3, <2>1, <2>2 DEF IsRotated
<1>6. /\ \A j \in 0 .. c - 1 : PartialSums(g)[j] = PartialSums(f)[j + 1] - f[1]
      /\ \A j \in c .. Len(ss) : PartialSums(g)[j] = PartialSums(f)[j]
    BY <1>2, <1>3, <1>5, SumsRotated
<1>7. Len(ss) \in c .. Len(ss) /\ 1 \in 1 .. Len(ss)
    BY <1>2
<1>8. SlotsLeft(tt) = SlotsLeft(ss)
    BY <1>2, <1>3, <1>4, <1>6, <1>7 DEF SumOf
<1> QED
    BY <1>1, <1>2, <1>6, <1>7, <1>8 DEF f, g

\* The i-th slot, when the list is long enough.
SlotAt(i) == IF i \in 1 .. Len(slots) THEN slots[i] ELSE EmptySlot

\* ape_socket_job_get_slot: one slot gets the flags, the others stay.
LEMMA GetSlot ==
    ASSUME slots \in Seq(Slot), current \in 1 .. Len(slots), NEW type \in JobTypes,
           NEW at, at = SlotIndex(type), NEW ss, ss = ape_socket_job_get_slot(type)
    PROVE  /\ at \in {current, current + 1} /\ at \in 1 .. Len(ss)
           /\ ss \in Seq(Slot) /\ Len(slots) <= Len(ss)
           /\ SlotAt(at) \in Slot
           /\ ss[at] = [SlotAt(at) EXCEPT !.flags = @ \union {"ACTIVE", type}]
           /\ \A i \in 1 .. Len(ss) : i # at => ss[i] = SlotAt(i)
<1> DEFINE gs == Grown(type)
           slot == [gs[at] EXCEPT !.flags = @ \union {"ACTIVE", type}]
<1>1. Len(slots) \in Nat /\ current \in Nat /\ current <= Len(slots)
      /\ JobChunk \in Nat /\ JobChunk >= 1
    BY SendPathAssumption
<1>2. at \in {current, current + 1}
    BY DEF SlotIndex
<1>3. /\ gs \in Seq(Slot) /\ Len(slots) <= Len(gs) /\ at \in 1 .. Len(gs)
      /\ \A i \in 1 .. Len(gs) : gs[i] = SlotAt(i)
  <2>1. CASE at > Len(slots)
    <3>1. gs = slots \o NewPool(JobChunk)
        BY <2>1 DEF Grown
    <3>2. /\ NewPool(JobChunk) \in Seq(Slot) /\ Len(NewPool(JobChunk)) = JobChunk
          /\ \A i \in 1 .. JobChunk : NewPool(JobChunk)[i] = EmptySlot
        BY <1>1, EmptyList DEF NewPool
    <3> HIDE DEF gs
    <3>3. gs \in Seq(Slot) /\ Len(gs) = Len(slots) + JobChunk
        <4> DEFINE more == NewPool(JobChunk)
        <4>1. more \in Seq(Slot) /\ Len(more) = JobChunk /\ gs = slots \o more
            BY <3>1, <3>2
        <4> HIDE DEF more
        <4> QED
            BY <4>1, ConcatProperties
    <3>4. at \in 1 .. Len(gs)
        BY <1>1, <1>2, <2>1, <3>3
    <3>5. ASSUME NEW i \in 1 .. Len(gs) PROVE gs[i] = SlotAt(i)
        <4>1. CASE i \in 1 .. Len(slots)
            BY <3>1, <3>2, <4>1 DEF SlotAt
        <4>2. CASE i \notin 1 .. Len(slots)
            <5>1. i - Len(slots) \in 1 .. JobChunk
                BY <1>1, <3>3, <4>2
            <5>2. gs[i] = NewPool(JobChunk)[i - Len(slots)]
                BY <1>1, <3>1, <3>2, <3>3, <4>2
            <5> QED
                BY <3>2, <4>2, <5>1, <5>2 DEF SlotAt
        <4> QED
            BY <4>1, <4>2
    <3> QED
        BY <1>1, <3>3, <3>4, <3>5
  <2>2. CASE ~(at > Len(slots))
    <3>1. gs = slots
        BY <2>2 DEF Grown
    <3>2. at \in 1 .. Len(slots)
        BY <1>1, <1>2, <2>2
    <3> QED
        BY <1>1, <3>1, <3>2 DEF SlotAt
  <2> QED
    BY <2>1, <2>2
<1>4. ss = [gs EXCEPT ![at] = slot]
    BY DEF ape_socket_job_get_slot
<1> HIDE DEF gs
<1>5. SlotAt(at) \in Slot /\ gs[at] = SlotAt(at)
    BY <1>3
<1>6. slot = [SlotAt(at) EXCEPT !.flags = @ \union {"ACTIVE", type}]
    BY <1>5
<1>7. slot \in Slot
    BY <1>5, <1>6 DEF Slot, JobTypes
<1> HIDE DEF slot
<1>8. /\ ss \in Seq(Slot) /\ Len(ss) = Len(gs)
      /\ ss[at] = slot /\ \A i \in 1 .. Len(ss) : i # at => ss[i] = gs[i]
    BY <1>3, <1>4, <1>7
<1> QED
    BY <1>2, <1>3, <1>5, <1>6, <1>8

\* ape_pool_head_to_current after the head is done: it goes to the current
\* place, and those in front of it move up by one.
LEMMA DoneSlots ==
    ASSUME slots \in Seq(Slot), current \in 1 .. Len(slots), NEW job \in Slot,
           JobDone(job)
    PROVE  /\ current' = current /\ slots' \in Seq(Slot) /\ Len(slots') = Len(slots)
           /\ njobs' = njobs + 1
           /\ slots'[current] = [job EXCEPT !.flags = @ \ {"ACTIVE"}]
           /\ \A i \in 1 .. current - 1 :
                 i + 1 \in 1 .. Len(slots) /\ slots'[i] = slots[i + 1]
           /\ \A i \in current + 1 .. Len(slots) : slots'[i] = slots[i]
<1> DEFINE done == [job EXCEPT !.flags = @ \ {"ACTIVE"}]
           n == Len(slots)
           ss == <<done>> \o Tail(slots)
<1>1. n \in Nat /\ current \in Nat /\ 1 <= current /\ current <= n
    OBVIOUS
<1>2. done \in Slot
    BY DEF Slot
<1> HIDE DEF done
<1>3. Tail(slots) \in Seq(Slot) /\ Len(Tail(slots)) = n - 1
      /\ \A i \in 1 .. n - 1 : Tail(slots)[i] = slots[i + 1]
    BY <1>1
<1>4. /\ ss \in Seq(Slot) /\ Len(ss) = n /\ ss[1] = done
      /\ \A i \in 2 .. n : ss[i] = slots[i]
  <2>1. ss \in Seq(Slot) /\ Len(ss) = 1 + (n - 1) /\ ss[1] = done
    BY <1>2, <1>3
  <2>2. ASSUME NEW i \in 2 .. n PROVE ss[i] = slots[i]
    <3>1. i - 1 \in 1 .. n - 1 /\ (i - 1) + 1 = i
        BY <1>1
    <3>2. ss[i] = Tail(slots)[i - 1]
        BY <1>1, <1>2, <1>3
    <3> QED
        BY <1>3, <3>1, <3>2
  <2> QED
    BY <1>1, <2>1, <2>2
<1>5. /\ slots' = ape_pool_head_to_current(ss, current).slots
      /\ current' = ape_pool_head_to_current(ss, current).current
      /\ njobs' = njobs + 1
    BY DEF JobDone, done
<1> HIDE DEF ss, n
<1>6. CASE current = 1
  <2>1. slots' = ss /\ current' = current
    BY <1>5, <1>6 DEF ape_pool_head_to_current
  <2>2. /\ slots'[current] = done /\ 1 .. current - 1 = {}
        /\ \A i \in current + 1 .. n : slots'[i] = slots[i]
    BY <1>1, <1>4, <1>6, <2>1
  <2> QED
    BY <1>4, <1>5, <2>1, <2>2 DEF n, done
<1>7. CASE current # 1
  <2> DEFINE tl == Tail(ss)
  <2>1. slots' = InsertAt(tl, current, done) /\ current' = current
    BY <1>4, <1>5, <1>7 DEF ape_pool_head_to_current
  <2>2. /\ tl \in Seq(Slot) /\ Len(tl) = n - 1
        /\ \A i \in 1 .. n - 1 : tl[i] = slots[i + 1]
    <3>1. Tail(ss) \in Seq(Slot) /\ Len(Tail(ss)) = n - 1
          /\ \A i \in 1 .. n - 1 : Tail(ss)[i] = ss[i + 1]
        BY <1>1, <1>4
    <3>2. \A i \in 1 .. n - 1 : i + 1 \in 2 .. n
        BY <1>1
    <3> QED
        BY <1>4, <3>1, <3>2
  <2> HIDE DEF tl
  <2> DEFINE front == SubSeq(tl, 1, current - 1)
             back  == SubSeq(tl, current, n - 1)
             long  == front \o <<done>>
  <2>3. slots' = long \o back
    BY <2>1, <2>2 DEF InsertAt
  <2>4. /\ front \in Seq(Slot) /\ Len(front) = current - 1
        /\ \A i \in 1 .. current - 1 : front[i] = tl[i]
    BY <1>1, <1>7, <2>2
  <2>8. /\ back \in Seq(Slot) /\ Len(back) = n - current
        /\ \A i \in 1 .. n - current : back[i] = tl[i + current - 1]
    BY <1>1, <1>7, <2>2
  <2> HIDE DEF front, back
  <2>9. /\ long \in Seq(Slot) /\ Len(long) = current /\ long[current] = done
        /\ \A i \in 1 .. current - 1 : long[i] = tl[i]
    BY <1>1, <1>2, <2>4
  <2> HIDE DEF long
  <2>10. slots' \in Seq(Slot) /\ Len(slots') = n
    <3>1. slots' \in Seq(Slot) /\ Len(slots') = Len(long) + Len(back)
        BY <2>3, <2>8, <2>9, ConcatProperties, Zenon
    <3> QED
        BY <1>1, <2>8, <2>9, <3>1
  <2>11. \A i \in 1 .. current : slots'[i] = long[i]
    BY <1>1, <2>3, <2>8, <2>9
  <2>12. \A i \in current + 1 .. n : slots'[i] = tl[i - 1]
    <3>1. SUFFICES ASSUME NEW i \in current + 1 .. n PROVE slots'[i] = tl[i - 1]
        OBVIOUS
    <3>2. i - current \in 1 .. n - current /\ (i - current) + current - 1 = i - 1
        BY <1>1
    <3>3. slots'[i] = back[i - current]
        BY <1>1, <2>3, <2>8, <2>9
    <3> QED
        BY <2>8, <3>2, <3>3
  <2>5. ASSUME NEW i \in 1 .. n
        PROVE  /\ slots'[i] \in Slot
               /\ i < current => slots'[i] = slots[i + 1] /\ i + 1 \in 1 .. n
               /\ i = current => slots'[i] = done
               /\ i > current => slots'[i] = slots[i]
    <3>1. CASE i < current
        <4>1. i \in 1 .. n - 1 /\ i + 1 \in 1 .. n
            BY <1>1, <3>1
        <4>2. slots'[i] = tl[i]
            BY <1>1, <2>9, <2>11, <3>1
        <4> QED
            BY <1>1, <2>2, <3>1, <4>1, <4>2
    <3>2. CASE i = current
        <4>1. slots'[i] = done
            BY <1>1, <2>9, <2>11, <3>2
        <4> QED
            BY <1>1, <1>2, <3>2, <4>1
    <3>3. CASE i > current
        <4>1. i - 1 \in 1 .. n - 1 /\ (i - 1) + 1 = i
            BY <1>1, <3>3
        <4>2. slots'[i] = tl[i - 1]
            BY <1>1, <2>12, <3>3
        <4> QED
            BY <1>1, <2>2, <3>3, <4>1, <4>2
    <3> QED
        BY <1>1, <3>1, <3>2, <3>3
  <2>7. /\ \A i \in 1 .. current - 1 : i \in 1 .. n /\ i < current
        /\ \A i \in current + 1 .. n : i \in 1 .. n /\ i > current
        /\ current \in 1 .. n
    BY <1>1
  <2> QED
    BY <1>5, <2>1, <2>5, <2>7, <2>10 DEF n, done
<1> QED
    BY <1>6, <1>7


-----------------------------------------------------------------------------
(* What the operations on the lists do.                                    *)

\* A byte of an item.
Byte == Items \X (Nat \ {0})

\* The bytes of an item.
LEMMA BytesOfDef ==
    ASSUME NEW i \in Items, NEW from \in Nat \ {0}, NEW to \in Nat, from <= to + 1
    PROVE  /\ BytesOf(i, from, to) \in Seq(Byte)
           /\ Len(BytesOf(i, from, to)) = to - from + 1
           /\ \A k \in 1 .. to - from + 1 :
                 BytesOf(i, from, to)[k] = <<i, from + k - 1>>
<1>1. to - from + 1 \in Nat
    OBVIOUS
<1>2. \A k \in 1 .. to - from + 1 : <<i, from + k - 1>> \in Byte
    BY DEF Byte
<1> QED
    BY <1>1, <1>2 DEF BytesOf

\* A packet more at the end of a list.
LEMMA AppendLeft ==
    ASSUME NEW list \in Seq(Packet), Open(list), NEW p \in Packet, p.offset < p.len,
           NEW longer, longer = Append(list, p)
    PROVE  /\ longer \in Seq(Packet) /\ Open(longer) /\ Len(longer) = Len(list) + 1
           /\ LeftIn(longer) = LeftIn(list) + Left(p)
           /\ \A k \in 1 .. Len(list) : longer[k] = list[k]
           /\ longer[Len(list) + 1] = p
           /\ \A k \in 1 .. Len(list) + 1 : Before(longer, k) = Before(list, k)
<1>1. /\ longer \in Seq(Packet) /\ Len(longer) = Len(list) + 1
      /\ \A k \in 1 .. Len(list) : longer[k] = list[k]
      /\ longer[Len(list) + 1] = p
    OBVIOUS
<1>2. Len(list) \in Nat
    OBVIOUS
<1>3. Open(longer)
  <2>1. SUFFICES ASSUME NEW k \in 1 .. Len(list) + 1
                 PROVE  longer[k].offset < longer[k].len
    BY <1>1 DEF Open
  <2>2. CASE k = Len(list) + 1
    BY <1>1, <2>2
  <2>3. CASE k \in 1 .. Len(list)
    BY <1>1, <2>3 DEF Open
  <2> QED
    BY <1>2, <2>2, <2>3
<1> DEFINE f == Lefts(list)
           g == Lefts(longer)
<1>4. /\ f \in Seq(Nat) /\ Len(f) = Len(list)
      /\ \A k \in 1 .. Len(list) : f[k] = Left(list[k])
    BY LeftsType
<1>5. /\ g \in Seq(Nat) /\ Len(g) = Len(list) + 1
      /\ \A k \in 1 .. Len(list) + 1 : g[k] = Left(longer[k])
    BY <1>1, <1>3, LeftsType
<1>6. /\ \A k \in 1 .. Len(list) + 1 : Before(list, k) = PartialSums(f)[k - 1]
      /\ \A k \in 1 .. Len(list) + 1 : Before(longer, k) = PartialSums(g)[k - 1]
      /\ LeftIn(list) = PartialSums(f)[Len(list)]
      /\ LeftIn(longer) = PartialSums(g)[Len(list) + 1]
    BY <1>4, <1>5, Zenon DEF Before, LeftIn, SumOf
<1> HIDE DEF f, g
<1>7. SameRun(f, 0, g, 0, Len(list))
  <2>1. \A k \in 1 .. Len(list) : k \in 1 .. Len(list) + 1 /\ 0 + k = k
    BY <1>2
  <2>2. 0 + Len(list) <= Len(f) /\ 0 + Len(list) <= Len(g)
    BY <1>2, <1>4, <1>5
  <2>3. \A k \in 1 .. Len(list) : f[k] = g[k]
    BY <1>1, <1>4, <1>5, <2>1
  <2> QED
    BY <2>1, <2>2, <2>3 DEF SameRun
<1>8. \A k \in 0 .. Len(list) : PartialSums(f)[k] = PartialSums(g)[k]
    BY <1>2, <1>4, <1>5, <1>7, SumsAgree
<1>9. \A k \in 1 .. Len(list) + 1 : Before(longer, k) = Before(list, k)
  <2>1. \A k \in 1 .. Len(list) + 1 : k - 1 \in 0 .. Len(list)
    BY <1>2
  <2> QED
    BY <1>6, <1>8, <2>1
<1>10. LeftIn(longer) = LeftIn(list) + Left(p)
  <2>1. Len(list) + 1 \in 1 .. Len(g) /\ Len(list) \in 0 .. Len(list)
        /\ (Len(list) + 1) - 1 = Len(list)
    BY <1>2, <1>5
  <2>2. PartialSums(g)[Len(list) + 1] = PartialSums(g)[Len(list)] + g[Len(list) + 1]
    BY <1>5, <2>1, SumsDef
  <2>3. g[Len(list) + 1] = Left(p)
    BY <1>1, <1>5, <2>1
  <2> QED
    BY <1>6, <1>8, <2>1, <2>2, <2>3
<1> QED
    BY <1>1, <1>3, <1>9, <1>10

\* ape_socket_queue_data: a packet more at the end of the slot at `at', which
\* is the current one then.
LEMMA QueueStep ==
    ASSUME TypeOK, OpenSlots(slots), SpareSlots,
           length' \in Seq(Lengths \union {1}),
           NEW item \in DOMAIN length', item \in Items,
           NEW offset \in Nat, offset < length'[item],
           NEW at, at = SlotIndex("WRITEV"),
           NEW p, p = [item |-> item, len |-> length'[item], offset |-> offset],
           ape_socket_queue_data(item, offset)
    PROVE  /\ at \in {current, current + 1} /\ at \in 1 .. Len(slots') /\ current' = at
           /\ slots' \in Seq(Slot) /\ Len(slots) <= Len(slots')
           /\ SlotAt(at) \in Slot /\ SlotAt(at).ptr # "file"
           /\ slots'[at].flags = SlotAt(at).flags \union {"ACTIVE", "WRITEV"}
           /\ slots'[at].ptr = "list" /\ slots'[at].spare > 0
           /\ p \in Packet /\ p.offset < p.len /\ Left(p) = length'[item] - offset
           /\ slots'[at].list = Append(SlotAt(at).list, p)
           /\ \A i \in 1 .. Len(slots') : i # at => slots'[i] = SlotAt(i)
           /\ buffered' = buffered + Left(p) /\ total' = total + Left(p)
           /\ buffered' \in Nat /\ total' \in Nat
           /\ \/ state' = state /\ ended' = ended
              \/ ape_shutdown("cut")
<1> DEFINE ss  == ape_socket_job_get_slot("WRITEV")
           old == IF ss[at].ptr = "list" THEN ss[at].spare ELSE PacketChunk
           spare == old - 1 + IF old = 1 THEN PacketChunk ELSE 0
<1>1. /\ ss[at].ptr # "file"
      /\ slots' = [ss EXCEPT ![at].ptr = "list",
                             ![at].list = Append(@, p),
                             ![at].spare = spare]
      /\ current' = at
      /\ buffered' = buffered + length'[item] - offset
      /\ total' = total + length'[item] - offset
      /\ \/ state' = state /\ ended' = ended
         \/ ape_shutdown("cut")
    BY DEF ape_socket_queue_data
<1>2. slots \in Seq(Slot) /\ current \in 1 .. Len(slots) /\ "WRITEV" \in JobTypes
    BY DEF TypeOK, JobTypes
<1>3. /\ at \in {current, current + 1} /\ at \in 1 .. Len(ss)
      /\ ss \in Seq(Slot) /\ Len(slots) <= Len(ss)
      /\ SlotAt(at) \in Slot
      /\ ss[at] = [SlotAt(at) EXCEPT !.flags = @ \union {"ACTIVE", "WRITEV"}]
      /\ \A i \in 1 .. Len(ss) : i # at => ss[i] = SlotAt(i)
    BY <1>2, GetSlot
<1>4. /\ p \in Packet /\ p.offset < p.len /\ Left(p) = length'[item] - offset
      /\ length'[item] \in Nat
  <2>1. length'[item] \in Lengths \union {1}
    OBVIOUS
  <2>2. \A x \in Lengths \union {1} : x \in Nat
    BY SendPathAssumption
  <2> QED
    BY <2>1, <2>2 DEF Packet, Left
<1>5. /\ ss[at].ptr = SlotAt(at).ptr /\ ss[at].list = SlotAt(at).list
      /\ ss[at].spare = SlotAt(at).spare
      /\ ss[at].flags = SlotAt(at).flags \union {"ACTIVE", "WRITEV"}
      /\ ss[at] \in Slot
    BY SMTT(30), <1>3 DEF Slot
<1>6. spare \in Nat /\ spare > 0
  <2>1. old \in Nat \ {0}
    <3>1. CASE ss[at].ptr = "list"
        <4>1. at \in 1 .. Len(slots) /\ slots[at].ptr = "list"
            BY <1>5, <3>1 DEF SlotAt, EmptySlot
        <4>2. SlotAt(at).spare > 0
            BY <4>1 DEF SpareSlots, SlotAt
        <4> QED
            BY <1>3, <1>5, <3>1, <4>2 DEF Slot
    <3>2. CASE ss[at].ptr # "list"
        BY <3>2, SendPathAssumption
    <3> QED
        BY <3>1, <3>2
  <2> HIDE DEF old
  <2> QED
    BY <2>1, SendPathAssumption
<1> HIDE DEF ss, old, spare
<1> DEFINE slot == [ss[at] EXCEPT !.ptr = "list", !.list = Append(ss[at].list, p),
                                  !.spare = spare]
<1>7. slots' = [ss EXCEPT ![at] = slot]
    BY <1>1
<1>8. /\ slot \in Slot /\ slot.flags = ss[at].flags /\ slot.ptr = "list"
      /\ slot.spare = spare /\ slot.list = Append(ss[at].list, p)
  <2>1. Append(ss[at].list, p) \in Seq(Packet)
    BY <1>4, <1>5 DEF Slot
  <2> QED
    BY <1>5, <1>6, <2>1 DEF Slot
<1> HIDE DEF slot
<1>9. /\ slots' \in Seq(Slot) /\ Len(slots') = Len(ss) /\ slots'[at] = slot
      /\ \A i \in 1 .. Len(ss) : i # at => slots'[i] = ss[i]
    BY <1>3, <1>7, <1>8
<1>10. /\ buffered' = buffered + Left(p) /\ total' = total + Left(p)
       /\ buffered' \in Nat /\ total' \in Nat
  <2>1. \A x, y, z \in Nat : x + y - z = x + (y - z)
    OBVIOUS
  <2>2. buffered \in Nat /\ total \in Nat
    BY DEF TypeOK
  <2>3. /\ buffered' = buffered + (length'[item] - offset)
        /\ total' = total + (length'[item] - offset)
        /\ length'[item] - offset \in Nat
    BY <1>1, <1>4, <2>1, <2>2
  <2> QED
    BY <1>4, <2>2, <2>3
<1> QED
    BY <1>1, <1>3, <1>4, <1>5, <1>6, <1>8, <1>9, <1>10

\* What the lists hold then.
LEMMA QueueLeft ==
    ASSUME slots \in Seq(Slot), OpenSlots(slots), slots' \in Seq(Slot),
           Len(slots) <= Len(slots'), NEW at \in 1 .. Len(slots'),
           NEW p \in Packet, p.offset < p.len, SlotAt(at).list \in Seq(Packet),
           slots'[at].list = Append(SlotAt(at).list, p),
           \A i \in 1 .. Len(slots') : i # at => slots'[i].list = SlotAt(i).list
    PROVE  /\ OpenSlots(slots') /\ SlotsLeft(slots') = SlotsLeft(slots) + Left(p)
           /\ \A j \in 0 .. at - 1 : PartialSums(SlotLefts(slots'))[j]
                 = IF j <= Len(slots) THEN PartialSums(SlotLefts(slots))[j] ELSE SlotsLeft(slots)
           /\ \A j \in at .. Len(slots') : PartialSums(SlotLefts(slots'))[j]
                 = (IF j <= Len(slots) THEN PartialSums(SlotLefts(slots))[j]
                                      ELSE SlotsLeft(slots)) + Left(p)
<1> DEFINE tt == [i \in 1 .. Len(slots') |-> SlotAt(i)]
<1>1. Len(slots) \in Nat /\ Len(slots') \in Nat
    OBVIOUS
<1>2. \A i \in 1 .. Len(slots') : SlotAt(i) \in Slot
    BY EmptyList DEF SlotAt
<1>3. tt \in Seq(Slot) /\ Len(tt) = Len(slots') /\ \A i \in 1 .. Len(tt) : tt[i] = SlotAt(i)
    BY <1>1, <1>2
<1> HIDE DEF tt
<1>4. Extends(tt, slots)
  <2>1. Len(slots) <= Len(tt)
    BY <1>3
  <2>2. \A i \in 1 .. Len(slots) : tt[i].list = slots[i].list
    BY SMTT(30), <1>1, <1>3 DEF SlotAt
  <2>3. \A i \in Len(slots) + 1 .. Len(tt) : tt[i].list = <<>>
    BY <1>1, <1>3 DEF SlotAt, EmptySlot
  <2> QED
    BY <2>1, <2>2, <2>3 DEF Extends
<1>5. /\ OpenSlots(tt) /\ SlotsLeft(tt) = SlotsLeft(slots)
      /\ \A j \in 0 .. Len(slots) :
            PartialSums(SlotLefts(tt))[j] = PartialSums(SlotLefts(slots))[j]
      /\ \A j \in Len(slots) .. Len(tt) :
            PartialSums(SlotLefts(tt))[j] = SlotsLeft(slots)
    BY <1>3, <1>4, SlotsExtended
<1>6. /\ Open(tt[at].list) /\ Open(slots'[at].list)
      /\ LeftIn(slots'[at].list) = LeftIn(tt[at].list) + Left(p)
      /\ LeftIn(tt[at].list) \in Nat /\ Left(p) \in Nat
  <2>1. tt[at] = SlotAt(at) /\ Open(tt[at].list)
    BY <1>3, <1>5 DEF OpenSlots
  <2>2. /\ Open(slots'[at].list)
        /\ LeftIn(slots'[at].list) = LeftIn(tt[at].list) + Left(p)
    <3>1. tt[at].list \in Seq(Packet) /\ slots'[at].list = Append(tt[at].list, p)
        BY <2>1
    <3> QED
        <4> DEFINE short == tt[at].list
                   longer == slots'[at].list
        <4>1. short \in Seq(Packet) /\ Open(short) /\ longer = Append(short, p)
            BY <2>1, <3>1
        <4> HIDE DEF short, longer
        <4>2. Open(longer) /\ LeftIn(longer) = LeftIn(short) + Left(p)
            BY ZenonT(30), <4>1, AppendLeft
        <4> QED
            BY <4>2 DEF short, longer
  <2>3. LeftIn(tt[at].list) \in Nat
    BY <2>1, BeforeDef
  <2> QED
    BY <2>1, <2>2, <2>3 DEF Packet, Left
<1>7. \A j \in 1 .. Len(tt) : j # at => slots'[j].list = tt[j].list
    BY <1>3
<1>8. /\ OpenSlots(slots')
      /\ SlotsLeft(slots') = SlotsLeft(tt) + LeftIn(slots'[at].list) - LeftIn(tt[at].list)
      /\ \A j \in 0 .. at - 1 :
            PartialSums(SlotLefts(slots'))[j] = PartialSums(SlotLefts(tt))[j]
      /\ \A j \in at .. Len(tt) :
            PartialSums(SlotLefts(slots'))[j] = PartialSums(SlotLefts(tt))[j]
                                    + LeftIn(slots'[at].list) - LeftIn(tt[at].list)
  <2>1. Len(slots') = Len(tt) /\ at \in 1 .. Len(tt)
    BY <1>3
  <2> QED
    BY <1>3, <1>5, <1>6, <1>7, <2>1, SlotsChanged, Zenon
<1>9. \A x, y, z \in Nat : x + (y + z) - y = x + z
    OBVIOUS
<1>10. /\ SlotsLeft(slots) \in Nat
       /\ \A j \in 0 .. Len(tt) : PartialSums(SlotLefts(tt))[j] \in Nat
  <2>1. SlotLefts(tt) \in Seq(Nat) /\ Len(SlotLefts(tt)) = Len(tt) /\ SlotsLeft(tt) \in Nat
    BY <1>3, <1>5, SlotLeftsType
  <2> QED
    BY <1>5, <2>1, SumsDef
<1>11. \A j \in 0 .. Len(tt) : PartialSums(SlotLefts(tt))[j]
          = IF j <= Len(slots) THEN PartialSums(SlotLefts(slots))[j] ELSE SlotsLeft(slots)
  <2>1. \A j \in 0 .. Len(tt) :
           \/ j \in 0 .. Len(slots) /\ j <= Len(slots)
           \/ j \in Len(slots) .. Len(tt) /\ ~(j <= Len(slots))
    BY <1>1, <1>3
  <2> QED
    BY <1>5, <2>1
<1>12. /\ \A j \in 0 .. at - 1 : j \in 0 .. Len(tt)
       /\ \A j \in at .. Len(slots') : j \in 0 .. Len(tt) /\ j \in at .. Len(tt)
    BY <1>1, <1>3
<1>13. SlotsLeft(slots') = SlotsLeft(slots) + Left(p)
    BY <1>5, <1>6, <1>8, <1>9, <1>10
<1>14. \A j \in at .. Len(slots') :
          PartialSums(SlotLefts(slots'))[j] = PartialSums(SlotLefts(tt))[j] + Left(p)
    BY <1>6, <1>8, <1>9, <1>10, <1>12
<1> QED
    BY <1>8, <1>11, <1>12, <1>13, <1>14


\* When the head is done, with this list: it goes to the current place.
LEMMA DoneLeft ==
    ASSUME slots \in Seq(Slot), OpenSlots(slots), current \in 1 .. Len(slots),
           slots' \in Seq(Slot), Len(slots') = Len(slots),
           NEW list \in Seq(Packet), Open(list), slots'[current].list = list,
           \A i \in 1 .. current - 1 : slots'[i].list = slots[i + 1].list,
           \A i \in current + 1 .. Len(slots) : slots'[i].list = slots[i].list
    PROVE  /\ OpenSlots(slots')
           /\ SlotsLeft(slots') = SlotsLeft(slots) + LeftIn(list) - LeftIn(slots[1].list)
           /\ \A j \in 0 .. current - 1 : PartialSums(SlotLefts(slots'))[j]
                 = PartialSums(SlotLefts(slots))[j + 1] - LeftIn(slots[1].list)
           /\ \A j \in current .. Len(slots) : PartialSums(SlotLefts(slots'))[j]
                 = PartialSums(SlotLefts(slots))[j] + LeftIn(list) - LeftIn(slots[1].list)
<1> DEFINE mid == [slots EXCEPT ![1] = [slots[1] EXCEPT !.list = list]]
           N == Len(slots)
<1>1. N \in Nat /\ 1 \in 1 .. N /\ current \in 1 .. N
    OBVIOUS
<1>2. [slots[1] EXCEPT !.list = list] \in Slot
  <2>1. slots[1] \in Slot
    BY <1>1
  <2> QED
    BY <2>1 DEF Slot
<1>3. /\ mid \in Seq(Slot) /\ Len(mid) = N /\ mid[1].list = list
      /\ \A j \in 1 .. N : j # 1 => mid[j].list = slots[j].list
  <2>1. slots[1] \in Slot
    BY <1>1
  <2>2. [slots[1] EXCEPT !.list = list].list = list
    BY <2>1 DEF Slot
  <2> QED
    BY <1>1, <1>2, <2>2
<1> HIDE DEF mid
<1>4. /\ OpenSlots(mid)
      /\ SlotsLeft(mid) = SlotsLeft(slots) + LeftIn(mid[1].list) - LeftIn(slots[1].list)
      /\ \A j \in 0 .. 1 - 1 :
            PartialSums(SlotLefts(mid))[j] = PartialSums(SlotLefts(slots))[j]
      /\ \A j \in 1 .. N : PartialSums(SlotLefts(mid))[j] = PartialSums(SlotLefts(slots))[j]
                                         + LeftIn(mid[1].list) - LeftIn(slots[1].list)
  <2>1. Open(mid[1].list)
    BY <1>3
  <2> QED
    BY <1>1, <1>3, <2>1, SlotsChanged, Zenon
<1>5. /\ Len(slots') = Len(mid) /\ current \in 1 .. Len(mid)
      /\ slots'[current].list = mid[1].list
      /\ \A j \in 1 .. current - 1 : slots'[j].list = mid[j + 1].list
      /\ \A j \in current + 1 .. Len(mid) : slots'[j].list = mid[j].list
  <2>1. \A j \in 1 .. current - 1 : j + 1 \in 1 .. N /\ j + 1 # 1
    BY <1>1
  <2>2. \A j \in current + 1 .. N : j \in 1 .. N /\ j # 1
    BY <1>1
  <2> QED
    BY <1>3, <2>1, <2>2
<1>6. /\ OpenSlots(slots') /\ SlotsLeft(slots') = SlotsLeft(mid)
      /\ \A j \in 0 .. current - 1 : PartialSums(SlotLefts(slots'))[j]
            = PartialSums(SlotLefts(mid))[j + 1] - LeftIn(mid[1].list)
      /\ \A j \in current .. Len(mid) :
            PartialSums(SlotLefts(slots'))[j] = PartialSums(SlotLefts(mid))[j]
    BY <1>3, <1>4, <1>5, SlotsRotated, Zenon
<1>7. LeftIn(list) \in Nat /\ LeftIn(slots[1].list) \in Nat
    BY <1>1, SlotLeftsType, BeforeDef
<1>8. \A j \in 0 .. N : PartialSums(SlotLefts(slots))[j] \in Nat
    BY <1>1, SlotLeftsType, SumsDef
<1>9. ASSUME NEW j \in 0 .. current - 1
      PROVE  PartialSums(SlotLefts(slots'))[j]
                 = PartialSums(SlotLefts(slots))[j + 1] - LeftIn(slots[1].list)
  <2>1. j + 1 \in 1 .. N /\ j + 1 \in 0 .. N
    BY <1>1
  <2>2. PICK x \in Nat : x = PartialSums(SlotLefts(slots))[j + 1]
    BY <1>8, <2>1
  <2>3. PartialSums(SlotLefts(mid))[j + 1] = x + LeftIn(list) - LeftIn(slots[1].list)
    BY <1>3, <1>4, <2>1, <2>2
  <2>4. PartialSums(SlotLefts(slots'))[j]
           = (x + LeftIn(list) - LeftIn(slots[1].list)) - LeftIn(list)
    BY <1>3, <1>6, <2>3
  <2>5. \A a, b, c \in Nat : (a + b - c) - b = a - c
    OBVIOUS
  <2> QED
    BY <1>7, <2>2, <2>4, <2>5
<1>10. ASSUME NEW j \in current .. N
       PROVE  PartialSums(SlotLefts(slots'))[j]
                 = PartialSums(SlotLefts(slots))[j] + LeftIn(list) - LeftIn(slots[1].list)
  <2>1. j \in 1 .. N
    BY <1>1
  <2> QED
    BY <1>3, <1>4, <1>6, <2>1
<1> QED
    BY <1>3, <1>4, <1>6, <1>9, <1>10

\* What the head has left is a part of what all have.
LEMMA HeadLeft ==
    ASSUME slots \in Seq(Slot), OpenSlots(slots), 1 \in 1 .. Len(slots)
    PROVE  /\ LeftIn(slots[1].list) \in Nat /\ SlotsLeft(slots) \in Nat
           /\ PartialSums(SlotLefts(slots))[1] = LeftIn(slots[1].list)
           /\ LeftIn(slots[1].list) <= SlotsLeft(slots)
<1> DEFINE f == SlotLefts(slots)
<1>1. /\ f \in Seq(Nat) /\ Len(f) = Len(slots) /\ f[1] = LeftIn(slots[1].list)
      /\ LeftIn(slots[1].list) \in Nat /\ SlotsLeft(slots) \in Nat
    BY SlotLeftsType
<1> HIDE DEF f
<1>2. /\ PartialSums(f)[0] = 0 /\ PartialSums(f)[1] = PartialSums(f)[1 - 1] + f[1]
    BY <1>1, SumsDef
<1>3. PartialSums(f)[1] = f[1]
    BY <1>1, <1>2
<1>4. Len(f) \in 1 .. Len(f) /\ 1 \in 0 .. Len(f)
    BY <1>1
<1>5. PartialSums(f)[1] <= PartialSums(f)[Len(f)]
    BY <1>1, <1>4, SumsMonotone
<1> QED
    BY <1>1, <1>3, <1>5 DEF SlotsLeft, SumOf, f

\* writev: what becomes of the head.
LEMMA WritevJob ==
    ASSUME TypeOK, OpenSlots(slots), NEW n \in 1 .. Offered(Job.list),
           NEW done, done = 1 .. FirstLeft(Job.list, n) - 1,
           NEW job, job = [Job EXCEPT !.list = After(Job.list, n),
                                      !.spare = @ + Cardinality(done)]
    PROVE  /\ Job = slots[1] /\ Job \in Slot /\ Open(Job.list)
           /\ n \in 1 .. LeftIn(Job.list) /\ IsFiniteSet(done)
           /\ job \in Slot /\ job.flags = Job.flags /\ job.ptr = Job.ptr
           /\ job.list = After(Job.list, n) /\ job.spare >= Job.spare
           /\ Open(job.list) /\ LeftIn(job.list) = LeftIn(Job.list) - n
           /\ n <= SlotsLeft(slots)
<1>1. Job = slots[1] /\ Job \in Slot /\ 1 \in 1 .. Len(slots)
    BY DEF TypeOK, Job
<1>2. Job.list \in Seq(Packet) /\ Job.spare \in Nat
    BY <1>1 DEF Slot
<1>3. Open(Job.list)
    BY <1>1 DEF OpenSlots
<1>4. Offered(Job.list) \in 0 .. LeftIn(Job.list) /\ LeftIn(Job.list) \in Nat
    BY <1>2, <1>3, OfferedBound, BeforeDef
<1>5. n \in 1 .. LeftIn(Job.list) /\ n \in 0 .. LeftIn(Job.list)
    BY <1>4
<1>6. FirstLeft(Job.list, n) \in 1 .. Len(Job.list) + 1
    BY <1>2, <1>3, <1>5, FirstLeftDef
<1>7. IsFiniteSet(done) /\ Cardinality(done) \in Nat
  <2>1. FirstLeft(Job.list, n) - 1 \in Nat
    BY <1>2, <1>6
  <2> QED
    BY <2>1, FS_Interval, FS_CardinalityType
<1>8. After(Job.list, n) \in Seq(Packet) /\ Open(After(Job.list, n))
    BY <1>2, <1>3, <1>5, AfterDef
<1>9. LeftIn(After(Job.list, n)) = LeftIn(Job.list) - n
    BY <1>2, <1>3, <1>5, AfterBefore
<1>10. /\ job \in Slot /\ job.flags = Job.flags /\ job.ptr = Job.ptr
       /\ job.list = After(Job.list, n) /\ job.spare >= Job.spare
  <2>1. PICK m \in Nat : m = Cardinality(done)
    BY <1>7
  <2>2. job = [Job EXCEPT !.list = After(Job.list, n), !.spare = Job.spare + m]
    BY <2>1
  <2>3. Job.spare + m \in Nat /\ Job.spare + m >= Job.spare
    BY <1>2, <2>1
  <2> QED
    BY <1>1, <1>8, <2>2, <2>3 DEF Slot
<1>11. n <= SlotsLeft(slots)
  <2>1. slots \in Seq(Slot)
    BY DEF TypeOK
  <2>2. LeftIn(slots[1].list) <= SlotsLeft(slots) /\ SlotsLeft(slots) \in Nat
    BY <1>1, <2>1, HeadLeft
  <2> QED
    BY <1>1, <1>4, <1>5, <2>2
<1> QED
    BY <1>1, <1>3, <1>5, <1>7, <1>8, <1>9, <1>10, <1>11


-----------------------------------------------------------------------------
(* The counters and the types.                                             *)

\* What the lists, and what is counted of them, come from.
listVars == <<slots, current, buffered, total>>

\* A step that leaves the lists alone.
LEMMA ListsUnchanged ==
    ASSUME CountInv, UNCHANGED listVars, state = "FREED" => state' = "FREED"
    PROVE  /\ SpareSlots' /\ FileJobs' /\ BufferAccounting' /\ OpenSlots(slots)'
           /\ slots' \in Seq(Slot) /\ current' \in DOMAIN slots'
           /\ buffered' \in Nat /\ total' \in Nat
BY DEF CountInv, TypeOK, SpareSlots, FileJobs, BufferAccounting, OpenSlots, listVars

\* What ape_shutdown changes.
LEMMA ShutdownState ==
    ASSUME TypeOK, NEW how \in {"orderly", "cut"}, ape_shutdown(how)
    PROVE  /\ state' \in {"ONLINE", "SHUTDOWN", "FREED"}
           /\ ended' \in {"no", "orderly", "cut"}
           /\ state = "FREED" <=> state' = "FREED"
           /\ state' # "ONLINE"
BY DEF TypeOK, ape_shutdown

\* An item given to the API.
LEMMA GivenItem ==
    ASSUME TypeOK, NEW len \in Lengths \union {1}, Given(len)
    PROVE  /\ Item \in Items /\ Item \in DOMAIN length' /\ length'[Item] = len
           /\ length' \in Seq(Lengths \union {1}) /\ len \in Nat \ {0}
           /\ Len(length') = Item /\ Item = Len(length) + 1
           /\ \A x \in DOMAIN length : x \in DOMAIN length' /\ length'[x] = length[x]
           /\ pc \in {"user", "drain"} /\ state # "FREED"
<1>1. length \in Seq(Lengths \union {1}) /\ length' = Append(length, len) /\ Len(length) \in Nat
    BY DEF TypeOK, Given
<1>2. Len(length) < MaxItems /\ pc \in {"user", "drain"} /\ state # "FREED"
    BY DEF Given, InUserCode
<1>3. \A x \in Lengths \union {1} : x \in Nat \ {0}
    BY SendPathAssumption
<1>4. Item \in Items
    BY <1>1, <1>2, SendPathAssumption DEF Item, Items
<1>5. /\ length' \in Seq(Lengths \union {1}) /\ Len(length') = Len(length) + 1
      /\ length'[Len(length) + 1] = len
      /\ \A x \in 1 .. Len(length) : length'[x] = length[x]
    BY <1>1
<1> QED
    BY <1>1, <1>2, <1>3, <1>4, <1>5 DEF Item


\* The counters, at the start.
LEMMA CountInit == ASSUME Init PROVE CountInv
<1>1. slots \in Seq(Slot) /\ Len(slots) = JobChunk /\ current \in DOMAIN slots
      /\ \A i \in 1 .. JobChunk : slots[i] = EmptySlot
    BY SendPathAssumption, EmptyList DEF Init, NewPool
<1>2. OpenSlots(slots) /\ SpareSlots /\ FileJobs
    BY <1>1, EmptyList DEF OpenSlots, SpareSlots, FileJobs, EmptySlot, Active
<1>3. SlotsLeft(slots) = 0
  <2> DEFINE f == SlotLefts(slots)
  <2>1. /\ f \in Seq(Nat) /\ Len(f) = JobChunk
        /\ \A i \in 1 .. JobChunk : f[i] = LeftIn(slots[i].list)
    BY <1>1, <1>2, SlotLeftsType
  <2>2. \A i \in 1 .. JobChunk : f[i] = 0
    BY <1>1, <2>1, EmptyList DEF EmptySlot
  <2> HIDE DEF f
  <2>3. /\ 0 \in 0 .. Len(f) /\ Len(f) \in 0 .. Len(f)
        /\ \A i \in 0 + 1 .. Len(f) : f[i] = 0
    BY <2>1, <2>2
  <2>4. PartialSums(f)[Len(f)] = PartialSums(f)[0] /\ PartialSums(f)[0] = 0
    BY <2>1, <2>3, SumsOfZeros, SumsDef
  <2> QED
    BY <2>4 DEF SlotsLeft, SumOf, f
<1>4. TypeOK
  <2>1. writing \in [item : Items \union {0}, t_bytes : Nat] /\ released \in [Items -> Nat]
    BY DEF Init
  <2>2. length = <<>> /\ accepted = <<>> /\ sent = <<>> /\ asked = -1
    BY DEF Init
  <2>3. /\ length \in Seq(Lengths \union {1})
        /\ accepted \in Seq(Items \X (Nat \ {0})) /\ sent \in Seq(Items \X (Nat \ {0}))
    BY <2>2
  <2>4. /\ pc = "user" /\ state = "ONLINE" /\ blocked \in BOOLEAN
        /\ buffered = 0 /\ total = 0 /\ njobs = 0 /\ ended = "no"
    BY DEF Init
  <2> QED
    BY <1>1, <2>1, <2>2, <2>3, <2>4 DEF TypeOK
<1>5. Phases /\ BufferAccounting
    BY <1>3 DEF Init, Phases, BufferAccounting
<1> QED
    BY <1>2, <1>4, <1>5 DEF CountInv

\* A packet queued.
LEMMA CountQueued ==
    ASSUME CountInv, state # "FREED", length' \in Seq(Lengths \union {1}),
           NEW item \in DOMAIN length', item \in Items,
           NEW offset \in Nat, offset < length'[item],
           ape_socket_queue_data(item, offset)
    PROVE  /\ SpareSlots' /\ FileJobs' /\ BufferAccounting' /\ OpenSlots(slots)'
           /\ slots' \in Seq(Slot) /\ current' \in DOMAIN slots'
           /\ buffered' \in Nat /\ total' \in Nat
           /\ state' \in {"ONLINE", "SHUTDOWN"} /\ ended' \in {"no", "orderly", "cut"}
<1> DEFINE at == SlotIndex("WRITEV")
           p  == [item |-> item, len |-> length'[item], offset |-> offset]
<1>1. TypeOK /\ OpenSlots(slots) /\ SpareSlots /\ FileJobs /\ BufferAccounting
    BY DEF CountInv
<1>2. /\ at \in 1 .. Len(slots') /\ current' = at
      /\ slots' \in Seq(Slot) /\ Len(slots) <= Len(slots')
      /\ SlotAt(at) \in Slot /\ slots'[at].ptr = "list" /\ slots'[at].spare > 0
      /\ p \in Packet /\ p.offset < p.len
      /\ slots'[at].flags = SlotAt(at).flags \union {"ACTIVE", "WRITEV"}
      /\ slots'[at].list = Append(SlotAt(at).list, p)
      /\ \A i \in 1 .. Len(slots') : i # at => slots'[i] = SlotAt(i)
      /\ buffered' = buffered + Left(p) /\ total' = total + Left(p)
      /\ buffered' \in Nat /\ total' \in Nat
      /\ \/ state' = state /\ ended' = ended
         \/ ape_shutdown("cut")
    BY <1>1, QueueStep
<1> HIDE DEF at, p
<1>3. OpenSlots(slots') /\ SlotsLeft(slots') = SlotsLeft(slots) + Left(p)
  <2>1. SlotAt(at).list \in Seq(Packet) /\ slots \in Seq(Slot)
    BY <1>1, <1>2 DEF Slot, TypeOK
  <2>2. \A i \in 1 .. Len(slots') : i # at => slots'[i].list = SlotAt(i).list
    BY <1>2
  <2> QED
    BY <1>1, <1>2, <2>1, <2>2, QueueLeft
<1>4. SpareSlots'
  <2>1. \A i \in 1 .. Len(slots') : SlotAt(i).ptr = "list" => SlotAt(i).spare > 0
    BY <1>1 DEF SpareSlots, SlotAt, EmptySlot
  <2> QED
    BY <1>2, <2>1 DEF SpareSlots
<1>5. BufferAccounting'
    BY <1>1, <1>2, <1>3 DEF BufferAccounting
<1>6. state' \in {"ONLINE", "SHUTDOWN"} /\ ended' \in {"no", "orderly", "cut"}
    BY <1>1, <1>2 DEF TypeOK, ape_shutdown
<1>7. FileJobs'
  <2>1. "WRITEV" \in Type(slots'[at])
    BY <1>2 DEF Type
  <2>2. \A i \in 1 .. Len(slots') :
           Active(SlotAt(i)) /\ Type(SlotAt(i)) = {"SENDFILE"} => SlotAt(i).file # 0
    BY <1>1 DEF FileJobs, SlotAt, EmptySlot, Active
  <2> QED
    BY SMTT(30), <1>2, <2>1, <2>2 DEF FileJobs
<1> QED
    BY <1>2, <1>3, <1>4, <1>5, <1>6, <1>7

\* The head done, with what may be left of its list.
LEMMA CountDone ==
    ASSUME CountInv, NEW job \in Slot, Open(job.list), JobDone(job),
           job.ptr = "list" => job.spare > 0
    PROVE  /\ SpareSlots' /\ FileJobs' /\ OpenSlots(slots)'
           /\ slots' \in Seq(Slot) /\ current' \in DOMAIN slots' /\ njobs' \in Nat
           /\ SlotsLeft(slots') = SlotsLeft(slots) + LeftIn(job.list) - LeftIn(slots[1].list)
<1>1. /\ slots \in Seq(Slot) /\ current \in 1 .. Len(slots) /\ njobs \in Nat
      /\ OpenSlots(slots) /\ SpareSlots /\ FileJobs
    BY DEF CountInv, TypeOK
<1>2. /\ current' = current /\ slots' \in Seq(Slot) /\ Len(slots') = Len(slots)
      /\ njobs' = njobs + 1
      /\ slots'[current] = [job EXCEPT !.flags = @ \ {"ACTIVE"}]
      /\ \A i \in 1 .. current - 1 :
            i + 1 \in 1 .. Len(slots) /\ slots'[i] = slots[i + 1]
      /\ \A i \in current + 1 .. Len(slots) : slots'[i] = slots[i]
    BY <1>1, DoneSlots
<1>3. /\ slots'[current].list = job.list /\ slots'[current].ptr = job.ptr
      /\ slots'[current].spare = job.spare /\ job.list \in Seq(Packet)
    BY <1>2 DEF Slot
<1>4. /\ OpenSlots(slots')
      /\ SlotsLeft(slots') = SlotsLeft(slots) + LeftIn(job.list) - LeftIn(slots[1].list)
  <2>1. /\ \A i \in 1 .. current - 1 : slots'[i].list = slots[i + 1].list
        /\ \A i \in current + 1 .. Len(slots) : slots'[i].list = slots[i].list
    BY <1>2
  <2> QED
    BY <1>1, <1>2, <1>3, <2>1, DoneLeft
<1>5. SpareSlots'
  <2>1. SUFFICES ASSUME NEW i \in 1 .. Len(slots), slots'[i].ptr = "list"
                 PROVE  slots'[i].spare > 0
    BY <1>2 DEF SpareSlots
  <2>2. CASE i = current
    BY <1>3, <2>1, <2>2
  <2>3. CASE i \in 1 .. current - 1
    BY <1>1, <1>2, <2>1, <2>3 DEF SpareSlots
  <2>4. CASE i \in current + 1 .. Len(slots)
    BY <1>1, <1>2, <2>1, <2>4 DEF SpareSlots
  <2> QED
    BY <1>1, <2>2, <2>3, <2>4
<1>6. FileJobs'
  <2>1. SUFFICES ASSUME NEW i \in 1 .. Len(slots), Active(slots'[i]),
                        Type(slots'[i]) = {"SENDFILE"}
                 PROVE  slots'[i].file # 0
    BY <1>2 DEF FileJobs, Active, Type
  <2>2. CASE i = current
    <3>1. slots'[current].flags = job.flags \ {"ACTIVE"}
        BY <1>2 DEF Slot
    <3> QED
        BY <2>1, <2>2, <3>1 DEF Active
  <2>3. CASE i \in 1 .. current - 1
    BY SMTT(30), <1>1, <1>2, <2>1, <2>3 DEF FileJobs
  <2>4. CASE i \in current + 1 .. Len(slots)
    BY <1>1, <1>2, <2>1, <2>4 DEF FileJobs
  <2> QED
    BY <1>1, <2>2, <2>3, <2>4
<1> QED
    BY <1>1, <1>2, <1>4, <1>5, <1>6


\* A slot got for a job that brings no packet.
LEMMA CountGot ==
    ASSUME CountInv, state # "FREED", slots' \in Seq(Slot), Len(slots) <= Len(slots'),
           buffered' = buffered, total' = total,
           \A i \in 1 .. Len(slots') :
              /\ slots'[i].list = SlotAt(i).list
              /\ slots'[i].ptr = "list" => /\ SlotAt(i).ptr = "list"
                                           /\ slots'[i].spare = SlotAt(i).spare
              /\ \/ slots'[i].file # 0 \/ "SHUTDOWN" \in slots'[i].flags
                 \/ slots'[i] = SlotAt(i)
    PROVE  SpareSlots' /\ FileJobs' /\ BufferAccounting' /\ OpenSlots(slots)'
<1>1. /\ slots \in Seq(Slot) /\ OpenSlots(slots) /\ SpareSlots /\ BufferAccounting
      /\ FileJobs
    BY DEF CountInv, TypeOK
<1>2. Extends(slots', slots)
  <2>1. \A i \in 1 .. Len(slots) : i \in 1 .. Len(slots') /\ SlotAt(i) = slots[i]
    BY <1>1 DEF SlotAt
  <2>2. \A i \in Len(slots) + 1 .. Len(slots') :
           i \in 1 .. Len(slots') /\ SlotAt(i).list = <<>>
    BY <1>1 DEF SlotAt, EmptySlot
  <2> QED
    BY <2>1, <2>2 DEF Extends
<1>3. OpenSlots(slots') /\ SlotsLeft(slots') = SlotsLeft(slots)
    BY <1>1, <1>2, SlotsExtended
<1>4. BufferAccounting'
    BY <1>1, <1>3 DEF BufferAccounting
<1>5. SpareSlots'
  <2>1. \A i \in 1 .. Len(slots') : SlotAt(i).ptr = "list" => SlotAt(i).spare > 0
    BY <1>1 DEF SpareSlots, SlotAt, EmptySlot
  <2> QED
    BY <2>1 DEF SpareSlots
<1>6. FileJobs'
  <2>1. \A i \in 1 .. Len(slots') :
           Active(SlotAt(i)) /\ Type(SlotAt(i)) = {"SENDFILE"} => SlotAt(i).file # 0
    BY <1>1 DEF FileJobs, SlotAt, EmptySlot, Active
  <2>2. \A i \in 1 .. Len(slots') :
           Type(slots'[i]) = {"SENDFILE"} => "SHUTDOWN" \notin slots'[i].flags
    BY DEF Type
  <2> QED
    BY <2>1, <2>2 DEF FileJobs
<1> QED
    BY <1>3, <1>4, <1>5, <1>6

\* Bytes more at the end of a history.
LEMMA MoreBytes ==
    ASSUME NEW s \in Seq(Byte), NEW t \in Seq(Byte)
    PROVE  /\ s \o t \in Seq(Byte) /\ Len(s \o t) = Len(s) + Len(t)
           /\ \A k \in 1 .. Len(s) : (s \o t)[k] = s[k]
           /\ \A k \in 1 .. Len(t) : (s \o t)[Len(s) + k] = t[k]
<1> HIDE DEF Byte
<1>1. Len(s) \in Nat /\ Len(t) \in Nat
    OBVIOUS
<1>2. /\ s \o t \in Seq(Byte) /\ Len(s \o t) = Len(s) + Len(t)
      /\ \A i \in 1 .. Len(s) + Len(t) :
            (s \o t)[i] = IF i <= Len(s) THEN s[i] ELSE t[i - Len(s)]
    BY ConcatProperties, Zenon
<1>3. \A k \in 1 .. Len(s) : k \in 1 .. Len(s) + Len(t) /\ k <= Len(s)
    BY <1>1
<1>4. \A k \in 1 .. Len(t) : /\ Len(s) + k \in 1 .. Len(s) + Len(t)
                             /\ ~(Len(s) + k <= Len(s)) /\ (Len(s) + k) - Len(s) = k
    BY <1>1
<1>5. \A k \in 1 .. Len(s) : (s \o t)[k] = s[k]
    BY <1>2, <1>3
<1>6. \A k \in 1 .. Len(t) : (s \o t)[Len(s) + k] = t[k]
    BY <1>2, <1>4
<1> QED
    BY <1>2, <1>5, <1>6

\* No step breaks what the counters rest on.
LEMMA CountStep == ASSUME CountInv, Next PROVE CountInv'
<1>1. TypeOK /\ Phases /\ SpareSlots /\ BufferAccounting /\ OpenSlots(slots) /\ FileJobs
    BY DEF CountInv
<1>2. CASE WriteRefused
  <2>1. PICK len \in Lengths : Given(len)
    BY <1>2 DEF WriteRefused
  <2>2. /\ Item \in Items /\ length' \in Seq(Lengths \union {1})
        /\ pc \in {"user", "drain"}
    BY <1>1, <2>1, GivenItem
  <2>3. UNCHANGED listVars /\ released' = [released EXCEPT ![Item] = @ + 1]
        /\ UNCHANGED <<pc, state, blocked, writing, njobs, accepted, sent, asked, ended>>
    BY <1>2 DEF WriteRefused, listVars
  <2>4. released' \in [Items -> Nat]
    BY <1>1, <2>2, <2>3 DEF TypeOK
  <2>5. TypeOK' /\ Phases'
    BY <1>1, <2>2, <2>3, <2>4 DEF TypeOK, Phases, listVars
  <2>6. SpareSlots' /\ FileJobs' /\ BufferAccounting' /\ OpenSlots(slots)'
    BY <2>3, ListsUnchanged
  <2> QED
    BY <2>5, <2>6 DEF CountInv
<1>3. CASE WriteQueued
  <2>1. PICK len \in Lengths :
            Given(len) /\ accepted' = accepted \o BytesOf(Item, 1, len)
    BY <1>3 DEF WriteQueued
  <2>2. /\ Item \in Items /\ Item \in DOMAIN length' /\ length'[Item] = len
        /\ length' \in Seq(Lengths \union {1}) /\ len \in Nat \ {0}
        /\ pc \in {"user", "drain"} /\ state # "FREED"
    BY <1>1, <2>1, GivenItem
  <2>3. /\ ape_socket_queue_data(Item, 0)
        /\ UNCHANGED <<pc, blocked, writing, njobs, sent, asked, released>>
    BY <1>3 DEF WriteQueued
  <2>4. /\ SpareSlots' /\ FileJobs' /\ BufferAccounting' /\ OpenSlots(slots)'
        /\ slots' \in Seq(Slot) /\ current' \in DOMAIN slots'
        /\ buffered' \in Nat /\ total' \in Nat
        /\ state' \in {"ONLINE", "SHUTDOWN"} /\ ended' \in {"no", "orderly", "cut"}
    <3>1. 0 < length'[Item]
        BY <2>2
    <3> QED
        BY <2>2, <2>3, <3>1, CountQueued
  <2>5. accepted' \in Seq(Byte)
    <3>1. BytesOf(Item, 1, len) \in Seq(Byte)
        BY <2>2, BytesOfDef
    <3>2. accepted \in Seq(Byte)
        BY <1>1 DEF TypeOK, Byte
    <3> QED
        BY <2>1, <3>1, <3>2, MoreBytes
  <2>6. TypeOK' /\ Phases'
    BY <1>1, <2>2, <2>3, <2>4, <2>5 DEF TypeOK, Phases, Byte
  <2> QED
    BY <2>4, <2>6 DEF CountInv
<1>4. CASE WriteStarts
  <2>1. PICK len \in Lengths :
            Given(len) /\ accepted' = accepted \o BytesOf(Item, 1, len)
    BY <1>4 DEF WriteStarts
  <2>2. /\ Item \in Items /\ Item \in DOMAIN length'
        /\ length' \in Seq(Lengths \union {1}) /\ len \in Nat \ {0}
    BY <1>1, <2>1, GivenItem
  <2>3. /\ state = "ONLINE" /\ writing' = [item |-> Item, t_bytes |-> 0] /\ pc' = "write"
        /\ UNCHANGED listVars
        /\ UNCHANGED <<state, blocked, njobs, sent, asked, ended, released>>
    BY <1>4 DEF WriteStarts, listVars
  <2>4. accepted' \in Seq(Byte)
    <3>1. BytesOf(Item, 1, len) \in Seq(Byte)
        BY <2>2, BytesOfDef
    <3>2. accepted \in Seq(Byte)
        BY <1>1 DEF TypeOK, Byte
    <3> QED
        BY <2>1, <3>1, <3>2, MoreBytes
  <2>5. TypeOK' /\ Phases'
    BY <1>1, <2>2, <2>3, <2>4 DEF TypeOK, Phases, Byte, listVars
  <2>6. SpareSlots' /\ FileJobs' /\ BufferAccounting' /\ OpenSlots(slots)'
    BY <2>3, ListsUnchanged
  <2> QED
    BY <2>5, <2>6 DEF CountInv
<1>5. CASE WriteSome
  <2> DEFINE i == writing.item
             t == writing.t_bytes
  <2>1. pc = "write" /\ i \in DOMAIN length /\ i \in Items /\ t \in Nat
    BY <1>1, <1>5 DEF WriteSome, TypeOK, Phases
  <2>2. PICK n \in 1 .. length[i] :
          /\ sent' = sent \o BytesOf(i, t + 1, t + n)
          /\ writing' = [writing EXCEPT !.t_bytes = @ + n]
    BY <1>5 DEF WriteSome
  <2>3. n \in Nat \ {0}
    <3>1. length[i] \in Lengths \union {1}
        BY <1>1, <2>1 DEF TypeOK
    <3>2. \A x \in Lengths \union {1} : x \in Nat
        BY SendPathAssumption
    <3> QED
        BY <2>2, <3>1, <3>2
  <2>4. sent' \in Seq(Byte)
    <3>1. t + 1 \in Nat \ {0} /\ t + n \in Nat /\ t + 1 <= (t + n) + 1
        BY <2>1, <2>3
    <3>2. BytesOf(i, t + 1, t + n) \in Seq(Byte)
        BY <2>1, <3>1, BytesOfDef
    <3>3. sent \in Seq(Byte)
        BY <1>1 DEF TypeOK, Byte
    <3> QED
        BY <2>2, <3>2, <3>3, MoreBytes
  <2>5. /\ writing' \in [item : Items \union {0}, t_bytes : Nat]
        /\ writing'.item = i
    <3>1. writing \in [item : Items \union {0}, t_bytes : Nat] /\ t + n \in Nat
        BY <1>1, <2>1, <2>3 DEF TypeOK
    <3>2. writing' = [writing EXCEPT !.t_bytes = t + n]
        BY <2>2
    <3> HIDE DEF t
    <3> QED
        BY <3>1, <3>2
  <2>6. /\ UNCHANGED listVars
        /\ UNCHANGED <<pc, state, blocked, njobs, length, accepted, asked, ended, released>>
    BY <1>5 DEF WriteSome, listVars
  <2>7. TypeOK' /\ Phases'
    BY <1>1, <2>4, <2>5, <2>6 DEF TypeOK, Phases, Byte, listVars
  <2>8. SpareSlots' /\ FileJobs' /\ BufferAccounting' /\ OpenSlots(slots)'
    BY <2>6, ListsUnchanged
  <2> QED
    BY <2>7, <2>8 DEF CountInv
<1>6. CASE WriteBlocks
  <2> DEFINE i == writing.item
             t == writing.t_bytes
  <2>1. /\ pc = "write" /\ i \in DOMAIN length /\ i \in Items /\ t \in Nat
        /\ state = "ONLINE" /\ t < length[i] /\ blocked' = TRUE /\ length' = length
        /\ ape_socket_queue_data(i, t) /\ pc' = "user"
        /\ UNCHANGED <<writing, njobs, accepted, sent, asked, released>>
    BY <1>1, <1>6 DEF WriteBlocks, TypeOK, Phases
  <2>2. /\ SpareSlots' /\ FileJobs' /\ BufferAccounting' /\ OpenSlots(slots)'
        /\ slots' \in Seq(Slot) /\ current' \in DOMAIN slots'
        /\ buffered' \in Nat /\ total' \in Nat
        /\ state' \in {"ONLINE", "SHUTDOWN"} /\ ended' \in {"no", "orderly", "cut"}
    <3>1. /\ length' \in Seq(Lengths \union {1}) /\ i \in DOMAIN length' /\ t < length'[i]
          /\ state # "FREED"
        BY <1>1, <2>1 DEF TypeOK
    <3> QED
        BY <2>1, <3>1, CountQueued
  <2>3. TypeOK' /\ Phases'
    BY <1>1, <2>1, <2>2 DEF TypeOK, Phases
  <2> QED
    BY <2>2, <2>3 DEF CountInv
<1>7. CASE WriteEnds
  <2>1. /\ pc = "write" /\ pc' = "user" /\ writing.item \in Items /\ state # "FREED"
        /\ released' = [released EXCEPT ![writing.item] = @ + 1]
        /\ UNCHANGED listVars
        /\ UNCHANGED <<blocked, writing, njobs, length, accepted, sent, asked>>
    BY <1>1, <1>7 DEF WriteEnds, TypeOK, Phases, listVars
  <2>2. state' \in {"ONLINE", "SHUTDOWN"} /\ ended' \in {"no", "orderly", "cut"}
    BY <1>1, <1>7, <2>1 DEF WriteEnds, TypeOK, ape_shutdown
  <2>3. released' \in [Items -> Nat]
    BY <1>1, <2>1 DEF TypeOK
  <2>4. TypeOK' /\ Phases'
    BY <1>1, <2>1, <2>2, <2>3 DEF TypeOK, Phases, listVars
  <2>5. SpareSlots' /\ FileJobs' /\ BufferAccounting' /\ OpenSlots(slots)'
    BY <2>1, ListsUnchanged
  <2> QED
    BY <2>4, <2>5 DEF CountInv

<1>8. CASE APE_sendfile
  <2>1. /\ Given(1) /\ 1 \in Lengths \union {1} /\ state = "ONLINE"
        /\ accepted' = accepted \o BytesOf(Item, 1, 1)
        /\ released' = [released EXCEPT ![Item] = 1]
        /\ UNCHANGED <<pc, state, buffered, total, writing, njobs, asked, ended>>
    BY <1>8 DEF APE_sendfile
  <2>2. /\ Item \in Items /\ length' \in Seq(Lengths \union {1}) /\ pc \in {"user", "drain"}
    BY <1>1, <2>1, GivenItem
  <2>3. released' \in [Items -> Nat]
    BY <1>1, <2>1, <2>2 DEF TypeOK
  <2>4. /\ BytesOf(Item, 1, 1) \in Seq(Byte) /\ accepted' \in Seq(Byte) /\ sent' \in Seq(Byte)
    <3>1. BytesOf(Item, 1, 1) \in Seq(Byte)
        BY <2>2, BytesOfDef
    <3>2. accepted \in Seq(Byte) /\ sent \in Seq(Byte)
        BY <1>1 DEF TypeOK, Byte
    <3>3. sent' = sent \o BytesOf(Item, 1, 1) \/ sent' = sent
        BY <1>8 DEF APE_sendfile
    <3> QED
        BY <2>1, <3>1, <3>2, <3>3, MoreBytes
  <2>5. CASE UNCHANGED <<blocked, slots, current>>
    <3>1. UNCHANGED listVars
        BY <2>1, <2>5 DEF listVars
    <3>2. SpareSlots' /\ FileJobs' /\ BufferAccounting' /\ OpenSlots(slots)'
        BY <2>1, <3>1, ListsUnchanged
    <3>3. TypeOK' /\ Phases'
        BY <1>1, <2>1, <2>2, <2>3, <2>4, <2>5 DEF TypeOK, Phases, Byte
    <3> QED
        BY <3>2, <3>3 DEF CountInv
  <2>6. CASE /\ blocked' = TRUE
             /\ slots' = [ape_socket_job_get_slot("SENDFILE") EXCEPT
                             ![SlotIndex("SENDFILE")].ptr = "file",
                             ![SlotIndex("SENDFILE")].file = Item]
             /\ current' = SlotIndex("SENDFILE")
    <3> DEFINE ss == ape_socket_job_get_slot("SENDFILE")
               at == SlotIndex("SENDFILE")
               slot == [ss[at] EXCEPT !.ptr = "file", !.file = Item]
    <3>1. slots \in Seq(Slot) /\ current \in 1 .. Len(slots) /\ "SENDFILE" \in JobTypes
        BY <1>1 DEF TypeOK, JobTypes
    <3>2. /\ at \in 1 .. Len(ss) /\ ss \in Seq(Slot) /\ Len(slots) <= Len(ss)
          /\ SlotAt(at) \in Slot
          /\ ss[at] = [SlotAt(at) EXCEPT !.flags = @ \union {"ACTIVE", "SENDFILE"}]
          /\ \A i \in 1 .. Len(ss) : i # at => ss[i] = SlotAt(i)
        BY <3>1, GetSlot
    <3>3. slots' = [ss EXCEPT ![at] = slot] /\ current' = at
        BY <2>6
    <3> HIDE DEF ss, at
    <3>4. ss[at] \in Slot /\ ss[at].list = SlotAt(at).list
        BY <3>2 DEF Slot
    <3>5. /\ slot \in Slot /\ slot.list = SlotAt(at).list /\ slot.ptr = "file"
          /\ slot.file # 0
        <4>1. Item # 0
            BY <2>2 DEF Items
        <4> QED
            BY <2>2, <3>4, <4>1 DEF Slot
    <3> HIDE DEF slot
    <3>6. /\ slots' \in Seq(Slot) /\ Len(slots') = Len(ss) /\ slots'[at] = slot
          /\ \A i \in 1 .. Len(ss) : i # at => slots'[i] = SlotAt(i)
        BY <3>2, <3>3, <3>5
    <3>7. SpareSlots' /\ FileJobs' /\ BufferAccounting' /\ OpenSlots(slots)'
      <4>1. \A i \in 1 .. Len(slots') :
               /\ slots'[i].list = SlotAt(i).list
               /\ slots'[i].ptr = "list" => slots'[i] = SlotAt(i)
               /\ slots'[i].file # 0 \/ slots'[i] = SlotAt(i)
        BY <3>5, <3>6
      <4>2. buffered' = buffered /\ total' = total /\ Len(slots) <= Len(slots')
        BY <2>1, <3>2, <3>6
      <4> QED
        BY <2>1, <3>6, <4>1, <4>2, CountGot
    <3>8. current' \in DOMAIN slots'
        BY <3>2, <3>3, <3>6
    <3>9. TypeOK' /\ Phases'
        BY <1>1, <2>1, <2>2, <2>3, <2>4, <2>6, <3>6, <3>8 DEF TypeOK, Phases, Byte
    <3> QED
        BY <3>7, <3>9 DEF CountInv
  <2> QED
    BY <1>8, <2>5, <2>6 DEF APE_sendfile
<1>9. CASE APE_socket_shutdown
  <2>1. /\ pc \in {"user", "drain"} /\ state = "ONLINE"
        /\ UNCHANGED <<pc, blocked, buffered, total, writing, njobs, length,
                       accepted, sent, released>>
    BY <1>9 DEF APE_socket_shutdown, InUserCode
  <2>2. CASE ape_shutdown("orderly") /\ UNCHANGED <<slots, current, asked>>
    <3>1. state' \in {"ONLINE", "SHUTDOWN"} /\ ended' \in {"no", "orderly", "cut"}
        BY <1>1, <2>1, <2>2 DEF ape_shutdown
    <3>2. UNCHANGED listVars
        BY <2>1, <2>2 DEF listVars
    <3>3. SpareSlots' /\ FileJobs' /\ BufferAccounting' /\ OpenSlots(slots)'
        BY <2>1, <3>2, ListsUnchanged
    <3>4. TypeOK' /\ Phases'
        BY <1>1, <2>1, <2>2, <3>1 DEF TypeOK, Phases
    <3> QED
        BY <3>3, <3>4 DEF CountInv
  <2>3. CASE /\ slots' = ape_socket_job_get_slot("SHUTDOWN")
             /\ current' = SlotIndex("SHUTDOWN")
             /\ asked' = IF asked = -1 THEN Len(accepted) ELSE asked
             /\ UNCHANGED <<state, ended>>
    <3> DEFINE at == SlotIndex("SHUTDOWN")
    <3>1. slots \in Seq(Slot) /\ current \in 1 .. Len(slots) /\ "SHUTDOWN" \in JobTypes
        BY <1>1 DEF TypeOK, JobTypes
    <3>2. /\ at \in 1 .. Len(slots') /\ slots' \in Seq(Slot) /\ Len(slots) <= Len(slots')
          /\ SlotAt(at) \in Slot
          /\ slots'[at] = [SlotAt(at) EXCEPT !.flags = @ \union {"ACTIVE", "SHUTDOWN"}]
          /\ \A i \in 1 .. Len(slots') : i # at => slots'[i] = SlotAt(i)
        BY <2>3, <3>1, GetSlot
    <3> HIDE DEF at
    <3>3. /\ slots'[at].list = SlotAt(at).list /\ slots'[at].ptr = SlotAt(at).ptr
          /\ slots'[at].spare = SlotAt(at).spare /\ "SHUTDOWN" \in slots'[at].flags
        BY <3>2 DEF Slot
    <3>4. SpareSlots' /\ FileJobs' /\ BufferAccounting' /\ OpenSlots(slots)'
      <4>1. \A i \in 1 .. Len(slots') :
               /\ slots'[i].list = SlotAt(i).list
               /\ slots'[i].ptr = "list" => /\ SlotAt(i).ptr = "list"
                                            /\ slots'[i].spare = SlotAt(i).spare
               /\ "SHUTDOWN" \in slots'[i].flags \/ slots'[i] = SlotAt(i)
        BY <3>2, <3>3
      <4> QED
        BY <2>1, <3>2, <4>1, CountGot
    <3>5. asked' \in Nat \union {-1}
        BY <1>1, <2>3 DEF TypeOK
    <3>6. TypeOK' /\ Phases'
        BY <1>1, <2>1, <2>3, <3>2, <3>5 DEF TypeOK, Phases, at
    <3> QED
        BY <3>4, <3>6 DEF CountInv
  <2> QED
    BY <1>9, <2>2, <2>3 DEF APE_socket_shutdown
<1>10. CASE APE_socket_shutdown_now \/ PeerCloses
  <2>1. /\ pc \in {"user", "drain"} /\ state = "ONLINE" /\ ape_shutdown("cut")
        /\ UNCHANGED listVars
        /\ UNCHANGED <<pc, blocked, slots, current, buffered, total, writing,
                       njobs, length, accepted, sent, asked, released>>
    BY <1>10 DEF APE_socket_shutdown_now, PeerCloses, InUserCode, listVars
  <2>2. state' \in {"ONLINE", "SHUTDOWN"} /\ ended' \in {"no", "orderly", "cut"}
    BY <1>1, <2>1 DEF ape_shutdown
  <2>3. TypeOK' /\ Phases'
    BY <1>1, <2>1, <2>2 DEF TypeOK, Phases
  <2>4. SpareSlots' /\ FileJobs' /\ BufferAccounting' /\ OpenSlots(slots)'
    BY <2>1, ListsUnchanged
  <2> QED
    BY <2>3, <2>4 DEF CountInv
<1>11. CASE DrainReturns \/ JobBlocks \/ JobsEnd
  <2>1. /\ pc' \in {"user", "drain"} /\ state # "FREED" /\ blocked' \in BOOLEAN
        /\ UNCHANGED listVars
        /\ UNCHANGED <<state, slots, current, buffered, total, writing, njobs, length,
                       accepted, sent, asked, ended, released>>
    BY <1>1, <1>11 DEF DrainReturns, JobBlocks, JobsEnd, InJob, Phases, TypeOK, listVars
  <2>2. TypeOK' /\ Phases'
    BY <1>1, <2>1 DEF TypeOK, Phases
  <2>3. SpareSlots' /\ FileJobs' /\ BufferAccounting' /\ OpenSlots(slots)'
    BY <2>1, ListsUnchanged
  <2> QED
    BY <2>2, <2>3 DEF CountInv
<1>12. CASE WriteEvent
  <2>1. /\ pc' \in {"user", "jobs"} /\ state # "FREED" /\ blocked' \in BOOLEAN
        /\ pc' = "jobs" => state = "ONLINE"
        /\ njobs' \in Nat
        /\ UNCHANGED listVars
        /\ UNCHANGED <<state, slots, current, buffered, total, writing, length,
                       accepted, sent, asked, ended, released>>
    <3>1. njobs \in Nat /\ pc = "user" /\ blocked' = FALSE
        BY <1>1, <1>12 DEF WriteEvent, TypeOK
    <3>2. \/ state = "ONLINE" /\ pc' = "jobs" /\ njobs' = 0
          \/ pc' = pc /\ njobs' = njobs
        BY <1>12 DEF WriteEvent
    <3>3. /\ state # "FREED"
          /\ UNCHANGED <<state, slots, current, buffered, total, writing, length,
                         accepted, sent, asked, ended, released>>
        BY <1>12 DEF WriteEvent
    <3>4. blocked' \in BOOLEAN
        BY <3>1, Zenon
    <3>5. pc' \in {"user", "jobs"} /\ (pc' = "jobs" => state = "ONLINE") /\ njobs' \in Nat
        BY <3>1, <3>2
    <3> QED
        BY <3>3, <3>4, <3>5, Zenon DEF listVars
  <2>2. TypeOK' /\ Phases'
    BY <1>1, <2>1 DEF TypeOK, Phases
  <2>3. SpareSlots' /\ FileJobs' /\ BufferAccounting' /\ OpenSlots(slots)'
    BY <2>1, ListsUnchanged
  <2> QED
    BY <2>2, <2>3 DEF CountInv
<1>13. CASE JobFails \/ JobShutdown
  <2>1. /\ pc = "jobs" /\ state = "ONLINE" /\ pc' = "user"
        /\ ape_shutdown("cut") \/ ape_shutdown("orderly")
        /\ UNCHANGED listVars
        /\ UNCHANGED <<blocked, slots, current, buffered, total, writing, njobs,
                       length, accepted, sent, asked, released>>
    BY <1>1, <1>13 DEF JobFails, JobShutdown, InJob, Phases, listVars
  <2>2. state' \in {"ONLINE", "SHUTDOWN"} /\ ended' \in {"no", "orderly", "cut"}
    BY <1>1, <2>1 DEF ape_shutdown
  <2>3. TypeOK' /\ Phases'
    BY <1>1, <2>1, <2>2 DEF TypeOK, Phases
  <2>4. SpareSlots' /\ FileJobs' /\ BufferAccounting' /\ OpenSlots(slots)'
    BY <2>1, ListsUnchanged
  <2> QED
    BY <2>3, <2>4 DEF CountInv
<1>14. CASE JobWritev
  <2>1. /\ pc = "jobs" /\ state = "ONLINE"
        /\ UNCHANGED <<pc, state, blocked, writing, length, accepted, asked, ended>>
    BY <1>1, <1>14 DEF JobWritev, InJob, Phases
  <2>2. PICK n \in 1 .. Offered(Job.list) :
          LET done == 1 .. FirstLeft(Job.list, n) - 1
              job  == [Job EXCEPT !.list = After(Job.list, n),
                                  !.spare = @ + Cardinality(done)]
          IN  /\ sent' = sent \o SubSeq(Wire(Job.list), 1, n)
              /\ buffered' = buffered - n
              /\ total' = total - n
              /\ released' = [i \in Items |-> released[i]
                                + Cardinality({k \in done : Job.list[k].item = i})]
              /\ IF job.list = <<>>
                 THEN JobDone(job)
                 ELSE /\ slots' = [slots EXCEPT ![1] = job]
                      /\ UNCHANGED <<current, njobs>>
    BY <1>14, Zenon DEF JobWritev
  <2> DEFINE done == 1 .. FirstLeft(Job.list, n) - 1
             job  == [Job EXCEPT !.list = After(Job.list, n),
                                 !.spare = @ + Cardinality(done)]
  <2>3. /\ sent' = sent \o SubSeq(Wire(Job.list), 1, n)
        /\ buffered' = buffered - n /\ total' = total - n
        /\ released' = [i \in Items |-> released[i]
                          + Cardinality({k \in done : Job.list[k].item = i})]
        /\ \/ JobDone(job)
           \/ slots' = [slots EXCEPT ![1] = job] /\ UNCHANGED <<current, njobs>>
    BY <2>2
  <2>4. /\ Job = slots[1] /\ Job \in Slot /\ Open(Job.list)
        /\ n \in 1 .. LeftIn(Job.list) /\ IsFiniteSet(done)
        /\ job \in Slot /\ job.ptr = Job.ptr /\ job.spare >= Job.spare
        /\ job.flags = Job.flags
        /\ Open(job.list) /\ LeftIn(job.list) = LeftIn(Job.list) - n
        /\ n <= SlotsLeft(slots)
    BY <1>1, WritevJob
  <2> HIDE DEF done, job
  <2>5. /\ slots \in Seq(Slot) /\ 1 \in 1 .. Len(slots) /\ current \in 1 .. Len(slots)
        /\ buffered \in Nat /\ total \in Nat
        /\ buffered = SlotsLeft(slots) /\ total = SlotsLeft(slots)
    BY <1>1, <2>1 DEF TypeOK, BufferAccounting
  <2>6. LeftIn(slots[1].list) \in Nat /\ SlotsLeft(slots) \in Nat
    BY <1>1, <2>5, HeadLeft
  <2>7. job.ptr = "list" => job.spare > 0
    <3>1. Job.ptr = "list" => Job.spare > 0
        BY <1>1, <2>4, <2>5 DEF SpareSlots
    <3>2. Job.spare \in Nat /\ job.spare \in Nat
        BY <2>4 DEF Slot
    <3> QED
        BY <2>4, <3>1, <3>2
  <2>8. /\ SpareSlots' /\ FileJobs' /\ OpenSlots(slots)'
        /\ slots' \in Seq(Slot) /\ current' \in DOMAIN slots' /\ njobs' \in Nat
        /\ SlotsLeft(slots') = SlotsLeft(slots) + LeftIn(job.list) - LeftIn(slots[1].list)
    <3>1. CASE JobDone(job)
        BY <2>4, <2>7, <3>1, CountDone
    <3>2. CASE slots' = [slots EXCEPT ![1] = job] /\ UNCHANGED <<current, njobs>>
      <4>1. /\ slots' \in Seq(Slot) /\ Len(slots') = Len(slots) /\ slots'[1] = job
            /\ \A j \in 1 .. Len(slots) : j # 1 => slots'[j] = slots[j]
        BY <2>4, <2>5, <3>2
      <4>2. /\ OpenSlots(slots')
            /\ SlotsLeft(slots') = SlotsLeft(slots) + LeftIn(slots'[1].list)
                                     - LeftIn(slots[1].list)
        <5>1. /\ Open(slots'[1].list)
              /\ \A j \in 1 .. Len(slots) : j # 1 => slots'[j].list = slots[j].list
            BY <2>4, <4>1
        <5> QED
            BY <1>1, <2>5, <4>1, <5>1, SlotsChanged
      <4>3. SpareSlots' /\ FileJobs'
        <5>1. SpareSlots'
            BY <1>1, <2>7, <4>1 DEF SpareSlots
        <5>2. job.flags = slots[1].flags /\ Type(slots[1]) = {"WRITEV"}
            BY <1>14, <2>4 DEF JobWritev, InJob
        <5>3. Type(slots'[1]) # {"SENDFILE"}
            BY <4>1, <5>2 DEF Type
        <5>4. FileJobs'
            BY <1>1, <4>1, <5>3 DEF FileJobs
        <5> QED
            BY <5>1, <5>4
      <4>4. current' \in DOMAIN slots' /\ njobs' \in Nat
        BY <1>1, <2>5, <3>2, <4>1 DEF TypeOK
      <4> QED
        BY <4>1, <4>2, <4>3, <4>4
    <3> QED
        BY <2>3, <3>1, <3>2
  <2>9. /\ SlotsLeft(slots') = SlotsLeft(slots) - n
        /\ buffered' \in Nat /\ total' \in Nat
    <3>1. PICK l \in Nat : l = LeftIn(slots[1].list)
        BY <2>6
    <3>2. PICK z \in Nat : z = SlotsLeft(slots)
        BY <2>6
    <3>3. LeftIn(job.list) = l - n /\ n \in Nat /\ n <= z
        BY <2>4, <3>1, <3>2
    <3>4. SlotsLeft(slots') = z + (l - n) - l
        BY <2>8, <3>1, <3>2, <3>3
    <3>5. SlotsLeft(slots') = z - n
        BY <3>3, <3>4
    <3>6. buffered' = z - n /\ total' = z - n
        BY <2>3, <2>5, <3>2
    <3> QED
        BY <3>2, <3>3, <3>5, <3>6
  <2>10. BufferAccounting'
    BY <2>3, <2>5, <2>9 DEF BufferAccounting
  <2>11. sent' \in Seq(Byte)
    <3>1. Wire(Job.list) \in Seq(Byte) /\ Len(Wire(Job.list)) = LeftIn(Job.list)
        BY <2>4, WireDef DEF Byte, Slot
    <3>2. SubSeq(Wire(Job.list), 1, n) \in Seq(Byte)
        BY <2>4, <3>1
    <3>3. sent \in Seq(Byte)
        BY <1>1 DEF TypeOK, Byte
    <3> QED
        BY <2>3, <3>2, <3>3, MoreBytes
  <2>12. released' \in [Items -> Nat]
    <3>1. ASSUME NEW i \in Items
          PROVE  released[i] + Cardinality({k \in done : Job.list[k].item = i}) \in Nat
      <4>1. IsFiniteSet({k \in done : Job.list[k].item = i})
        BY <2>4, FS_Subset
      <4>2. Cardinality({k \in done : Job.list[k].item = i}) \in Nat
        BY <4>1, FS_CardinalityType
      <4>3. released[i] \in Nat
        BY <1>1 DEF TypeOK
      <4> QED
        BY <4>2, <4>3
    <3> QED
        BY <2>3, <3>1
  <2>13. TypeOK' /\ Phases'
    BY <1>1, <2>1, <2>8, <2>9, <2>11, <2>12 DEF TypeOK, Phases, Byte
  <2> QED
    BY <2>8, <2>10, <2>13 DEF CountInv
<1>15. CASE JobSendfile \/ JobUnknown
  <2>1. /\ pc = "jobs" /\ state = "ONLINE" /\ Job = slots[1]
        /\ UNCHANGED <<pc, state, blocked, buffered, total, writing, length,
                       accepted, asked, ended, released>>
    BY <1>1, <1>15 DEF JobSendfile, JobUnknown, InJob, Phases, TypeOK, Job
  <2>2. /\ slots \in Seq(Slot) /\ 1 \in 1 .. Len(slots) /\ slots[1] \in Slot
        /\ sent \in Seq(Byte)
    BY <1>1 DEF TypeOK, Byte
  <2>3. PICK job \in Slot :
           /\ JobDone(job) /\ job.list = slots[1].list
           /\ job.ptr = "list" => job = slots[1]
    <3>1. CASE JobSendfile
      <4> DEFINE file == [slots[1] EXCEPT !.ptr = "null", !.file = 0]
      <4>1. file \in Slot /\ file.list = slots[1].list /\ file.ptr = "null"
        BY <2>2 DEF Slot
      <4>2. JobDone(file)
        BY <2>1, <3>1 DEF JobSendfile
      <4> HIDE DEF file
      <4> QED
        BY <4>1, <4>2
    <3>2. CASE JobUnknown
        BY <2>1, <2>2, <3>2 DEF JobUnknown
    <3> QED
        BY <1>15, <3>1, <3>2
  <2>4. /\ SpareSlots' /\ FileJobs' /\ OpenSlots(slots)'
        /\ slots' \in Seq(Slot) /\ current' \in DOMAIN slots' /\ njobs' \in Nat
        /\ SlotsLeft(slots') = SlotsLeft(slots) + LeftIn(job.list) - LeftIn(slots[1].list)
    <3>1. Open(job.list) /\ (job.ptr = "list" => job.spare > 0)
        BY <1>1, <2>2, <2>3 DEF OpenSlots, SpareSlots
    <3> QED
        BY <2>3, <3>1, CountDone
  <2>5. BufferAccounting'
    <3>1. LeftIn(slots[1].list) \in Nat /\ SlotsLeft(slots) \in Nat
        BY <1>1, <2>2, HeadLeft
    <3>2. SlotsLeft(slots') = SlotsLeft(slots)
        BY <2>3, <2>4, <3>1
    <3> QED
        BY <1>1, <2>1, <3>2 DEF BufferAccounting
  <2>6. sent' \in Seq(Byte)
    <3>1. CASE JobSendfile
      <4>1. sent' = sent \o BytesOf(Job.file, 1, 1)
        BY <3>1 DEF JobSendfile
      <4>2. Job.file \in Items
        <5>1. Job.file # 0
            <6>1. Active(slots[1]) /\ Type(slots[1]) = {"SENDFILE"}
                BY <2>1, <3>1 DEF JobSendfile, InJob
            <6> QED
                BY <1>1, <2>1, <2>2, <6>1 DEF FileJobs
        <5> QED
            BY <2>1, <2>2, <5>1 DEF Slot
      <4>3. BytesOf(Job.file, 1, 1) \in Seq(Byte)
        BY <4>2, BytesOfDef
      <4> QED
        BY <2>2, <4>1, <4>3, MoreBytes
    <3>2. CASE JobUnknown
        BY <2>2, <3>2 DEF JobUnknown
    <3> QED
        BY <1>15, <3>1, <3>2
  <2>7. TypeOK' /\ Phases'
    BY <1>1, <2>1, <2>4, <2>6 DEF TypeOK, Phases, Byte
  <2> QED
    BY <2>4, <2>5, <2>7 DEF CountInv
<1>16. CASE ape_socket_free
  <2> DEFINE f == SlotLefts(slots)
             g == [i \in DOMAIN slots |->
                      IF i \in Cleaned THEN LeftIn(slots[i].list) ELSE 0]
  <2>1. /\ pc = "user" /\ state = "SHUTDOWN" /\ state' = "FREED"
        /\ released' = [i \in Items |-> released[i] + IF Holds(i) THEN 1 ELSE 0]
        /\ total' = total - SumOf(g)
        /\ slots' = NewPool(JobChunk) /\ current' = 1
        /\ UNCHANGED <<pc, blocked, buffered, writing, njobs, length, accepted,
                       sent, asked, ended>>
    BY <1>16 DEF ape_socket_free
  <2>2. /\ f \in Seq(Nat) /\ Len(f) = Len(slots) /\ Len(slots) \in Nat
        /\ \A i \in 1 .. Len(slots) : f[i] = LeftIn(slots[i].list) /\ f[i] \in Nat
        /\ SumOf(f) = SlotsLeft(slots) /\ SlotsLeft(slots) \in Nat
        /\ total = SlotsLeft(slots)
    BY <1>1, <2>1, SlotLeftsType DEF TypeOK, SlotsLeft, BufferAccounting
  <2>3. /\ g \in Seq(Nat) /\ Len(g) = Len(slots)
        /\ \A i \in 1 .. Len(slots) : g[i] <= f[i]
  <3>1. /\ DOMAIN slots = 1 .. Len(slots)
        BY <1>1 DEF TypeOK
  <3>2. ASSUME NEW i \in 1 .. Len(slots)
        PROVE  /\ (IF i \in Cleaned THEN LeftIn(slots[i].list) ELSE 0) \in Nat
               /\ (IF i \in Cleaned THEN LeftIn(slots[i].list) ELSE 0) <= f[i]
        BY <2>2
  <3> HIDE DEF f
  <3> QED
        BY <2>2, <3>1, <3>2
  <2> HIDE DEF f, g
  <2>4. SumOf(g) <= SumOf(f) /\ SumOf(g) \in Nat
    <3>1. SumOf(g) <= SumOf(f)
        BY <2>2, <2>3, SumsBelow
    <3>2. SumOf(g) \in Nat
        BY <2>3, SumsDef DEF SumOf
    <3> QED
        BY <3>1, <3>2
  <2>5. total' \in Nat
    BY <2>1, <2>2, <2>4
  <2>6. released' \in [Items -> Nat]
    BY <1>1, <2>1 DEF TypeOK
  <2>7. slots' \in Seq(Slot) /\ Len(slots') = JobChunk /\ current' \in DOMAIN slots'
        /\ \A i \in 1 .. JobChunk : slots'[i] = EmptySlot
    BY <2>1, SendPathAssumption, EmptyList DEF NewPool
  <2>8. TypeOK' /\ Phases' /\ BufferAccounting'
    BY <1>1, <2>1, <2>5, <2>6, <2>7 DEF TypeOK, Phases, BufferAccounting
  <2>9. SpareSlots' /\ FileJobs' /\ OpenSlots(slots)'
    BY <2>7, EmptyList DEF SpareSlots, FileJobs, OpenSlots, EmptySlot, Active
  <2> QED
    BY <2>8, <2>9 DEF CountInv
<1> QED
    BY <1>2, <1>3, <1>4, <1>5, <1>6, <1>7, <1>8, <1>9, <1>10, <1>11, <1>12, <1>13,
       <1>14, <1>15, <1>16 DEF Next, User, Writing, Jobs

\* The stuttering step.
LEMMA CountStutter == ASSUME CountInv, UNCHANGED vars PROVE CountInv'
BY DEF CountInv, TypeOK, Phases, SpareSlots, FileJobs, BufferAccounting, OpenSlots, vars

\* It is true of every state, with files or without.
LEMMA CountAlways == Spec => []CountInv
<1>1. Init => CountInv
    BY CountInit
<1>2. CountInv /\ [Next]_vars => CountInv'
    BY CountStep, CountStutter
<1> QED
    BY <1>1, <1>2, PTL DEF Spec

\* The types; among them: the counters of buffered memory never go below 0.
THEOREM TypesCorrect == Spec => []TypeOK
<1>1. CountInv => TypeOK
    BY DEF CountInv
<1> QED
    BY <1>1, CountAlways, PTL

\* There is always a place for the next packet, with files or without.
THEOREM SpareSlotsCorrect == Spec => []SpareSlots
<1>1. CountInv => SpareSlots
    BY DEF CountInv
<1> QED
    BY <1>1, CountAlways, PTL

\* The counters are what the lists hold, with files or without, whatever the
\* kernel takes.
THEOREM BufferAccountingCorrect == Spec => []BufferAccounting
<1>1. CountInv => BufferAccounting
    BY DEF CountInv
<1> QED
    BY <1>1, CountAlways, PTL


-----------------------------------------------------------------------------
(* The list of jobs, without files.                                        *)

\* What JobInv says of the list before a step: n jobs, and where the next
\* one would go.
LEMMA JobFacts ==
    ASSUME CountInv, JobInv
    PROVE  \E n \in 0 .. Len(slots) :
              /\ JobList(n) /\ 1 \in DOMAIN slots /\ current \in Nat \ {0}
              /\ Active(slots[1]) <=> n > 0
              /\ n = 0 => current = 1
              /\ state = "ONLINE" /\ pc # "jobs" /\ n > 0 => current = n
              /\ Type(slots[1]) # {"SHUTDOWN"} /\ n > 0 => current = n
<1>1. PICK n \in 0 .. Len(slots) : JobList(n)
    BY DEF JobInv, JobsListed
<1>2. slots \in Seq(Slot) /\ current \in 1 .. Len(slots) /\ Len(slots) \in Nat
    BY DEF CountInv, TypeOK
<1>3. 1 \in DOMAIN slots /\ current \in Nat \ {0} /\ n \in Nat
    BY <1>2
<1>4. Active(slots[1]) <=> n > 0
    BY <1>1, <1>3 DEF JobList
<1>5. current \in {n, n + 1} /\ (n = 0 => current = 1)
    BY <1>1, <1>3 DEF JobList
<1>6. n > 0 /\ current = n + 1 =>
          Type(slots[1]) = {"SHUTDOWN"} /\ (state = "ONLINE" => pc = "jobs")
    BY <1>1, Zenon DEF JobList
<1> QED
    BY <1>1, <1>3, <1>4, <1>5, <1>6

\* Where a job goes while the socket is ONLINE and do_jobs does not run: data
\* to the last job if that is a write, all else behind the last job.
LEMMA JobSpot ==
    ASSUME CountInv, JobInv, state = "ONLINE", pc # "jobs",
           NEW type \in {"WRITEV", "SHUTDOWN"}, NEW at, at = SlotIndex(type),
           type = "SHUTDOWN" => Busy
    PROVE  \E n \in 0 .. Len(slots) :
              /\ JobList(n) /\ (n > 0 => current = n) /\ (n = 0 => current = 1)
              /\ \/ /\ at = n /\ n > 0 /\ type = "WRITEV"
                    /\ Type(slots[n]) = {"WRITEV"} /\ Active(slots[n])
                 \/ /\ at = n + 1 /\ SlotAt(at).list = <<>>
                    /\ ~Active(SlotAt(at))
                    /\ n > 0 => SlotAt(at).flags = {}
                    /\ n = 0 => Type(SlotAt(at)) \subseteq {"WRITEV"} /\ type = "WRITEV"
                    /\ n > 0 => type = "SHUTDOWN" \/ Type(slots[n]) = {"SHUTDOWN"}
<1>1. PICK n \in 0 .. Len(slots) :
              /\ JobList(n) /\ 1 \in DOMAIN slots /\ current \in Nat \ {0}
              /\ Active(slots[1]) <=> n > 0
              /\ n = 0 => current = 1
              /\ state = "ONLINE" /\ pc # "jobs" /\ n > 0 => current = n
    BY JobFacts
<1>2. /\ n > 0 => current = n
      /\ \A i \in DOMAIN slots : Active(slots[i]) <=> i <= n
      /\ \A i \in 1 .. n : Type(slots[i]) \in {{"WRITEV"}, {"SHUTDOWN"}}
      /\ n = 0 => Type(slots[1]) \subseteq {"WRITEV"}
      /\ current = n \/ n = 0 =>
            \A i \in DOMAIN slots : i > n /\ i > 1 => slots[i].flags = {}
    BY <1>1, Zenon DEF JobList
<1>3. slots \in Seq(Slot) /\ current \in 1 .. Len(slots) /\ Len(slots) \in Nat /\ n \in Nat
    BY <1>1 DEF CountInv, TypeOK
<1>4. \A i \in DOMAIN slots : ~Active(slots[i]) => slots[i].list = <<>>
    BY DEF JobInv, ListsInJobs
<1>5. CASE n = 0
  <2>1. ~Active(slots[1]) /\ current = 1
    BY <1>1, <1>5
  <2>2. at = 1 /\ SlotAt(at) = slots[1]
    BY <1>1, <2>1 DEF SlotIndex, Joins, SlotAt
  <2>3. type = "WRITEV"
    <3>1. ~Busy
        BY <2>1 DEF Busy, JobInv, Blocking
    <3> QED
        BY <3>1
  <2> QED
    BY <1>1, <1>2, <1>4, <1>5, <2>1, <2>2, <2>3
<1>6. CASE n > 0
  <2>1. current = n /\ n \in DOMAIN slots /\ Active(slots[n])
    BY <1>2, <1>3, <1>6
  <2>2. Type(slots[n]) \in {{"WRITEV"}, {"SHUTDOWN"}}
    <3>1. n \in 1 .. n
        BY <1>3, <1>6
    <3> QED
        BY <1>2, <3>1
  <2>3. "WRITEV" \in slots[current].flags <=> Type(slots[n]) = {"WRITEV"}
    BY <2>1, <2>2 DEF Type
  <2>4. CASE type = "WRITEV" /\ Type(slots[n]) = {"WRITEV"}
    <3>1. at = n
        BY <2>1, <2>3, <2>4 DEF SlotIndex, Joins
    <3> QED
        BY <1>1, <1>2, <1>6, <2>1, <2>4, <3>1
  <2>5. CASE ~(type = "WRITEV" /\ Type(slots[n]) = {"WRITEV"})
    <3>1. at = n + 1
        BY <2>1, <2>3, <2>5 DEF SlotIndex, Joins
    <3>2. SlotAt(at).list = <<>> /\ ~Active(SlotAt(at)) /\ SlotAt(at).flags = {}
        <4>1. CASE at \in 1 .. Len(slots)
            <5>1. at \in DOMAIN slots /\ at > n /\ at > 1 /\ SlotAt(at) = slots[at]
                BY <1>3, <1>6, <3>1, <4>1 DEF SlotAt
            <5>2. slots[at].flags = {} /\ ~Active(slots[at])
                BY <1>2, <2>1, <5>1 DEF Active
            <5> QED
                BY <1>4, <5>1, <5>2
        <4>2. CASE at \notin 1 .. Len(slots)
            BY <4>2 DEF SlotAt, EmptySlot, Active
        <4> QED
            BY <4>1, <4>2
    <3>3. type = "SHUTDOWN" \/ Type(slots[n]) = {"SHUTDOWN"}
        BY <2>2, <2>5
    <3> QED
        BY <1>1, <1>2, <1>6, <3>1, <3>2, <3>3
  <2> QED
    BY <2>4, <2>5
<1> QED
    BY <1>3, <1>5, <1>6

\* The list after a job was queued.
LEMMA JobQueued ==
    ASSUME CountInv, JobInv, state = "ONLINE", pc # "jobs",
           NEW type \in {"WRITEV", "SHUTDOWN"}, NEW at, at = SlotIndex(type),
           type = "SHUTDOWN" => Busy,
           slots' \in Seq(Slot), Len(slots) <= Len(slots'), at \in 1 .. Len(slots'),
           SlotAt(at) \in Slot,
           current' = at, slots'[at].flags = SlotAt(at).flags \union {"ACTIVE", type},
           slots'[at].ptr # "file",
           type = "SHUTDOWN" => slots'[at].list = SlotAt(at).list,
           \A i \in 1 .. Len(slots') : i # at => slots'[i] = SlotAt(i)
    PROVE  /\ JobsListed' /\ ListsInJobs' /\ Active(slots'[1])
<1>1. PICK n \in 0 .. Len(slots) :
              /\ JobList(n) /\ (n > 0 => current = n) /\ (n = 0 => current = 1)
              /\ \/ /\ at = n /\ n > 0 /\ type = "WRITEV"
                    /\ Type(slots[n]) = {"WRITEV"} /\ Active(slots[n])
                 \/ /\ at = n + 1 /\ SlotAt(at).list = <<>>
                    /\ ~Active(SlotAt(at))
                    /\ n > 0 => SlotAt(at).flags = {}
                    /\ n = 0 => Type(SlotAt(at)) \subseteq {"WRITEV"} /\ type = "WRITEV"
                    /\ n > 0 => type = "SHUTDOWN" \/ Type(slots[n]) = {"SHUTDOWN"}
    BY JobSpot
<1>2. slots \in Seq(Slot) /\ Len(slots) \in Nat /\ Len(slots') \in Nat /\ n \in Nat
    BY <1>1 DEF CountInv, TypeOK
<1>3. /\ \A i \in DOMAIN slots : Active(slots[i]) <=> i <= n
      /\ \A i \in 1 .. n : Type(slots[i]) \in {{"WRITEV"}, {"SHUTDOWN"}}
      /\ \A i \in 1 .. n - 1 : {"SHUTDOWN"} \in {Type(slots[i]), Type(slots[i + 1])}
      /\ current = n \/ n = 0 =>
            \A i \in DOMAIN slots : i > n /\ i > 1 => slots[i].flags = {}
    BY <1>1, Zenon DEF JobList
<1>4. Active(slots'[at]) /\ Type(slots'[at]) = {type}
  <2>1. Active(slots'[at])
    BY DEF Active
  <2>4. Type(slots'[at]) = Type(SlotAt(at)) \union {type}
    <3>1. type # "ACTIVE"
        OBVIOUS
    <3> QED
        BY <3>1, Zenon DEF Type
  <2>2. CASE at = n /\ type = "WRITEV" /\ Type(slots[n]) = {"WRITEV"}
    <3>1. SlotAt(at) = slots[n]
        BY <1>1, <1>2, <2>2 DEF SlotAt
    <3> QED
        BY <2>1, <2>2, <2>4, <3>1
  <2>3. CASE at = n + 1 /\ (n > 0 => SlotAt(at).flags = {})
             /\ (n = 0 => Type(SlotAt(at)) \subseteq {"WRITEV"} /\ type = "WRITEV")
    <3>1. CASE n > 0
        <4>1. Type(SlotAt(at)) = {}
            BY <2>3, <3>1 DEF Type
        <4> QED
            BY <2>1, <2>4, <4>1
    <3>2. CASE n = 0
        BY <2>1, <2>3, <2>4, <3>2
    <3> QED
        BY SMTT(30), <1>2, <3>1, <3>2
  <2> QED
    BY <1>1, <2>1, <2>2, <2>3
<1>5. \A i \in 1 .. Len(slots') : i # at => SlotAt(i) = slots'[i]
    OBVIOUS
<1>6. /\ \A i \in 1 .. Len(slots) : SlotAt(i) = slots[i]
      /\ \A i \in Len(slots) + 1 .. Len(slots') :
            SlotAt(i).flags = {} /\ SlotAt(i).ptr # "file" /\ SlotAt(i).list = <<>>
    BY <1>2 DEF SlotAt, EmptySlot
<1>7. ListsInJobs'
  <2>1. SUFFICES ASSUME NEW i \in 1 .. Len(slots')
                 PROVE  /\ slots'[i].ptr # "file"
                        /\ slots'[i].list # <<>>
                           => Active(slots'[i]) /\ Type(slots'[i]) = {"WRITEV"}
    BY DEF ListsInJobs, Active, Type
  <2>2. CASE i = at
    <3>1. type = "SHUTDOWN" => slots'[at].list = <<>>
        BY <1>1
    <3> QED
        BY <1>4, <2>2, <3>1
  <2>3. CASE i # at /\ i \in 1 .. Len(slots)
    BY <1>2, <1>6, <2>3 DEF JobInv, ListsInJobs
  <2>4. CASE i # at /\ i \notin 1 .. Len(slots)
    BY <1>2, <1>6, <2>4
  <2> QED
    BY <2>2, <2>3, <2>4
<1> DEFINE m == IF at = n THEN n ELSE n + 1
<1>8. at = m /\ m \in 1 .. Len(slots') /\ (m = n \/ m = n + 1) /\ m \in Nat
    BY <1>1, <1>2
<1>9. \A i \in 1 .. Len(slots') : Active(slots'[i]) <=> i <= m
  <2>1. SUFFICES ASSUME NEW i \in 1 .. Len(slots')
                 PROVE  Active(slots'[i]) <=> i <= m
    OBVIOUS
  <2>2. CASE i = at
    BY <1>4, <1>8, <2>2
  <2>3. CASE i # at /\ i \in 1 .. Len(slots)
    <3>1. slots'[i] = slots[i] /\ (Active(slots[i]) <=> i <= n)
        BY <1>2, <1>3, <1>6, <2>3
    <3> QED
        BY <1>2, <1>8, <2>3, <3>1
  <2>4. CASE i # at /\ i \notin 1 .. Len(slots)
    <3>1. ~Active(slots'[i])
        BY <1>2, <1>6, <2>4 DEF Active
    <3>2. i > n
        BY <1>2, <2>4
    <3> QED
        BY <1>2, <1>8, <2>4, <3>1, <3>2
  <2> QED
    BY <2>2, <2>3, <2>4
<1>10. \A i \in 1 .. m - 1 : i \in 1 .. n /\ i # at /\ slots'[i] = slots[i]
    BY <1>2, <1>6, <1>8
<1>11. \A i \in 1 .. m : Type(slots'[i]) \in {{"WRITEV"}, {"SHUTDOWN"}}
  <2>1. \A i \in 1 .. m : i \in 1 .. m - 1 \/ i = at
    BY <1>8
  <2> QED
    BY <1>3, <1>4, <1>10, <2>1
<1>12. ASSUME NEW i \in 1 .. m - 1
       PROVE  {"SHUTDOWN"} \in {Type(slots'[i]), Type(slots'[i + 1])}
  <2>1. CASE i + 1 \in 1 .. m - 1
    <3>1. i \in 1 .. n - 1 /\ slots'[i] = slots[i] /\ slots'[i + 1] = slots[i + 1]
        BY <1>2, <1>8, <1>10, <2>1
    <3> QED
        BY <1>3, <3>1
  <2>2. CASE i + 1 \notin 1 .. m - 1
    <3>1. i + 1 = at /\ slots'[i] = slots[i]
        BY <1>8, <1>10, <2>2
    <3>2. CASE at = n
        <4>1. i \in 1 .. n - 1 /\ i + 1 = n /\ Type(slots[n]) = {"WRITEV"}
            BY <1>1, <1>2, <3>1, <3>2
        <4>2. {"SHUTDOWN"} \in {Type(slots[i]), Type(slots[i + 1])}
            BY <1>3, <4>1
        <4>3. Type(slots[i]) = {"SHUTDOWN"}
            BY <4>1, <4>2
        <4> QED
            BY <3>1, <4>3
    <3>3. CASE at = n + 1
        <4>1. i = n /\ n > 0
            BY <1>2, <3>1, <3>3
        <4>2. type = "SHUTDOWN" \/ Type(slots[n]) = {"SHUTDOWN"}
            BY <1>1, <1>2, <3>3, <4>1
        <4> QED
            BY <1>4, <3>1, <4>1, <4>2
    <3> QED
        BY <1>1, <3>2, <3>3
  <2> QED
    BY <2>1, <2>2
<1>13. \A i \in 1 .. Len(slots') : i > m /\ i > 1 => slots'[i].flags = {}
  <2>1. SUFFICES ASSUME NEW i \in 1 .. Len(slots'), i > m, i > 1
                 PROVE  slots'[i].flags = {}
    OBVIOUS
  <2>2. i # at /\ i > n
    BY <1>2, <1>8, <2>1
  <2>3. CASE i \in 1 .. Len(slots)
    <3>1. current = n \/ n = 0
        BY <1>1, <1>2
    <3>2. slots'[i] = slots[i] /\ i \in DOMAIN slots
        BY <1>2, <1>6, <2>2, <2>3
    <3> QED
        BY <1>3, <2>1, <2>2, <3>1, <3>2
  <2>4. CASE i \notin 1 .. Len(slots)
    BY <1>2, <1>6, <2>2, <2>4
  <2> QED
    BY <2>3, <2>4
<1>14. JobList(m)'
  <2>1. current' \in {m, m + 1} /\ ~(m > 0 /\ current' = m + 1) /\ m # 0
    BY <1>8
  <2>2. DOMAIN slots' = 1 .. Len(slots')
    OBVIOUS
  <2> HIDE DEF m
  <2> QED
    BY <1>9, <1>11, <1>12, <1>13, <2>1, <2>2 DEF JobList, Active, Type
<1>15. JobsListed'
  <2>1. m \in 0 .. Len(slots')
    BY <1>8
  <2> HIDE DEF m
  <2> QED
    BY <1>14, <2>1 DEF JobsListed
<1>16. Active(slots'[1])
    BY <1>8, <1>9
<1> QED
    BY <1>7, <1>15, <1>16


\* A step that leaves the list alone; do_jobs stops only before a write, or
\* with the socket.
LEMMA JobKept ==
    ASSUME CountInv, JobInv, UNCHANGED <<slots, current>>,
           state' = "ONLINE" => state = "ONLINE",
           \/ state' # "ONLINE" \/ pc' = "jobs"
           \/ pc # "jobs" \/ Type(slots[1]) # {"SHUTDOWN"}
    PROVE  JobsListed' /\ ListsInJobs' /\ (Active(slots[1])' <=> Active(slots[1]))
<1>1. PICK n \in 0 .. Len(slots) :
              /\ JobList(n)
              /\ state = "ONLINE" /\ pc # "jobs" /\ n > 0 => current = n
              /\ Type(slots[1]) # {"SHUTDOWN"} /\ n > 0 => current = n
    BY JobFacts
<1>2. current \in Nat /\ n \in Nat
    BY <1>1 DEF CountInv, TypeOK
<1>3. n > 0 /\ current = n + 1 =>
          Type(slots[1]) = {"SHUTDOWN"} /\ (state' = "ONLINE" => pc' = "jobs")
    BY <1>1, <1>2
<1>4. JobList(n)'
    BY <1>1, <1>3, Zenon DEF JobList, Active, Type
<1>5. JobsListed'
    BY <1>1, <1>4 DEF JobsListed
<1>6. ListsInJobs'
    BY DEF JobInv, ListsInJobs, Active, Type
<1> QED
    BY <1>5, <1>6 DEF Active

\* A write that is done.
LEMMA JobRotated ==
    ASSUME CountInv, JobInv, pc = "jobs", pc' = pc, state' = state,
           Active(slots[1]), Type(slots[1]) = {"WRITEV"},
           NEW job \in Slot, job.flags = slots[1].flags, job.ptr # "file",
           job.list = <<>>, JobDone(job)
    PROVE  JobsListed' /\ ListsInJobs'
<1>1. PICK n \in 0 .. Len(slots) :
              /\ JobList(n) /\ 1 \in DOMAIN slots
              /\ Active(slots[1]) <=> n > 0
              /\ Type(slots[1]) # {"SHUTDOWN"} /\ n > 0 => current = n
    BY JobFacts
<1>2. n > 0 /\ current = n
    BY <1>1
<1>3. slots \in Seq(Slot) /\ Len(slots) \in Nat /\ n \in 1 .. Len(slots)
    BY <1>1, <1>2 DEF CountInv, TypeOK
<1>4. /\ \A i \in DOMAIN slots : Active(slots[i]) <=> i <= n
      /\ \A i \in 1 .. n : Type(slots[i]) \in {{"WRITEV"}, {"SHUTDOWN"}}
      /\ \A i \in 1 .. n - 1 : {"SHUTDOWN"} \in {Type(slots[i]), Type(slots[i + 1])}
      /\ \A i \in DOMAIN slots : i > n /\ i > 1 => slots[i].flags = {}
    BY <1>1, <1>2, Zenon DEF JobList
<1>5. /\ current' = n /\ slots' \in Seq(Slot) /\ Len(slots') = Len(slots)
      /\ slots'[n] = [job EXCEPT !.flags = @ \ {"ACTIVE"}]
      /\ \A i \in 1 .. n - 1 : i + 1 \in 1 .. Len(slots) /\ slots'[i] = slots[i + 1]
      /\ \A i \in n + 1 .. Len(slots) : slots'[i] = slots[i]
    BY <1>2, <1>3, DoneSlots
<1>6. /\ ~Active(slots'[n]) /\ Type(slots'[n]) = {"WRITEV"}
      /\ slots'[n].list = <<>> /\ slots'[n].ptr # "file"
  <2>1. slots'[n].flags = job.flags \ {"ACTIVE"} /\ slots'[n].list = job.list
        /\ slots'[n].ptr = job.ptr
    BY <1>5 DEF Slot
  <2>2. slots'[n].flags = {"WRITEV"}
    BY <2>1 DEF Type
  <2> QED
    BY <2>1, <2>2 DEF Active, Type
<1>7. \A i \in 1 .. Len(slots) :
         i \in 1 .. n - 1 \/ i = n \/ i \in n + 1 .. Len(slots)
    BY <1>3
<1>8. \A i \in 1 .. Len(slots) : Active(slots'[i]) <=> i <= n - 1
  <2>1. SUFFICES ASSUME NEW i \in 1 .. Len(slots)
                 PROVE  Active(slots'[i]) <=> i <= n - 1
    OBVIOUS
  <2>2. CASE i \in 1 .. n - 1
    <3>1. i + 1 \in DOMAIN slots /\ i + 1 <= n /\ i <= n - 1
        BY <1>3, <1>5, <2>2
    <3> QED
        BY <1>4, <1>5, <2>2, <3>1
  <2>3. CASE i = n
    BY <1>3, <1>6, <2>3
  <2>4. CASE i \in n + 1 .. Len(slots)
    <3>1. i \in DOMAIN slots /\ ~(i <= n) /\ ~(i <= n - 1)
        BY <1>3, <2>4
    <3> QED
        BY <1>4, <1>5, <2>4, <3>1
  <2> QED
    BY <1>7, <2>2, <2>3, <2>4
<1>9. \A i \in 1 .. n - 1 : Type(slots'[i]) \in {{"WRITEV"}, {"SHUTDOWN"}}
  <2>1. \A i \in 1 .. n - 1 : i + 1 \in 1 .. n
    BY <1>3
  <2> QED
    BY <1>4, <1>5, <2>1
<1>10. \A i \in 1 .. (n - 1) - 1 :
           {"SHUTDOWN"} \in {Type(slots'[i]), Type(slots'[i + 1])}
  <2>1. \A i \in 1 .. (n - 1) - 1 :
           i \in 1 .. n - 1 /\ i + 1 \in 1 .. n - 1
    BY <1>3
  <2> QED
    BY <1>4, <1>5, <2>1
<1>11. n - 1 > 0 => Type(slots'[1]) = {"SHUTDOWN"}
  <2>1. SUFFICES ASSUME n - 1 > 0 PROVE Type(slots'[1]) = {"SHUTDOWN"}
    OBVIOUS
  <2>2. 1 \in 1 .. n - 1 /\ slots'[1] = slots[1 + 1]
    BY <1>3, <1>5, <2>1
  <2>3. {"SHUTDOWN"} \in {Type(slots[1]), Type(slots[1 + 1])}
    BY <1>4, <2>2
  <2> QED
    BY <2>2, <2>3
<1>12. n - 1 = 0 => \A i \in 1 .. Len(slots) : i > 1 => slots'[i].flags = {}
  <2>1. SUFFICES ASSUME n - 1 = 0, NEW i \in 1 .. Len(slots), i > 1
                 PROVE  slots'[i].flags = {}
    OBVIOUS
  <2>2. i \in n + 1 .. Len(slots) /\ i > n /\ i \in DOMAIN slots
    BY <1>3, <2>1
  <2> QED
    BY <1>4, <1>5, <2>1, <2>2
<1>13. JobList(n - 1)'
  <2>1. current' = (n - 1) + 1 /\ ~(current' = n - 1) /\ (n - 1 = 0 => n = 1)
    BY <1>3, <1>5
  <2>2. DOMAIN slots' = 1 .. Len(slots)
    BY <1>5
  <2>3. n - 1 = 0 => Type(slots'[1]) \subseteq {"WRITEV"}
    BY <1>3, <1>6
  <2>4. n - 1 = 0 => \A i \in DOMAIN slots' : i > n - 1 /\ i > 1 => slots'[i].flags = {}
    BY <1>12, <2>2
  <2> QED
    BY <1>8, <1>9, <1>10, <1>11, <2>1, <2>2, <2>3, <2>4 DEF JobList, Active, Type
<1>14. JobsListed'
  <2>1. n - 1 \in 0 .. Len(slots')
    BY <1>3, <1>5
  <2> QED
    BY <1>13, <2>1 DEF JobsListed
<1>15. ListsInJobs'
  <2>1. SUFFICES ASSUME NEW i \in 1 .. Len(slots)
                 PROVE  /\ slots'[i].ptr # "file"
                        /\ slots'[i].list # <<>>
                           => Active(slots'[i]) /\ Type(slots'[i]) = {"WRITEV"}
    BY <1>5 DEF ListsInJobs, Active, Type
  <2>2. CASE i \in 1 .. n - 1
    BY <1>5, <2>2 DEF JobInv, ListsInJobs
  <2>3. CASE i = n
    BY <1>6, <2>3
  <2>4. CASE i \in n + 1 .. Len(slots)
    BY <1>3, <1>5, <2>4 DEF JobInv, ListsInJobs
  <2> QED
    BY <1>7, <2>2, <2>3, <2>4
<1> QED
    BY <1>14, <1>15

\* A list of free slots.
LEMMA JobsNone ==
    ASSUME slots' \in Seq(Slot), slots' # <<>>, current' = 1,
           \A i \in DOMAIN slots' : slots'[i] = EmptySlot
    PROVE  JobsListed' /\ ListsInJobs' /\ ~Active(slots'[1])
<1>1. 1 \in DOMAIN slots' /\ Len(slots') \in Nat
    OBVIOUS
<1>2. \A i \in DOMAIN slots' :
         /\ ~Active(slots'[i]) /\ slots'[i].flags = {} /\ Type(slots'[i]) = {}
         /\ slots'[i].list = <<>> /\ slots'[i].ptr # "file" /\ ~(i <= 0)
    BY DEF EmptySlot, Active, Type
<1>3. JobList(0)'
  <2>1. 1 .. 0 = {} /\ 1 .. 0 - 1 = {} /\ ~(0 > 0) /\ current' = 0 + 1
    OBVIOUS
  <2> QED
    BY <1>1, <1>2, <2>1 DEF JobList, Active, Type
<1>4. JobsListed'
  <2>1. 0 \in 0 .. Len(slots')
    BY <1>1
  <2> QED
    BY <1>3, <2>1 DEF JobsListed
<1> QED
    BY <1>1, <1>2, <1>4 DEF ListsInJobs, Active, Type


\* A job is for one thing, and not for a file.
LEMMA OneType ==
    ASSUME CountInv, JobInv, Active(slots[1])
    PROVE  Type(slots[1]) # {"SENDFILE"} /\ ~(Cardinality(Type(slots[1])) > 1)
<1>1. PICK n \in 0 .. Len(slots) : JobList(n) /\ (Active(slots[1]) <=> n > 0)
    BY JobFacts
<1>2. 1 \in 1 .. n
    BY <1>1
<1>3. Type(slots[1]) \in {{"WRITEV"}, {"SHUTDOWN"}}
    BY <1>1, <1>2 DEF JobList
<1>4. Cardinality(Type(slots[1])) = 1
    BY <1>3, FS_Singleton
<1>5. Type(slots[1]) # {"SENDFILE"}
    BY <1>3
<1> QED
    BY <1>4, <1>5

\* The jobs, at the start.
LEMMA JobInit == ASSUME Init PROVE JobInv
<1>1. /\ slots \in Seq(Slot) /\ Len(slots) = JobChunk /\ current = 1
      /\ \A i \in DOMAIN slots : slots[i] = EmptySlot
    BY SendPathAssumption, EmptyList DEF Init, NewPool
<1>2. 1 \in DOMAIN slots /\ Len(slots) \in Nat
    BY <1>1, SendPathAssumption
<1>3. \A i \in DOMAIN slots :
         /\ ~Active(slots[i]) /\ slots[i].flags = {} /\ Type(slots[i]) = {}
         /\ slots[i].list = <<>> /\ slots[i].ptr # "file" /\ ~(i <= 0)
    BY <1>1, <1>2 DEF EmptySlot, Active, Type
<1>4. JobList(0)
  <2>1. 1 .. 0 = {} /\ 1 .. 0 - 1 = {} /\ ~(0 > 0) /\ current = 0 + 1
    BY <1>1
  <2> QED
    BY <1>2, <1>3, <2>1 DEF JobList
<1>5. JobsListed
  <2>1. 0 \in 0 .. Len(slots)
    BY <1>2
  <2> QED
    BY <1>4, <2>1 DEF JobsListed
<1>6. ListsInJobs
    BY <1>3 DEF ListsInJobs
<1>7. Blocking
    BY DEF Init, Blocking
<1> QED
    BY <1>5, <1>6, <1>7 DEF JobInv

\* A packet queued.
LEMMA JobPacket ==
    ASSUME CountInv, JobInv, state = "ONLINE", pc # "jobs",
           length' \in Seq(Lengths \union {1}),
           NEW item \in DOMAIN length', item \in Items,
           NEW offset \in Nat, offset < length'[item],
           ape_socket_queue_data(item, offset)
    PROVE  JobsListed' /\ ListsInJobs' /\ Active(slots'[1])
<1> DEFINE at == SlotIndex("WRITEV")
           p  == [item |-> item, len |-> length'[item], offset |-> offset]
<1>1. TypeOK /\ OpenSlots(slots) /\ SpareSlots
    BY DEF CountInv
<1>2. /\ at \in 1 .. Len(slots') /\ current' = at
      /\ slots' \in Seq(Slot) /\ Len(slots) <= Len(slots')
      /\ SlotAt(at) \in Slot
      /\ slots'[at].flags = SlotAt(at).flags \union {"ACTIVE", "WRITEV"}
      /\ slots'[at].ptr = "list"
      /\ \A i \in 1 .. Len(slots') : i # at => slots'[i] = SlotAt(i)
      /\ slots'[at].list = Append(SlotAt(at).list, p)
    BY SMTT(30), <1>1, QueueStep
<1> HIDE DEF at
<1>3. slots'[at].ptr # "file" /\ "WRITEV" \in {"WRITEV", "SHUTDOWN"}
      /\ "WRITEV" # "SHUTDOWN"
    BY <1>2
<1> QED
    BY <1>2, <1>3, JobQueued DEF at

\* No step breaks what is true of the jobs.
LEMMA JobStep == ASSUME CountInv, JobInv, ~Files, Next PROVE JobInv'
<1>1. TypeOK /\ Phases /\ JobsListed /\ ListsInJobs /\ Blocking
    BY DEF CountInv, JobInv
<1>2. CASE WriteRefused
  <2>1. UNCHANGED <<pc, state, blocked, slots, current>> /\ pc # "jobs" /\ pc # "write"
    BY <1>2 DEF WriteRefused, Given, InUserCode
  <2>2. JobsListed' /\ ListsInJobs' /\ (Active(slots[1])' <=> Active(slots[1]))
    BY <2>1, JobKept
  <2> QED
    BY <1>1, <2>1, <2>2 DEF JobInv, Blocking
<1>3. CASE WriteQueued
  <2>1. PICK len \in Lengths : Given(len)
    BY <1>3 DEF WriteQueued
  <2>2. /\ Item \in Items /\ Item \in DOMAIN length' /\ length'[Item] = len
        /\ length' \in Seq(Lengths \union {1}) /\ len \in Nat \ {0}
        /\ pc \in {"user", "drain"}
    BY <1>1, <2>1, GivenItem
  <2>3. state = "ONLINE" /\ ape_socket_queue_data(Item, 0) /\ UNCHANGED <<pc, blocked>>
    BY <1>3 DEF WriteQueued
  <2>4. JobsListed' /\ ListsInJobs' /\ Active(slots'[1])
    <3>1. 0 < length'[Item] /\ pc # "jobs"
        BY <2>2
    <3> QED
        BY <2>2, <2>3, <3>1, JobPacket
  <2>5. Blocking'
    <3>1. pc' # "write" /\ pc' # "jobs"
        BY <2>2, <2>3
    <3> QED
        BY <2>4, <3>1 DEF Blocking, Active
  <2> QED
    BY <2>4, <2>5 DEF JobInv
<1>4. CASE WriteStarts
  <2>1. /\ UNCHANGED <<state, blocked, slots, current>> /\ ~Busy /\ pc' = "write"
        /\ state = "ONLINE" /\ pc # "jobs"
    BY <1>4 DEF WriteStarts, Given, InUserCode
  <2>2. JobsListed' /\ ListsInJobs' /\ (Active(slots[1])' <=> Active(slots[1]))
    BY <2>1, JobKept
  <2> QED
    BY <1>1, <2>1, <2>2 DEF JobInv, Blocking, Busy
<1>5. CASE WriteSome
  <2>1. UNCHANGED <<pc, state, blocked, slots, current>> /\ pc # "jobs"
    BY <1>5 DEF WriteSome
  <2>2. JobsListed' /\ ListsInJobs' /\ (Active(slots[1])' <=> Active(slots[1]))
    BY <2>1, JobKept
  <2> QED
    BY <1>1, <2>1, <2>2 DEF JobInv, Blocking
<1>6. CASE WriteBlocks
  <2> DEFINE i == writing.item
             t == writing.t_bytes
  <2>1. /\ pc = "write" /\ i \in DOMAIN length /\ i \in Items /\ t \in Nat
        /\ state = "ONLINE" /\ t < length[i] /\ length' = length
        /\ ape_socket_queue_data(i, t) /\ pc' = "user"
    BY <1>1, <1>6 DEF WriteBlocks, TypeOK, Phases
  <2>2. JobsListed' /\ ListsInJobs' /\ Active(slots'[1])
    <3>1. /\ length' \in Seq(Lengths \union {1}) /\ i \in DOMAIN length' /\ t < length'[i]
          /\ pc # "jobs"
        BY <1>1, <2>1 DEF TypeOK
    <3> QED
        BY <2>1, <3>1, JobPacket
  <2>3. Blocking'
    BY <2>1, <2>2 DEF Blocking, Active
  <2> QED
    BY <2>2, <2>3 DEF JobInv
<1>7. CASE WriteEnds
  <2>1. /\ UNCHANGED <<blocked, slots, current>> /\ pc = "write" /\ pc' = "user"
        /\ state = "ONLINE"
    BY <1>1, <1>7 DEF WriteEnds, Phases
  <2>2. JobsListed' /\ ListsInJobs' /\ (Active(slots[1])' <=> Active(slots[1]))
    BY <2>1, JobKept
  <2>3. state # "FREED"
    BY <2>1
  <2> QED
    BY <1>1, <2>1, <2>2, <2>3 DEF JobInv, Blocking
<1>8. CASE APE_sendfile
    BY <1>8 DEF APE_sendfile
<1>9. CASE APE_socket_shutdown
  <2>1. /\ pc \in {"user", "drain"} /\ state = "ONLINE" /\ UNCHANGED <<pc, blocked>>
    BY <1>9 DEF APE_socket_shutdown, InUserCode
  <2>2. CASE ape_shutdown("orderly") /\ UNCHANGED <<slots, current, asked>>
    <3>1. JobsListed' /\ ListsInJobs' /\ (Active(slots[1])' <=> Active(slots[1]))
        BY <2>1, <2>2, JobKept
    <3> QED
        BY <1>1, <2>1, <3>1 DEF JobInv, Blocking
  <2>3. CASE /\ Busy
             /\ slots' = ape_socket_job_get_slot("SHUTDOWN")
             /\ current' = SlotIndex("SHUTDOWN")
             /\ UNCHANGED <<state, ended>>
    <3> DEFINE at == SlotIndex("SHUTDOWN")
    <3>1. slots \in Seq(Slot) /\ current \in 1 .. Len(slots) /\ "SHUTDOWN" \in JobTypes
        BY <1>1 DEF TypeOK, JobTypes
    <3>2. /\ at \in 1 .. Len(slots') /\ slots' \in Seq(Slot) /\ Len(slots) <= Len(slots')
          /\ SlotAt(at) \in Slot
          /\ slots'[at] = [SlotAt(at) EXCEPT !.flags = @ \union {"ACTIVE", "SHUTDOWN"}]
          /\ \A i \in 1 .. Len(slots') : i # at => slots'[i] = SlotAt(i)
        BY <2>3, <3>1, GetSlot
    <3>3. current' = at
        BY <2>3
    <3> HIDE DEF at
    <3>4. /\ slots'[at].list = SlotAt(at).list /\ slots'[at].ptr = SlotAt(at).ptr
          /\ slots'[at].flags = SlotAt(at).flags \union {"ACTIVE", "SHUTDOWN"}
        BY <3>2 DEF Slot
    <3>5. slots'[at].ptr # "file"
        BY <1>1, <3>4 DEF SlotAt, EmptySlot, ListsInJobs
    <3>6. pc # "jobs" /\ "SHUTDOWN" \in {"WRITEV", "SHUTDOWN"}
        BY <2>1
    <3>7. JobsListed' /\ ListsInJobs' /\ Active(slots'[1])
        BY <2>1, <2>3, <3>2, <3>3, <3>4, <3>5, <3>6, JobQueued DEF at
    <3>8. pc' # "write" /\ pc' # "jobs"
        BY <2>1
    <3> QED
        BY <3>7, <3>8 DEF JobInv, Blocking, Active
  <2> QED
    BY <1>9, <2>2, <2>3 DEF APE_socket_shutdown
<1>10. CASE APE_socket_shutdown_now \/ PeerCloses
  <2>1. /\ pc \in {"user", "drain"} /\ state = "ONLINE"
        /\ UNCHANGED <<pc, blocked, slots, current>>
    BY <1>10 DEF APE_socket_shutdown_now, PeerCloses, InUserCode
  <2>2. JobsListed' /\ ListsInJobs' /\ (Active(slots[1])' <=> Active(slots[1]))
    BY <2>1, JobKept
  <2> QED
    BY <1>1, <2>1, <2>2 DEF JobInv, Blocking
<1>11. CASE DrainReturns
  <2>1. pc = "drain" /\ pc' = "user" /\ UNCHANGED <<state, blocked, slots, current>>
    BY <1>11 DEF DrainReturns
  <2>2. JobsListed' /\ ListsInJobs' /\ (Active(slots[1])' <=> Active(slots[1]))
    BY <2>1, JobKept
  <2> QED
    BY <1>1, <2>1, <2>2 DEF JobInv, Blocking
<1>12. CASE WriteEvent
  <2>1. /\ pc = "user" /\ pc' \in {"user", "jobs"} /\ ~blocked'
        /\ UNCHANGED <<state, slots, current>>
    BY <1>12 DEF WriteEvent
  <2>2. JobsListed' /\ ListsInJobs' /\ (Active(slots[1])' <=> Active(slots[1]))
    BY <2>1, JobKept
  <2>3. pc' # "write"
    BY <2>1
  <2> QED
    BY <2>1, <2>2, <2>3 DEF JobInv, Blocking
<1>13. CASE JobFails \/ JobShutdown
  <2>1. /\ pc = "jobs" /\ state = "ONLINE" /\ pc' = "user" /\ state' = "SHUTDOWN"
        /\ UNCHANGED <<blocked, slots, current>>
    BY <1>1, <1>13 DEF JobFails, JobShutdown, InJob, Phases, ape_shutdown
  <2>2. JobsListed' /\ ListsInJobs' /\ (Active(slots[1])' <=> Active(slots[1]))
    BY <2>1, JobKept
  <2> QED
    BY <1>1, <2>1, <2>2 DEF JobInv, Blocking
<1>14. CASE JobWritev
  <2>1. /\ pc = "jobs" /\ UNCHANGED <<pc, state, blocked>> /\ Active(Job)
        /\ Type(Job) = {"WRITEV"}
    BY <1>1, <1>14 DEF JobWritev, InJob
  <2>2. PICK n \in 1 .. Offered(Job.list) :
          LET done == 1 .. FirstLeft(Job.list, n) - 1
              job  == [Job EXCEPT !.list = After(Job.list, n),
                                  !.spare = @ + Cardinality(done)]
          IN  IF job.list = <<>> THEN JobDone(job)
              ELSE /\ slots' = [slots EXCEPT ![1] = job]
                   /\ UNCHANGED <<current, njobs>>
    BY <1>14, Zenon DEF JobWritev
  <2> DEFINE done == 1 .. FirstLeft(Job.list, n) - 1
             job  == [Job EXCEPT !.list = After(Job.list, n),
                                 !.spare = @ + Cardinality(done)]
  <2>3. \/ job.list = <<>> /\ JobDone(job)
        \/ slots' = [slots EXCEPT ![1] = job] /\ UNCHANGED <<current, njobs>>
    BY <2>2
  <2>4. /\ Job = slots[1] /\ job \in Slot /\ job.flags = Job.flags /\ job.ptr = Job.ptr
    <3>1. OpenSlots(slots)
        BY DEF CountInv
    <3> QED
        BY <1>1, <3>1, WritevJob
  <2> HIDE DEF done, job
  <2>5. slots \in Seq(Slot) /\ 1 \in DOMAIN slots /\ job.ptr # "file"
    BY <1>1, <2>4 DEF TypeOK, ListsInJobs
  <2>6. JobsListed' /\ ListsInJobs'
    <3>1. CASE job.list = <<>> /\ JobDone(job)
        BY <2>1, <2>4, <2>5, <3>1, JobRotated
    <3>2. CASE slots' = [slots EXCEPT ![1] = job] /\ UNCHANGED <<current, njobs>>
      <4>1. /\ DOMAIN slots' = DOMAIN slots /\ Len(slots') = Len(slots)
            /\ current' = current
            /\ \A i \in DOMAIN slots : slots'[i].flags = slots[i].flags
        BY <2>4, <2>5, <3>2
      <4>2. \A i \in DOMAIN slots : /\ Active(slots'[i]) <=> Active(slots[i])
                                    /\ Type(slots'[i]) = Type(slots[i])
        BY <4>1 DEF Active, Type
      <4>3. PICK m \in 0 .. Len(slots) : JobList(m)
        BY <1>1 DEF JobsListed
      <4>4. JobList(m)'
        <5>1. Len(slots) \in Nat /\ DOMAIN slots = 1 .. Len(slots) /\ m \in Nat
            BY <2>5
        <5>2. /\ \A i \in 1 .. m : i \in DOMAIN slots
              /\ \A i \in 1 .. m - 1 : i \in DOMAIN slots /\ i + 1 \in DOMAIN slots
              /\ 1 \in DOMAIN slots
            BY <2>5, <4>3, <5>1
        <5>3. pc' = pc /\ state' = state
            BY <2>1
        <5>4. /\ \A i \in DOMAIN slots' : Active(slots'[i]) <=> i <= m
              /\ current' \in {m, m + 1}
              /\ \A i \in 1 .. m : Type(slots'[i]) \in {{"WRITEV"}, {"SHUTDOWN"}}
              /\ \A i \in 1 .. m - 1 :
                    {"SHUTDOWN"} \in {Type(slots'[i]), Type(slots'[i + 1])}
            BY <4>1, <4>2, <4>3, <5>2 DEF JobList
        <5>5. /\ m > 0 /\ current' = m + 1 =>
                    Type(slots'[1]) = {"SHUTDOWN"} /\ (state' = "ONLINE" => pc' = "jobs")
              /\ m = 0 => Type(slots'[1]) \subseteq {"WRITEV"}
              /\ current' = m \/ m = 0 =>
                    \A i \in DOMAIN slots' : i > m /\ i > 1 => slots'[i].flags = {}
            BY <4>1, <4>2, <4>3, <5>2, <5>3 DEF JobList
        <5> QED
            BY <5>4, <5>5 DEF JobList, Active, Type
      <4>5. JobsListed'
        BY <4>1, <4>3, <4>4 DEF JobsListed
      <4>6. ListsInJobs'
        <5>1. slots'[1] = job /\ \A i \in DOMAIN slots : i # 1 => slots'[i] = slots[i]
            BY <2>5, <3>2
        <5>2. Active(slots'[1]) /\ Type(slots'[1]) = {"WRITEV"}
            BY <2>1, <2>4, <2>5, <4>2
        <5> QED
            BY <1>1, <2>5, <4>1, <5>1, <5>2 DEF ListsInJobs, Active, Type
      <4> QED
        BY <4>5, <4>6
    <3> QED
        BY <2>3, <3>1, <3>2
  <2>7. Blocking'
    BY <1>1, <2>1 DEF Blocking
  <2> QED
    BY <2>6, <2>7 DEF JobInv
<1>15. CASE JobSendfile \/ JobUnknown
  <2>1. /\ pc = "jobs" /\ Active(slots[1])
        /\ Type(slots[1]) = {"SENDFILE"} \/ Cardinality(Type(slots[1])) > 1
    BY <1>1, <1>15 DEF JobSendfile, JobUnknown, InJob, TypeOK, Job
  <2> QED
    BY <2>1, OneType
<1>16. CASE JobBlocks
  <2>1. /\ pc = "jobs" /\ pc' = "user" /\ Active(slots[1])
        /\ Type(slots[1]) # {"SHUTDOWN"}
        /\ UNCHANGED <<state, slots, current>>
    <3>1. Job = slots[1]
        BY <1>1 DEF Job, TypeOK
    <3>2. Type(slots[1]) = {"WRITEV"} \/ Type(slots[1]) = {"SENDFILE"}
        BY <1>16, <3>1 DEF JobBlocks, InJob
    <3>3. Type(slots[1]) # {"SHUTDOWN"}
        BY <3>2
    <3>4. Active(slots[1])
        BY <1>16, <3>1 DEF JobBlocks, InJob
    <3> QED
        BY <1>16, <3>3, <3>4 DEF JobBlocks, InJob
  <2>2. JobsListed' /\ ListsInJobs' /\ (Active(slots[1])' <=> Active(slots[1]))
    BY <2>1, JobKept
  <2>3. pc' # "jobs" /\ pc' # "write"
    BY <2>1
  <2> QED
    BY <2>1, <2>2, <2>3 DEF JobInv, Blocking
<1>17. CASE JobsEnd
  <2>1. /\ pc = "jobs" /\ pc' \in {"user", "drain"} /\ ~Active(slots[1])
        /\ UNCHANGED <<state, blocked, slots, current>>
    BY <1>1, <1>17 DEF JobsEnd, Job, TypeOK
  <2>2. Type(slots[1]) # {"SHUTDOWN"}
    <3>1. PICK n \in 0 .. Len(slots) : JobList(n) /\ (Active(slots[1]) <=> n > 0)
        BY JobFacts
    <3>2. n = 0
        BY <2>1, <3>1
    <3>3. Type(slots[1]) \subseteq {"WRITEV"}
        BY <3>1, <3>2 DEF JobList
    <3> QED
        BY <3>3
  <2>3. JobsListed' /\ ListsInJobs' /\ (Active(slots[1])' <=> Active(slots[1]))
    BY <2>1, <2>2, JobKept
  <2>4. ~blocked /\ pc' # "jobs" /\ pc' # "write"
    BY <1>1, <2>1 DEF Blocking
  <2> QED
    BY <2>1, <2>3, <2>4 DEF JobInv, Blocking
<1>18. CASE ape_socket_free
  <2>1. /\ pc' = "user" /\ state' = "FREED" /\ slots' = NewPool(JobChunk) /\ current' = 1
    BY <1>18 DEF ape_socket_free
  <2>2. /\ slots' \in Seq(Slot) /\ Len(slots') = JobChunk
        /\ \A i \in DOMAIN slots' : slots'[i] = EmptySlot
    BY <2>1, SendPathAssumption, EmptyList DEF NewPool
  <2>3. slots' # <<>>
    BY <2>2, SendPathAssumption
  <2>4. JobsListed' /\ ListsInJobs' /\ ~Active(slots'[1])
    BY <2>1, <2>2, <2>3, JobsNone
  <2> QED
    BY <2>1, <2>4 DEF JobInv, Blocking
<1> QED
    BY <1>2, <1>3, <1>4, <1>5, <1>6, <1>7, <1>8, <1>9, <1>10, <1>11, <1>12, <1>13,
       <1>14, <1>15, <1>16, <1>17, <1>18 DEF Next, User, Writing, Jobs

\* The stuttering step.
LEMMA JobStutter == ASSUME JobInv, UNCHANGED vars PROVE JobInv'
BY Zenon DEF JobInv, JobsListed, JobList, ListsInJobs, Blocking, Active, Type, vars

\* It is true of every state, without files.
LEMMA JobAlways == ~Files => (Spec => [](CountInv /\ JobInv))
<1>1. SUFFICES ASSUME ~Files PROVE Spec => [](CountInv /\ JobInv)
    OBVIOUS
<1>2. Init => CountInv /\ JobInv
    BY CountInit, JobInit
<1>3. CountInv /\ JobInv /\ [Next]_vars => CountInv' /\ JobInv'
  <2>1. SUFFICES ASSUME CountInv, JobInv, [Next]_vars PROVE JobInv'
    BY CountStep, CountStutter
  <2>2. CASE Next
    BY <1>1, <2>1, <2>2, JobStep
  <2>3. CASE UNCHANGED vars
    BY <2>1, <2>3, JobStutter
  <2> QED
    BY <2>1, <2>2, <2>3
<1> QED
    BY <1>2, <1>3, PTL DEF Spec

\* Without files every job is reached, in the order in which it was queued.
\* (With them it is not so: run sendpath_stuck.)
THEOREM JobsReachableCorrect == ~Files => (Spec => []JobsReachable)
<1>1. CountInv /\ JobInv => JobsReachable
    BY DEF JobInv, JobsListed, JobList, JobsReachable
<1> QED
    BY <1>1, JobAlways, PTL


-----------------------------------------------------------------------------
(* The release of the buffers, without files.                              *)

\* writev: where the lists go, the head's with what is left of it.
LEMMA WritevLists ==
    ASSUME CountInv, JobInv, JobWritev
    PROVE  \E n \in 1 .. LeftIn(slots[1].list), src \in [1 .. Len(slots) -> 1 .. Len(slots)] :
              /\ sent' = sent \o SubSeq(Wire(slots[1].list), 1, n)
              /\ released' = [i \in Items |-> released[i]
                    + Cardinality({k \in 1 .. FirstLeft(slots[1].list, n) - 1 :
                                      slots[1].list[k].item = i})]
              /\ Len(slots') = Len(slots)
              /\ \A i, j \in 1 .. Len(slots) : src[i] = src[j] => i = j
              /\ \A j \in 1 .. Len(slots) : \E i \in 1 .. Len(slots) : src[i] = j
              /\ \A i \in 1 .. Len(slots) : src[i] # 1 => slots'[i].list = slots[src[i]].list
              /\ \A i \in 1 .. Len(slots) :
                    src[i] = 1 => slots'[i].list = After(slots[1].list, n)
<1>1. TypeOK /\ OpenSlots(slots)
    BY DEF CountInv
<1>2. PICK n \in 1 .. Offered(Job.list) :
          LET done == 1 .. FirstLeft(Job.list, n) - 1
              job  == [Job EXCEPT !.list = After(Job.list, n),
                                  !.spare = @ + Cardinality(done)]
          IN  /\ sent' = sent \o SubSeq(Wire(Job.list), 1, n)
              /\ buffered' = buffered - n
              /\ total' = total - n
              /\ released' = [i \in Items |-> released[i]
                                + Cardinality({k \in done : Job.list[k].item = i})]
              /\ IF job.list = <<>>
                 THEN JobDone(job)
                 ELSE /\ slots' = [slots EXCEPT ![1] = job]
                      /\ UNCHANGED <<current, njobs>>
    BY Zenon DEF JobWritev
<1> DEFINE done == 1 .. FirstLeft(Job.list, n) - 1
           job  == [Job EXCEPT !.list = After(Job.list, n),
                               !.spare = @ + Cardinality(done)]
<1>3. /\ sent' = sent \o SubSeq(Wire(Job.list), 1, n)
      /\ released' = [i \in Items |-> released[i]
                        + Cardinality({k \in done : Job.list[k].item = i})]
      /\ \/ JobDone(job)
         \/ slots' = [slots EXCEPT ![1] = job]
    BY <1>2
<1>4. /\ Job = slots[1] /\ Job \in Slot
      /\ n \in 1 .. LeftIn(Job.list) /\ job \in Slot /\ job.list = After(Job.list, n)
    BY <1>1, WritevJob
<1>5. /\ slots \in Seq(Slot) /\ Len(slots) \in Nat /\ current \in 1 .. Len(slots)
      /\ 1 \in 1 .. Len(slots)
    BY <1>1 DEF TypeOK
<1> DEFINE Moved(src) ==
              /\ Len(slots') = Len(slots)
              /\ \A i, j \in 1 .. Len(slots) : src[i] = src[j] => i = j
              /\ \A j \in 1 .. Len(slots) : \E i \in 1 .. Len(slots) : src[i] = j
              /\ \A i \in 1 .. Len(slots) : src[i] # 1 => slots'[i].list = slots[src[i]].list
              /\ \A i \in 1 .. Len(slots) :
                    src[i] = 1 => slots'[i].list = After(slots[1].list, n)
<1>6. \E src \in [1 .. Len(slots) -> 1 .. Len(slots)] : Moved(src)
  <2> HIDE DEF job
  <2>1. CASE JobDone(job)
    <3> DEFINE N == Len(slots)
               c == current
               src == [i \in 1 .. N |-> IF i < c THEN i + 1 ELSE IF i = c THEN 1 ELSE i]
    <3>1. /\ slots' \in Seq(Slot) /\ Len(slots') = N
          /\ slots'[c] = [job EXCEPT !.flags = @ \ {"ACTIVE"}]
          /\ \A i \in 1 .. c - 1 : i + 1 \in 1 .. N /\ slots'[i] = slots[i + 1]
          /\ \A i \in c + 1 .. N : slots'[i] = slots[i]
        BY <1>4, <1>5, <2>1, DoneSlots
    <3>2. slots'[c].list = After(slots[1].list, n)
        BY <1>4, <3>1 DEF Slot
    <3>3. \A i \in 1 .. N : /\ src[i] \in 1 .. N
                            /\ src[i] = IF i < c THEN i + 1 ELSE IF i = c THEN 1 ELSE i
        BY <1>5
    <3>4. src \in [1 .. N -> 1 .. N]
        BY <3>3
    <3>5. c \in 1 .. N /\ N \in Nat
        BY <1>5
    <3> HIDE DEF src, N, c
    <3>6. \A i, j \in 1 .. N : src[i] = src[j] => i = j
        BY <3>3, <3>5
    <3>7. \A j \in 1 .. N : \E i \in 1 .. N : src[i] = j
      <4>1. SUFFICES ASSUME NEW j \in 1 .. N PROVE \E i \in 1 .. N : src[i] = j
        OBVIOUS
      <4>2. CASE j = 1
        <5>1. src[c] = j
            BY <3>3, <3>5, <4>2
        <5> QED
            BY <3>5, <5>1
      <4>3. CASE j > 1 /\ j <= c
        <5>1. j - 1 \in 1 .. N /\ j - 1 < c /\ (j - 1) + 1 = j
            BY <3>5, <4>3
        <5>2. src[j - 1] = j
            BY <3>3, <5>1
        <5> QED
            BY <5>1, <5>2
      <4>4. CASE j > c
        <5>1. src[j] = j
            BY <3>3, <3>5, <4>4
        <5> QED
            BY <5>1
      <4> QED
        BY <3>5, <4>2, <4>3, <4>4
    <3>8. \A i \in 1 .. N : /\ i < c => i \in 1 .. c - 1
                            /\ i > c => i \in c + 1 .. N
                            /\ i < c \/ i = c \/ i > c
        BY <3>5
    <3>9. \A i \in 1 .. N : src[i] # 1 => slots'[i].list = slots[src[i]].list
      <4>1. SUFFICES ASSUME NEW i \in 1 .. N, src[i] # 1
                     PROVE  slots'[i].list = slots[src[i]].list
        OBVIOUS
      <4>2. CASE i < c
        BY <3>1, <3>3, <3>8, <4>2
      <4>3. CASE i > c
        <5>1. src[i] = i
            BY <3>3, <3>5, <4>3
        <5> QED
            BY <3>1, <3>8, <4>3, <5>1
      <4> QED
        BY <3>3, <3>8, <4>1, <4>2, <4>3
    <3>10. \A i \in 1 .. N : src[i] = 1 => i = c
        BY <3>3, <3>5
    <3>11. \A i \in 1 .. N : src[i] = 1 => slots'[i].list = After(slots[1].list, n)
        BY <3>2, <3>10
    <3>12. Moved(src)
        BY <3>1, <3>6, <3>7, <3>9, <3>11 DEF N
    <3> HIDE DEF Moved
    <3> QED
        BY <3>4, <3>12 DEF N
  <2>2. CASE slots' = [slots EXCEPT ![1] = job]
    <3> DEFINE src == [i \in 1 .. Len(slots) |-> i]
    <3>1. src \in [1 .. Len(slots) -> 1 .. Len(slots)] /\ \A i \in 1 .. Len(slots) : src[i] = i
        OBVIOUS
    <3>2. /\ Len(slots') = Len(slots) /\ slots'[1] = job
          /\ \A i \in 1 .. Len(slots) : i # 1 => slots'[i] = slots[i]
        BY <1>5, <2>2
    <3> HIDE DEF src
    <3>3. Moved(src)
        BY <1>4, <3>1, <3>2
    <3> HIDE DEF Moved
    <3> QED
        BY <3>1, <3>3
  <2> QED
    BY <1>3, <2>1, <2>2
<1>7. PICK src \in [1 .. Len(slots) -> 1 .. Len(slots)] : Moved(src)
    BY <1>6
<1>8. n \in 1 .. LeftIn(slots[1].list)
    BY <1>4
<1>9. /\ sent' = sent \o SubSeq(Wire(slots[1].list), 1, n)
      /\ released' = [i \in Items |-> released[i]
                    + Cardinality({k \in 1 .. FirstLeft(slots[1].list, n) - 1 :
                                      slots[1].list[k].item = i})]
    BY <1>3, <1>4
<1> QED
    BY <1>7, <1>8, <1>9

\* Slots that keep their lists.
LEMMA HoldersKept ==
    ASSUME slots \in Seq(Slot), Len(slots') \in Nat, Len(slots) <= Len(slots'),
           DOMAIN slots' = 1 .. Len(slots'),
           \A i \in 1 .. Len(slots') : slots'[i].list = SlotAt(i).list
    PROVE  /\ OnePacket => OnePacket'
           /\ \A x \in Items : Waits(x)' <=> Waits(x)
<1>1. /\ \A i \in 1 .. Len(slots) : i \in 1 .. Len(slots') /\ slots'[i].list = slots[i].list
      /\ \A i \in 1 .. Len(slots') : i \notin 1 .. Len(slots) => slots'[i].list = <<>>
    BY DEF SlotAt, EmptySlot
<1>2. \A i \in 1 .. Len(slots') : slots'[i].list # <<>> =>
         i \in 1 .. Len(slots) /\ slots'[i].list = slots[i].list
    BY <1>1
<1>3. DOMAIN <<>> = {}
    OBVIOUS
<1>4. DOMAIN slots = 1 .. Len(slots)
    OBVIOUS
<1>5. OnePacket => OnePacket'
    BY <1>2, <1>3, <1>4 DEF OnePacket
<1>6. ASSUME NEW x \in Items PROVE Waits(x)' <=> Waits(x)
  <2>1. Waits(x) => Waits(x)'
    BY <1>1, <1>4 DEF Waits
  <2>2. Waits(x)' => Waits(x)
    BY <1>2, <1>3, <1>4 DEF Waits
  <2> QED
    BY <2>1, <2>2
<1> QED
    BY <1>5, <1>6

\* A packet of an item that no other packet has.
LEMMA HoldersMore ==
    ASSUME TypeOK, OpenSlots(slots), SpareSlots,
           length' \in Seq(Lengths \union {1}),
           NEW item \in DOMAIN length', item \in Items,
           NEW offset \in Nat, offset < length'[item],
           ape_socket_queue_data(item, offset), OnePacket, ~Waits(item)
    PROVE  OnePacket' /\ \A x \in Items : Waits(x)' <=> Waits(x) \/ x = item
<1> DEFINE at == SlotIndex("WRITEV")
           p  == [item |-> item, len |-> length'[item], offset |-> offset]
           list == SlotAt(at).list
<1>1. /\ at \in 1 .. Len(slots') /\ slots' \in Seq(Slot) /\ Len(slots) <= Len(slots')
      /\ SlotAt(at) \in Slot /\ slots'[at].list = Append(list, p)
      /\ \A i \in 1 .. Len(slots') : i # at => slots'[i] = SlotAt(i)
      /\ p \in Packet
    BY QueueStep
<1>2. slots \in Seq(Slot) /\ DOMAIN slots = 1 .. Len(slots) /\ DOMAIN slots' = 1 .. Len(slots')
    BY <1>1 DEF TypeOK
<1>3. p.item = item
    OBVIOUS
<1>4. list \in Seq(Packet)
    BY <1>1 DEF Slot
<1> HIDE DEF at, p
<1>5. /\ DOMAIN slots'[at].list = 1 .. Len(list) + 1 /\ slots'[at].list[Len(list) + 1] = p
      /\ \A k \in 1 .. Len(list) : slots'[at].list[k] = list[k]
      /\ Len(list) \in Nat /\ DOMAIN list = 1 .. Len(list)
    BY <1>1, <1>4
\* The packets before the step, by their places.
<1>6. \A i \in 1 .. Len(slots') : \A k \in DOMAIN SlotAt(i).list :
         i \in DOMAIN slots /\ SlotAt(i) = slots[i]
    BY <1>2 DEF SlotAt, EmptySlot
<1>7. ASSUME NEW i \in 1 .. Len(slots'), NEW k \in DOMAIN slots'[i].list
      PROVE  \/ /\ i \in DOMAIN slots /\ k \in DOMAIN slots[i].list
                /\ slots'[i].list[k] = slots[i].list[k]
             \/ i = at /\ k = Len(list) + 1 /\ slots'[i].list[k].item = item
  <2>1. CASE i = at /\ k = Len(list) + 1
    BY <1>3, <1>5, <2>1
  <2>2. CASE i = at /\ k # Len(list) + 1
    <3>1. k \in DOMAIN list
        BY SMTT(30), <1>5, <2>2
    <3> QED
        BY <1>5, <1>6, <2>2, <3>1
  <2>3. CASE i # at
    BY <1>1, <1>6, <2>3
  <2> QED
    BY <2>1, <2>2, <2>3
<1>8. \A i \in DOMAIN slots : \A k \in DOMAIN slots[i].list : slots[i].list[k].item # item
    BY DEF Waits
<1> HIDE DEF list
<1>9. OnePacket'
  <2>1. SUFFICES ASSUME NEW i \in 1 .. Len(slots'), NEW j \in 1 .. Len(slots'),
                        NEW k \in DOMAIN slots'[i].list, NEW l \in DOMAIN slots'[j].list,
                        slots'[i].list[k].item = slots'[j].list[l].item
                 PROVE  i = j /\ k = l
    BY <1>2 DEF OnePacket
  <2> QED
    BY <1>7, <1>8, <2>1 DEF OnePacket
<1>10. ASSUME NEW x \in Items PROVE Waits(x)' <=> Waits(x) \/ x = item
  <2>1. ASSUME Waits(x)' PROVE Waits(x) \/ x = item
    <3>1. PICK i \in 1 .. Len(slots') : \E k \in DOMAIN slots'[i].list :
                  slots'[i].list[k].item = x
        BY <1>2, <2>1 DEF Waits
    <3>2. PICK k \in DOMAIN slots'[i].list : slots'[i].list[k].item = x
        BY <3>1
    <3> QED
        BY <1>7, <3>2 DEF Waits
  <2>2. ASSUME Waits(x) PROVE Waits(x)'
    <3>1. PICK i \in DOMAIN slots : \E k \in DOMAIN slots[i].list : slots[i].list[k].item = x
        BY <2>2 DEF Waits
    <3>2. PICK k \in DOMAIN slots[i].list : slots[i].list[k].item = x
        BY <3>1
    <3>3. i \in 1 .. Len(slots') /\ SlotAt(i) = slots[i]
        BY <1>1, <1>2 DEF SlotAt
    <3>4. k \in DOMAIN slots'[i].list /\ slots'[i].list[k] = slots[i].list[k]
        <4>1. CASE i = at
            <5>1. list = slots[i].list
                BY <3>3, <4>1 DEF list
            <5> QED
                BY SMTT(30), <1>5, <3>2, <4>1, <5>1
        <4>2. CASE i # at
            BY <1>1, <3>3, <4>2
        <4> QED
            BY <4>1, <4>2
    <3> QED
        BY <1>2, <3>2, <3>3, <3>4 DEF Waits
  <2>3. ASSUME x = item PROVE Waits(x)'
    <3>1. Len(list) + 1 \in DOMAIN slots'[at].list
          /\ slots'[at].list[Len(list) + 1].item = x
        BY <1>3, <1>5, <2>3
    <3> QED
        BY <1>1, <1>2, <3>1 DEF Waits
  <2> QED
    BY <2>1, <2>2, <2>3
<1> QED
    BY <1>9, <1>10


\* writev: the items whose last byte is taken leave the lists.
LEMMA HoldersSent ==
    ASSUME CountInv, JobInv, OnePacket, JobWritev
    PROVE  /\ OnePacket'
           /\ \A x \in Items : \/ /\ Waits(x) /\ ~Waits(x)'
                                 /\ released'[x] = released[x] + 1
                              \/ /\ Waits(x) <=> Waits(x)'
                                 /\ released'[x] = released[x] + 0
<1>1. PICK n \in 1 .. LeftIn(slots[1].list), src \in [1 .. Len(slots) -> 1 .. Len(slots)] :
              /\ released' = [i \in Items |-> released[i]
                    + Cardinality({k \in 1 .. FirstLeft(slots[1].list, n) - 1 :
                                      slots[1].list[k].item = i})]
              /\ Len(slots') = Len(slots)
              /\ \A i, j \in 1 .. Len(slots) : src[i] = src[j] => i = j
              /\ \A j \in 1 .. Len(slots) : \E i \in 1 .. Len(slots) : src[i] = j
              /\ \A i \in 1 .. Len(slots) : src[i] # 1 => slots'[i].list = slots[src[i]].list
              /\ \A i \in 1 .. Len(slots) :
                    src[i] = 1 => slots'[i].list = After(slots[1].list, n)
    BY WritevLists
<1> DEFINE list  == slots[1].list
           first == FirstLeft(list, n)
           rest  == After(list, n)
<1>2. /\ slots \in Seq(Slot) /\ DOMAIN slots = 1 .. Len(slots) /\ 1 \in 1 .. Len(slots)
      /\ Len(slots) \in Nat /\ slots[1] \in Slot /\ Open(list)
    BY DEF CountInv, TypeOK, OpenSlots
<1>3. list \in Seq(Packet) /\ n \in 0 .. LeftIn(list)
  <2>1. list \in Seq(Packet)
    BY <1>2 DEF Slot
  <2>2. LeftIn(list) \in Nat
    BY <1>2, <2>1, BeforeDef
  <2> QED
    BY <2>1, <2>2
<1>4. DOMAIN slots' = 1 .. Len(slots)
  <2>1. slots' \in Seq(Slot)
    <3>1. Next
        BY DEF Next, Jobs
    <3> QED
        BY <3>1, CountStep DEF CountInv, TypeOK
  <2> QED
    BY <1>1, <2>1
<1>5. /\ first \in 1 .. Len(list) + 1 /\ Len(list) \in Nat
      /\ Len(rest) = Len(list) + 1 - first /\ rest \in Seq(Packet)
      /\ \A k \in 1 .. Len(list) + 1 - first : k + first - 1 \in 1 .. Len(list)
      /\ \A k \in 1 .. Len(list) + 1 - first : rest[k].item = list[k + first - 1].item
  <2>1. first \in 1 .. Len(list) + 1
    BY <1>2, <1>3, FirstLeftDef
  <2>2. /\ Len(rest) = Len(list) + 1 - first /\ rest \in Seq(Packet)
        /\ \A k \in 1 .. Len(list) + 1 - first :
              /\ k + first - 1 \in 1 .. Len(list)
              /\ rest[k] = IF k = 1 THEN [list[first] EXCEPT
                                             !.offset = @ + n - Before(list, first)]
                           ELSE list[k + first - 1]
    <3> HIDE DEF list
    <3> QED
        BY <1>2, <1>3, AfterDef
  <2>3. ASSUME NEW k \in 1 .. Len(list) + 1 - first
        PROVE  rest[k].item = list[k + first - 1].item
    <3>1. CASE k = 1
      <4>1. k + first - 1 = first /\ first \in 1 .. Len(list)
        BY SMTT(30), <2>1, <2>2, <3>1
      <4>2. list[first] \in Packet
        BY <1>3, <4>1
      <4>3. rest[k] = [list[first] EXCEPT !.offset = @ + n - Before(list, first)]
        BY <2>2, <3>1
      <4> QED
        BY <4>1, <4>2, <4>3 DEF Packet
    <3>2. CASE k # 1
        BY <2>2, <3>2
    <3> QED
        BY <3>1, <3>2
  <2> QED
    BY <1>3, <2>1, <2>2, <2>3
<1> HIDE DEF first, rest
<1> DEFINE at(i, k) == IF src[i] = 1 THEN k + first - 1 ELSE k
\* Where a packet was.
<1>6. ASSUME NEW i \in 1 .. Len(slots), NEW k \in DOMAIN slots'[i].list
      PROVE  /\ src[i] \in 1 .. Len(slots) /\ at(i, k) \in DOMAIN slots[src[i]].list
             /\ slots'[i].list[k].item = slots[src[i]].list[at(i, k)].item
             /\ src[i] = 1 => at(i, k) >= first
  <2>1. src[i] \in 1 .. Len(slots)
    OBVIOUS
  <2>2. CASE src[i] = 1
    <3>1. slots'[i].list = rest
        BY <1>1, <2>2 DEF rest
    <3>2. k \in 1 .. Len(list) + 1 - first /\ at(i, k) = k + first - 1
        BY <1>5, <2>2, <3>1
    <3>3. k + first - 1 \in 1 .. Len(list) /\ rest[k].item = list[k + first - 1].item
        BY <1>5, <3>2
    <3>4. k + first - 1 >= first
        BY <1>5, <3>2
    <3>5. DOMAIN list = 1 .. Len(list)
        BY <1>3
    <3> QED
        BY <2>1, <2>2, <3>1, <3>2, <3>3, <3>4, <3>5
  <2>3. CASE src[i] # 1
    BY <1>1, <2>1, <2>3
  <2> QED
    BY <2>2, <2>3
<1>7. ASSUME NEW i \in 1 .. Len(slots), NEW k \in DOMAIN slots'[i].list,
             NEW l \in DOMAIN slots'[i].list, at(i, k) = at(i, l)
      PROVE  k = l
  <2>1. CASE src[i] = 1
    <3>1. slots'[i].list = rest
        BY <1>1, <2>1 DEF rest
    <3>2. k \in Nat /\ l \in Nat
        BY SMTT(30), <1>5, <3>1
    <3> QED
        BY <1>5, <1>7, <2>1, <3>2
  <2>2. CASE src[i] # 1
    BY <1>7, <2>2
  <2> QED
    BY <2>1, <2>2
<1>8. OnePacket'
  <2>1. SUFFICES ASSUME NEW i \in 1 .. Len(slots), NEW j \in 1 .. Len(slots),
                        NEW k \in DOMAIN slots'[i].list, NEW l \in DOMAIN slots'[j].list,
                        slots'[i].list[k].item = slots'[j].list[l].item
                 PROVE  i = j /\ k = l
    BY <1>4 DEF OnePacket
  <2>2. /\ src[i] \in 1 .. Len(slots) /\ at(i, k) \in DOMAIN slots[src[i]].list
        /\ slots'[i].list[k].item = slots[src[i]].list[at(i, k)].item
    BY <1>6
  <2>3. /\ src[j] \in 1 .. Len(slots) /\ at(j, l) \in DOMAIN slots[src[j]].list
        /\ slots'[j].list[l].item = slots[src[j]].list[at(j, l)].item
    BY <1>6
  <2> HIDE DEF at
  <2>4. src[i] = src[j] /\ at(i, k) = at(j, l)
    <3> DEFINE u == src[i]
               v == src[j]
               a == at(i, k)
               b == at(j, l)
    <3>1. u \in DOMAIN slots /\ a \in DOMAIN slots[u].list
        BY <1>2, <2>2
    <3>2. v \in DOMAIN slots /\ b \in DOMAIN slots[v].list
        BY <1>2, <2>3
    <3>3. slots[u].list[a].item = slots[v].list[b].item
        BY <2>1, <2>2, <2>3
    <3> HIDE DEF u, v, a, b
    <3>4. u = v /\ a = b
        BY <3>1, <3>2, <3>3 DEF OnePacket
    <3> QED
        BY <3>4 DEF u, v, a, b
  <2>5. i = j
    BY <1>1, <2>4
  <2> QED
    BY <1>7, <2>4, <2>5
<1>9. ASSUME NEW x \in Items
      PROVE  \/ /\ Waits(x) /\ ~Waits(x)'
                /\ released'[x] = released[x] + 1
             \/ /\ Waits(x) <=> Waits(x)'
                /\ released'[x] = released[x] + 0
  <2> DEFINE S == {k \in 1 .. first - 1 : list[k].item = x}
  <2>1. released'[x] = released[x] + Cardinality(S)
    BY <1>1 DEF first
  <2>2. \A k \in 1 .. first - 1 : k \in DOMAIN list
    BY <1>3, <1>5
  <2>3. ASSUME Waits(x)' PROVE Waits(x) /\ S = {}
    <3>1. PICK i \in 1 .. Len(slots) : \E k \in DOMAIN slots'[i].list :
                  slots'[i].list[k].item = x
        BY <1>4, <2>3 DEF Waits
    <3>2. PICK k \in DOMAIN slots'[i].list : slots'[i].list[k].item = x
        BY <3>1
    <3>3. /\ src[i] \in 1 .. Len(slots) /\ at(i, k) \in DOMAIN slots[src[i]].list
          /\ x = slots[src[i]].list[at(i, k)].item
          /\ src[i] = 1 => at(i, k) >= first
        BY <1>6, <3>2
    <3> HIDE DEF at
    <3>4. ASSUME NEW l \in 1 .. first - 1, list[l].item = x PROVE FALSE
      <4>1. l \in DOMAIN slots[1].list
        BY <2>2
      <4>2. src[i] = 1 /\ at(i, k) = l
        BY <1>2, <3>3, <3>4, <4>1 DEF OnePacket
      <4>3. ~(l >= first)
        BY <1>5
      <4> QED
        BY <3>3, <4>2, <4>3
    <3> QED
        BY <1>2, <3>3, <3>4 DEF Waits
  <2>4. ASSUME Waits(x), S = {} PROVE Waits(x)'
    <3>1. PICK j \in 1 .. Len(slots) : \E l \in DOMAIN slots[j].list : slots[j].list[l].item = x
        BY <1>2, <2>4 DEF Waits
    <3>2. PICK l \in DOMAIN slots[j].list : slots[j].list[l].item = x
        BY <3>1
    <3>3. PICK i \in 1 .. Len(slots) : src[i] = j
        BY <1>1
    <3>4. CASE j = 1
      <4>1. l \in 1 .. Len(list) /\ l \notin 1 .. first - 1
        BY <1>3, <2>4, <3>2, <3>4
      <4>2. PICK m \in 1 .. Len(list) + 1 - first : m + first - 1 = l
        <5>1. l + 1 - first \in 1 .. Len(list) + 1 - first
              /\ (l + 1 - first) + first - 1 = l
            BY SMTT(30), <1>5, <4>1
        <5> QED
            BY <5>1
      <4>3. rest[m].item = x /\ m \in DOMAIN rest
        <5>1. rest[m].item = list[m + first - 1].item
            BY <1>5
        <5>2. list[m + first - 1].item = x
            BY <3>2, <3>4, <4>2
        <5>3. DOMAIN rest = 1 .. Len(list) + 1 - first
            BY <1>5
        <5> QED
            BY <5>1, <5>2, <5>3
      <4>4. slots'[i].list = rest
        BY <1>1, <3>3, <3>4 DEF rest
      <4> QED
        BY <1>4, <4>3, <4>4 DEF Waits
    <3>5. CASE j # 1
      <4>1. slots'[i].list = slots[j].list
        BY <1>1, <3>3, <3>5
      <4> QED
        BY <1>4, <3>2, <4>1 DEF Waits
    <3> QED
        BY <3>4, <3>5
  <2>5. CASE S = {}
    <3>1. Cardinality(S) = 0
        BY <2>5, FS_EmptySet
    <3> QED
        BY <2>1, <2>3, <2>4, <2>5, <3>1
  <2>6. CASE S # {}
    <3>1. PICK k \in S : TRUE
        BY <2>6
    <3>2. k \in DOMAIN list /\ list[k].item = x
        BY <2>2, <3>1
    <3>3. \A l \in S : l \in DOMAIN list /\ list[l].item = x
        BY <2>2
    <3>4. \A l \in S : l = k
        BY <1>2, <3>2, <3>3 DEF OnePacket
    <3>5. Cardinality(S) = 1
      <4>1. S = {k}
        BY <3>1, <3>4
      <4> HIDE DEF S
      <4> QED
        BY <4>1, FS_Singleton
    <3>6. Waits(x)
        BY <1>2, <3>2 DEF Waits
    <3>7. ~Waits(x)'
        BY <2>3, <2>6
    <3> QED
        BY <2>1, <3>5, <3>6, <3>7
  <2> QED
    BY <2>5, <2>6
<1> QED
    BY <1>8, <1>9


\* Only ape_socket_free frees, and nothing follows it.
LEMMA FreedLast ==
    ASSUME CountInv, Next
    PROVE  state # "FREED" /\ (state' = "FREED" => ape_socket_free)
<1>1. TypeOK /\ Phases
    BY DEF CountInv
<1>2. state # "FREED"
  <2>1. CASE User
    BY <2>1 DEF User, WriteRefused, WriteQueued, WriteStarts, APE_sendfile,
              APE_socket_shutdown, APE_socket_shutdown_now, Given
  <2>2. CASE Writing
    BY <1>1, <2>2 DEF Writing, WriteSome, WriteBlocks, WriteEnds, Phases
  <2>3. CASE DrainReturns \/ WriteEvent \/ PeerCloses \/ ape_socket_free
    BY <1>1, <2>3 DEF DrainReturns, WriteEvent, PeerCloses, ape_socket_free, Phases
  <2>4. CASE Jobs
    BY <1>1, <2>4 DEF Jobs, JobWritev, JobBlocks, JobFails, JobSendfile, JobShutdown,
                      JobUnknown, JobsEnd, InJob, Phases
  <2> QED
    BY <2>1, <2>2, <2>3, <2>4 DEF Next
<1>3. ASSUME NEW how, ape_shutdown(how) PROVE state' # "FREED"
    BY <1>2, <1>3 DEF ape_shutdown
<1>4. ASSUME NEW item, NEW offset, ape_socket_queue_data(item, offset)
      PROVE  state' # "FREED"
    BY <1>2, <1>3, <1>4 DEF ape_socket_queue_data
<1>5. CASE User
    BY <1>2, <1>3, <1>4, <1>5 DEF User, WriteRefused, WriteQueued, WriteStarts,
              APE_sendfile, APE_socket_shutdown, APE_socket_shutdown_now
<1>6. CASE Writing
    BY <1>2, <1>3, <1>4, <1>6 DEF Writing, WriteSome, WriteBlocks, WriteEnds
<1>7. CASE DrainReturns \/ WriteEvent \/ PeerCloses
    BY <1>2, <1>3, <1>7 DEF DrainReturns, WriteEvent, PeerCloses
<1>8. CASE Jobs
    BY <1>2, <1>3, <1>8 DEF Jobs, JobWritev, JobBlocks, JobFails, JobSendfile, JobShutdown,
                      JobUnknown, JobsEnd
<1> QED
    BY <1>2, <1>5, <1>6, <1>7, <1>8 DEF Next

\* The buffers, at the start.
LEMMA ReleaseInit == ASSUME Init PROVE ReleaseInv
<1>1. CountInv /\ JobInv
    BY CountInit, JobInit
<1>2. \A i \in DOMAIN slots : slots[i].list = <<>>
    BY DEF Init, NewPool, EmptySlot
<1>3. \A i \in DOMAIN slots : DOMAIN slots[i].list = {}
    BY <1>2
<1>4. OnePacket /\ \A x \in Items : ~Waits(x)
    BY <1>3 DEF OnePacket, Waits
<1>5. OneHolder
  <2>1. DOMAIN length = {} /\ \A x \in Items : released[x] = 0
    BY DEF Init
  <2> QED
    BY <1>4, <2>1 DEF OneHolder
<1>6. NothingLeft
    BY DEF Init, NothingLeft
<1> QED
    BY <1>1, <1>4, <1>5, <1>6 DEF ReleaseInv

\* No step breaks what is true of the buffers.
LEMMA ReleaseStep == ASSUME ReleaseInv, ~Files, Next PROVE ReleaseInv'
<1>1. CountInv /\ JobInv /\ OnePacket /\ OneHolder /\ NothingLeft
      /\ TypeOK /\ Phases /\ OpenSlots(slots) /\ SpareSlots /\ BufferAccounting
    BY DEF ReleaseInv, CountInv
<1>2. CountInv' /\ JobInv'
    BY <1>1, CountStep, JobStep
<1>3. state # "FREED" /\ (state' = "FREED" => ape_socket_free)
    BY <1>1, FreedLast
<1>4. /\ slots \in Seq(Slot) /\ released \in [Items -> Nat]
      /\ slots' \in Seq(Slot) /\ DOMAIN slots = 1 .. Len(slots)
  <2>1. slots \in Seq(Slot) /\ released \in [Items -> Nat]
    BY <1>1 DEF TypeOK
  <2>2. slots' \in Seq(Slot)
    BY <1>2 DEF CountInv, TypeOK
  <2> QED
    BY <2>1, <2>2
<1>5. /\ \A x \in Items : x \notin DOMAIN length => released[x] = 0 /\ ~Waits(x)
      /\ \A x \in Items : x \in DOMAIN length
             => released[x] = IF Waits(x) \/ Written(x) THEN 0 ELSE 1
      /\ \A x \in Items : ~(Waits(x) /\ Written(x))
    BY <1>1 DEF OneHolder
<1>6. CASE ~ape_socket_free /\ OnePacket' /\ OneHolder'
  <2>1. NothingLeft'
    BY <1>3, <1>6 DEF NothingLeft
  <2> QED
    BY <1>2, <1>6, <2>1 DEF ReleaseInv
\* The steps that move no buffer.
<1>7. ASSUME UNCHANGED <<length, released>>, pc # "write", pc' # "write",
             \A x \in Items : Waits(x)' <=> Waits(x)
      PROVE  OneHolder'
  <2>1. \A x \in Items : ~Written(x) /\ ~Written(x)'
    BY <1>7 DEF Written
  <2> QED
    BY <1>5, <1>7, <2>1 DEF OneHolder
<1>8. ASSUME UNCHANGED slots
      PROVE  OnePacket' /\ \A x \in Items : Waits(x)' <=> Waits(x)
    BY <1>1, <1>8 DEF OnePacket, Waits
<1>9. CASE WriteRefused \/ WriteStarts
  <2>1. PICK len \in Lengths : Given(len)
    BY <1>9 DEF WriteRefused, WriteStarts
  <2>2. /\ Item \in Items /\ Item = Len(length) + 1 /\ pc \in {"user", "drain"}
        /\ Len(length) \in Nat /\ length' \in Seq(Lengths \union {1}) /\ Len(length') = Item
        /\ DOMAIN length = 1 .. Len(length)
    BY <1>1, <2>1, GivenItem DEF TypeOK
  <2>3. UNCHANGED slots
    BY <1>9 DEF WriteRefused, WriteStarts
  <2>4. \A x \in Items : ~Written(x)
    BY <2>2 DEF Written
  <2>5. DOMAIN length' = DOMAIN length \union {Item} /\ Item \notin DOMAIN length
    BY <2>2
  <2>8. ~ape_socket_free
    BY <1>9, <1>3 DEF WriteRefused, WriteStarts, ape_socket_free
  <2>6. CASE WriteRefused
    <3>1. pc' = pc /\ released' = [released EXCEPT ![Item] = @ + 1]
        BY <2>6 DEF WriteRefused
    <3>2. \A x \in Items : ~Written(x)'
        BY <2>2, <3>1 DEF Written
    <3>3. released[Item] = 0 /\ ~Waits(Item)
        BY <1>5, <2>2, <2>5
    <3>4. \A x \in Items : released'[x] = IF x = Item THEN 1 ELSE released[x]
        BY <1>4, <2>2, <3>1, <3>3
    <3>5. OneHolder'
        BY <1>5, <1>8, <2>3, <2>4, <2>5, <3>2, <3>3, <3>4 DEF OneHolder
    <3> QED
        BY <1>6, <1>8, <2>3, <2>8, <3>5
  <2>7. CASE WriteStarts
    <3>1. pc' = "write" /\ writing' = [item |-> Item, t_bytes |-> 0] /\ released' = released
        BY <2>7 DEF WriteStarts
    <3>2. \A x \in Items : Written(x)' <=> x = Item
        BY <3>1 DEF Written
    <3>3. released[Item] = 0 /\ ~Waits(Item)
        BY <1>5, <2>2, <2>5
    <3>4. OneHolder'
        BY <1>5, <1>8, <2>3, <2>4, <2>5, <3>1, <3>2, <3>3 DEF OneHolder
    <3> QED
        BY <1>6, <1>8, <2>3, <2>8, <3>4
  <2> QED
    BY <1>9, <2>6, <2>7
<1>10. CASE WriteQueued
  <2>1. PICK len \in Lengths : Given(len)
    BY <1>10 DEF WriteQueued
  <2>2. /\ Item \in Items /\ Item = Len(length) + 1 /\ pc \in {"user", "drain"}
        /\ Len(length) \in Nat /\ length' \in Seq(Lengths \union {1}) /\ Len(length') = Item
        /\ DOMAIN length = 1 .. Len(length) /\ Item \in DOMAIN length'
        /\ length'[Item] = len /\ len \in Nat \ {0}
    BY <1>1, <2>1, GivenItem DEF TypeOK
  <2>3. /\ state = "ONLINE" /\ ape_socket_queue_data(Item, 0)
        /\ UNCHANGED <<pc, released>>
    BY <1>10 DEF WriteQueued
  <2>4. DOMAIN length' = DOMAIN length \union {Item} /\ Item \notin DOMAIN length
    BY <2>2
  <2>5. released[Item] = 0 /\ ~Waits(Item)
    BY <1>5, <2>2, <2>4
  <2>6. OnePacket' /\ \A x \in Items : Waits(x)' <=> Waits(x) \/ x = Item
    <3>1. 0 < length'[Item]
        BY <2>2
    <3> QED
        BY <1>1, <2>2, <2>3, <2>5, <3>1, HoldersMore
  <2>7. \A x \in Items : ~Written(x) /\ ~Written(x)'
    BY <2>2, <2>3 DEF Written
  <2>8. OneHolder'
    BY <1>5, <2>3, <2>4, <2>5, <2>6, <2>7 DEF OneHolder
  <2>9. ~ape_socket_free
    BY <2>3 DEF ape_socket_free
  <2> QED
    BY <1>6, <2>6, <2>8, <2>9
<1>11. CASE WriteSome
  <2>1. /\ pc = "write" /\ pc' = pc /\ UNCHANGED <<slots, length, released>>
    BY <1>11 DEF WriteSome
  <2>2. writing'.item = writing.item
    <3>1. PICK n \in 1 .. length[writing.item] : writing' = [writing EXCEPT !.t_bytes = @ + n]
        BY <1>11 DEF WriteSome
    <3>2. writing \in [item : Items \union {0}, t_bytes : Nat]
        BY <1>1 DEF TypeOK
    <3> QED
        BY <3>1, <3>2
  <2>3. \A x \in Items : Written(x)' <=> Written(x)
    BY <2>1, <2>2 DEF Written
  <2>4. OneHolder'
    BY <1>5, <1>8, <2>1, <2>3 DEF OneHolder
  <2>5. ~ape_socket_free
    BY <2>1 DEF ape_socket_free
  <2> QED
    BY <1>6, <1>8, <2>1, <2>4, <2>5
<1>12. CASE WriteBlocks
  <2> DEFINE i == writing.item
             t == writing.t_bytes
  <2>1. /\ pc = "write" /\ i \in DOMAIN length /\ i \in Items /\ t \in Nat
        /\ t < length[i] /\ length' = length
        /\ ape_socket_queue_data(i, t) /\ pc' = "user" /\ released' = released
    BY <1>1, <1>12 DEF WriteBlocks, TypeOK, Phases
  <2>2. \A x \in Items : (Written(x) <=> x = i) /\ ~Written(x)'
    BY <2>1 DEF Written
  <2>3. ~Waits(i)
    BY <1>5, <2>1, <2>2
  <2>4. OnePacket' /\ \A x \in Items : Waits(x)' <=> Waits(x) \/ x = i
    <3>1. length' \in Seq(Lengths \union {1}) /\ i \in DOMAIN length' /\ t < length'[i]
        BY <1>1, <2>1 DEF TypeOK
    <3> QED
        BY <1>1, <2>1, <2>3, <3>1, HoldersMore
  <2>5. OneHolder'
    BY <1>5, <2>1, <2>2, <2>4 DEF OneHolder
  <2>6. ~ape_socket_free
    BY <2>1 DEF ape_socket_free
  <2> QED
    BY <1>6, <2>4, <2>5, <2>6
<1>13. CASE WriteEnds
  <2> DEFINE i == writing.item
  <2>1. /\ pc = "write" /\ pc' = "user" /\ i \in Items /\ i \in DOMAIN length
        /\ released' = [released EXCEPT ![i] = @ + 1]
        /\ UNCHANGED <<slots, length>>
    BY <1>1, <1>13 DEF WriteEnds, TypeOK, Phases
  <2>2. \A x \in Items : (Written(x) <=> x = i) /\ ~Written(x)'
    BY <2>1 DEF Written
  <2>3. released[i] = 0 /\ ~Waits(i)
    BY <1>5, <2>1, <2>2
  <2>4. \A x \in Items : released'[x] = IF x = i THEN 1 ELSE released[x]
    BY <1>4, <2>1, <2>3
  <2>5. OneHolder'
    BY <1>5, <1>8, <2>1, <2>2, <2>3, <2>4 DEF OneHolder
  <2>6. ~ape_socket_free
    BY <2>1 DEF ape_socket_free
  <2> QED
    BY <1>6, <1>8, <2>1, <2>5, <2>6
<1>14. CASE APE_sendfile
    BY <1>14 DEF APE_sendfile
<1>15. CASE APE_socket_shutdown
  <2>1. /\ pc \in {"user", "drain"} /\ state = "ONLINE" /\ UNCHANGED <<pc, length, released>>
    BY <1>15 DEF APE_socket_shutdown, InUserCode
  <2>2. OnePacket' /\ \A x \in Items : Waits(x)' <=> Waits(x)
    <3>1. CASE UNCHANGED slots
        BY <1>8, <3>1
    <3>2. CASE slots' = ape_socket_job_get_slot("SHUTDOWN")
      <4> DEFINE at == SlotIndex("SHUTDOWN")
      <4>1. slots \in Seq(Slot) /\ current \in 1 .. Len(slots) /\ "SHUTDOWN" \in JobTypes
        BY <1>1 DEF TypeOK, JobTypes
      <4>2. /\ at \in 1 .. Len(slots') /\ Len(slots) <= Len(slots')
            /\ SlotAt(at) \in Slot
            /\ slots'[at] = [SlotAt(at) EXCEPT !.flags = @ \union {"ACTIVE", "SHUTDOWN"}]
            /\ \A i \in 1 .. Len(slots') : i # at => slots'[i] = SlotAt(i)
        BY <3>2, <4>1, GetSlot
      <4> HIDE DEF at
      <4>3. slots'[at].list = SlotAt(at).list
        BY <4>2 DEF Slot
      <4>4. \A i \in 1 .. Len(slots') : slots'[i].list = SlotAt(i).list
        BY <4>2, <4>3
      <4>5. Len(slots') \in Nat /\ DOMAIN slots' = 1 .. Len(slots')
        BY <1>4
      <4> QED
        BY <1>1, <1>4, <4>2, <4>4, <4>5, HoldersKept
    <3> QED
        BY <1>15, <3>1, <3>2 DEF APE_socket_shutdown
  <2>3. pc # "write" /\ pc' # "write"
    BY <2>1
  <2>4. ~ape_socket_free
    BY <2>1 DEF ape_socket_free
  <2> QED
    BY <1>6, <1>7, <2>1, <2>2, <2>3, <2>4
<1>16. CASE \/ APE_socket_shutdown_now \/ PeerCloses \/ DrainReturns \/ WriteEvent
            \/ JobFails \/ JobShutdown \/ JobBlocks \/ JobsEnd
  <2>1. /\ UNCHANGED <<slots, length, released>> /\ pc # "write" /\ pc' # "write"
    BY <1>16 DEF APE_socket_shutdown_now, PeerCloses, DrainReturns, WriteEvent,
                 JobFails, JobShutdown, JobBlocks, JobsEnd, InJob, InUserCode
  <2>2. CASE ape_socket_free
    <3>1. state = "SHUTDOWN" /\ pc = "user" /\ state' = "FREED"
        BY <2>2 DEF ape_socket_free
    <3> QED
        BY <1>16, <3>1 DEF APE_socket_shutdown_now, PeerCloses, DrainReturns, WriteEvent,
                 JobFails, JobShutdown, JobBlocks, JobsEnd, InJob
  <2>3. CASE ~ape_socket_free
    BY <1>6, <1>7, <1>8, <2>1, <2>3
  <2> QED
    BY <2>2, <2>3
<1>17. CASE JobWritev
  <2>1. /\ pc = "jobs" /\ pc' = pc /\ length' = length
    BY <1>17 DEF JobWritev, InJob
  <2>2. /\ OnePacket'
        /\ \A x \in Items : \/ /\ Waits(x) /\ ~Waits(x)'
                               /\ released'[x] = released[x] + 1
                            \/ /\ Waits(x) <=> Waits(x)'
                               /\ released'[x] = released[x] + 0
    BY <1>1, <1>17, HoldersSent
  <2>3. \A x \in Items : ~Written(x) /\ ~Written(x)'
    BY <2>1 DEF Written
  <2>4. OneHolder'
    <3>1. SUFFICES ASSUME NEW x \in Items
                   PROVE  /\ x \notin DOMAIN length' => released'[x] = 0 /\ ~Waits(x)'
                          /\ x \in DOMAIN length'
                             => released'[x] = IF Waits(x)' \/ Written(x)' THEN 0 ELSE 1
                          /\ ~(Waits(x)' /\ Written(x)')
        BY DEF OneHolder
    <3>2. released[x] \in Nat
        BY <1>4
    <3>3. CASE x \in DOMAIN length
      <4>1. released[x] = IF Waits(x) THEN 0 ELSE 1
        BY <1>5, <2>3, <3>3
      <4> QED
        BY <2>1, <2>2, <2>3, <3>2, <3>3, <4>1
    <3>4. CASE x \notin DOMAIN length
      <4>1. released[x] = 0 /\ ~Waits(x)
        BY <1>5, <3>4
      <4> QED
        BY <2>1, <2>2, <2>3, <3>4, <4>1
    <3> QED
        BY <3>3, <3>4
  <2>5. ~ape_socket_free
    BY <2>1 DEF ape_socket_free
  <2> QED
    BY <1>6, <2>2, <2>4, <2>5
<1>18. CASE JobSendfile \/ JobUnknown
  <2>1. /\ pc = "jobs" /\ Active(slots[1])
        /\ Type(slots[1]) = {"SENDFILE"} \/ Cardinality(Type(slots[1])) > 1
    BY <1>1, <1>18 DEF JobSendfile, JobUnknown, InJob, TypeOK, Job
  <2> QED
    BY <1>1, <2>1, OneType
<1>19. CASE ape_socket_free
  <2> DEFINE f == SlotLefts(slots)
             g == [i \in DOMAIN slots |->
                      IF i \in Cleaned THEN LeftIn(slots[i].list) ELSE 0]
  <2>1. /\ pc = "user" /\ pc' = pc /\ state' = "FREED" /\ state = "SHUTDOWN"
        /\ released' = [i \in Items |-> released[i] + IF Holds(i) THEN 1 ELSE 0]
        /\ total' = total - SumOf(g)
        /\ slots' = NewPool(JobChunk) /\ length' = length
    BY <1>19 DEF ape_socket_free
  <2>2. \A i \in DOMAIN slots' : slots'[i].list = <<>>
    BY <2>1 DEF NewPool, EmptySlot
  <2>3. \A i \in DOMAIN slots' : DOMAIN slots'[i].list = {}
    BY <2>2
  <2>4. OnePacket' /\ \A x \in Items : ~Waits(x)'
    BY <2>3 DEF OnePacket, Waits
  <2>5. \A i \in DOMAIN slots : i \notin Cleaned => slots[i].list = <<>>
    BY <1>1 DEF Cleaned, JobInv, ListsInJobs
  <2>6. ASSUME NEW x \in Items PROVE Holds(x) <=> Waits(x)
    <3>1. \A i \in DOMAIN slots : i \notin Cleaned => DOMAIN slots[i].list = {}
        BY <2>5
    <3>2. \A i \in Cleaned : i \in DOMAIN slots
        BY DEF Cleaned
    <3>3. Holds(x) => Waits(x)
        BY <3>2 DEF Holds, Waits
    <3>4. Waits(x) => Holds(x)
        BY <3>1 DEF Holds, Waits
    <3> QED
        BY <3>3, <3>4
  <2>7. \A x \in Items : ~Written(x) /\ ~Written(x)'
    BY <2>1 DEF Written
  <2>8. \A x \in Items : released'[x] = released[x] + IF Waits(x) THEN 1 ELSE 0
    BY <2>1, <2>6
  <2>9. OneHolder'
    <3>1. SUFFICES ASSUME NEW x \in Items
                   PROVE  /\ x \notin DOMAIN length => released'[x] = 0
                          /\ x \in DOMAIN length => released'[x] = 1
        BY <2>1, <2>4, <2>7 DEF OneHolder
    <3> QED
        BY <1>5, <2>7, <2>8
  <2>10. total' = 0
    <3>1. /\ f \in Seq(Nat) /\ Len(f) = Len(slots)
          /\ \A i \in 1 .. Len(slots) : f[i] = LeftIn(slots[i].list)
          /\ SumOf(f) = SlotsLeft(slots) /\ SlotsLeft(slots) \in Nat
          /\ total = SlotsLeft(slots)
        BY <1>1, <1>3, <1>4, SlotLeftsType DEF SlotsLeft, BufferAccounting
    <3>2. f = g
      <4>1. \A i \in 1 .. Len(slots) : f[i] = IF i \in Cleaned THEN LeftIn(slots[i].list) ELSE 0
        BY <1>4, <2>5, <3>1, EmptyList
      <4>2. f = [i \in 1 .. Len(slots) |-> f[i]]
        BY <3>1
      <4> HIDE DEF f
      <4> QED
        BY <1>4, <4>1, <4>2
    <3> HIDE DEF f, g
    <3> QED
        BY <2>1, <3>1, <3>2
  <2>11. NothingLeft'
    BY <2>2, <2>10 DEF NothingLeft
  <2> QED
    BY <1>2, <2>4, <2>9, <2>11 DEF ReleaseInv
<1> QED
    BY <1>9, <1>10, <1>11, <1>12, <1>13, <1>14, <1>15, <1>16, <1>17, <1>18, <1>19
       DEF Next, User, Writing, Jobs

\* It is true of every state, without files.
LEMMA ReleaseAlways == ~Files => (Spec => []ReleaseInv)
<1>1. SUFFICES ASSUME ~Files PROVE Spec => []ReleaseInv
    OBVIOUS
<1>2. Init => ReleaseInv
    BY ReleaseInit
<1>3. ReleaseInv /\ [Next]_vars => ReleaseInv'
  <2>1. SUFFICES ASSUME ReleaseInv, [Next]_vars PROVE ReleaseInv'
    OBVIOUS
  <2>2. CASE Next
    BY <1>1, <2>1, <2>2, ReleaseStep
  <2>3. CASE UNCHANGED vars
    <3>1. CountInv' /\ JobInv'
        BY <2>1, <2>3, CountStutter, JobStutter DEF ReleaseInv
    <3>2. OnePacket' /\ OneHolder' /\ NothingLeft'
        BY <2>1, <2>3 DEF ReleaseInv, OnePacket, OneHolder, NothingLeft, Waits, Written, vars
    <3> QED
        BY <3>1, <3>2 DEF ReleaseInv
  <2> QED
    BY <2>1, <2>2, <2>3
<1> QED
    BY <1>2, <1>3, PTL DEF Spec

\* Every buffer is released exactly once when the socket is freed, and never
\* twice; and the common counter gets the share of the socket back.  (With
\* files it is not so: run sendpath_stuck.)
THEOREM BufferReleasedOnceCorrect == ~Files => (Spec => []BufferReleasedOnce)
<1>1. ReleaseInv => BufferReleasedOnce
  <2>1. SUFFICES ASSUME ReleaseInv PROVE BufferReleasedOnce
    OBVIOUS
  <2>2. OneHolder /\ NothingLeft /\ Phases /\ TypeOK
    BY <2>1 DEF ReleaseInv, CountInv
  <2>3. ASSUME NEW x \in Items
        PROVE  /\ released[x] <= 1
               /\ state = "FREED" /\ x \in DOMAIN length => released[x] = 1
    <3>1. /\ x \notin DOMAIN length => released[x] = 0
          /\ x \in DOMAIN length => released[x] = IF Waits(x) \/ Written(x) THEN 0 ELSE 1
        BY <2>2 DEF OneHolder
    <3>2. state = "FREED" => ~Waits(x) /\ ~Written(x)
        BY <2>2 DEF NothingLeft, Waits, Written, Phases
    <3> QED
        BY <3>1, <3>2
  <2> QED
    BY <2>2, <2>3 DEF BufferReleasedOnce, NothingLeft
<1> QED
    BY <1>1, ReleaseAlways, PTL
=============================================================================
