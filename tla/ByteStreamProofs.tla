-------------------------- MODULE ByteStreamProofs --------------------------
(***************************************************************************)
(* SendPath implements ByteStream.                                         *)
(***************************************************************************)
EXTENDS SendPathProofs

-----------------------------------------------------------------------------
(* The inductive invariant.                                                *)

\* The packets of a list are what the bytes of s are behind the first `base'.
InPlace(s, list, base) ==
    \A k \in DOMAIN list : \A b \in 1 .. Left(list[k]) :
        s[base + Before(list, k) + b] = <<list[k].item, list[k].offset + b>>

\* How many bytes the slots before the i-th have left.
Ahead(i) == PartialSums(SlotLefts(slots))[i - 1]

\* What is left of the item being written.
ToWrite == IF pc = "write" THEN length[writing.item] - writing.t_bytes ELSE 0

\* The bytes accepted are those sent, and then those of the packets, in their
\* order; a shutdown is behind what was accepted before it.
Prefix == /\ Len(sent) <= Len(accepted)
          /\ \A j \in 1 .. Len(sent) : sent[j] = accepted[j]

\* The bytes of the packets, in the order of the slots.
PacketsInOrder == \A i \in DOMAIN slots :
                     InPlace(accepted, slots[i].list, Len(sent) + Ahead(i))

\* The bytes of the item being written: no packet is in front of them.
WriteInOrder ==
    \A b \in 1 .. ToWrite :
        accepted[Len(sent) + b] = <<writing.item, writing.t_bytes + b>>

\* A queued shutdown is behind all that was accepted before it.
ShutdownsBehind ==
    \A i \in DOMAIN slots :
        Active(slots[i]) /\ Type(slots[i]) = {"SHUTDOWN"}
            => asked >= 0 /\ asked <= Len(sent) + Ahead(i)

\* What holds while the stream is open.
InOrder ==
    /\ ToWrite \in Nat
    /\ Len(accepted) = Len(sent) + SlotsLeft(slots) + ToWrite
    /\ PacketsInOrder /\ WriteInOrder /\ ShutdownsBehind

\* What holds always.
Streaming ==
    /\ ended = "no" <=> state = "ONLINE"
    /\ asked <= Len(accepted)
    /\ Prefix
    /\ state = "ONLINE" => InOrder

\* The inductive invariant.
StreamInv == CountInv /\ JobInv /\ Streaming

-----------------------------------------------------------------------------
(* The byte stream, without files, when a write in part blocks.            *)

\* Where a slot's bytes are among all that are left.
LEMMA SumsFrom ==
    ASSUME NEW ss \in Seq(Slot), OpenSlots(ss), NEW i \in 1 .. Len(ss)
    PROVE  /\ PartialSums(SlotLefts(ss))[i - 1] \in Nat /\ LeftIn(ss[i].list) \in Nat
           /\ SlotsLeft(ss) \in Nat
           /\ PartialSums(SlotLefts(ss))[i]
                 = PartialSums(SlotLefts(ss))[i - 1] + LeftIn(ss[i].list)
           /\ PartialSums(SlotLefts(ss))[i] <= SlotsLeft(ss)
           /\ (\A j \in i + 1 .. Len(ss) : ss[j].list = <<>>)
              => PartialSums(SlotLefts(ss))[i] = SlotsLeft(ss)
<1> DEFINE f == SlotLefts(ss)
<1>1. /\ f \in Seq(Nat) /\ Len(f) = Len(ss) /\ Len(ss) \in Nat
      /\ \A j \in 1 .. Len(ss) : f[j] = LeftIn(ss[j].list) /\ LeftIn(ss[j].list) \in Nat
      /\ SlotsLeft(ss) = SumOf(f) /\ SlotsLeft(ss) \in Nat
    BY SlotLeftsType DEF SlotsLeft
<1> HIDE DEF f
<1>2. /\ i \in 1 .. Len(f) /\ i \in 0 .. Len(f) /\ i - 1 \in 0 .. Len(f)
      /\ Len(f) \in i .. Len(f)
    BY <1>1
<1>3. /\ PartialSums(f)[i - 1] \in Nat
      /\ PartialSums(f)[i] = PartialSums(f)[i - 1] + f[i]
    BY <1>1, <1>2, SumsDef
<1>4. PartialSums(f)[i] <= PartialSums(f)[Len(f)]
    BY <1>1, <1>2, SumsMonotone
<1>5. ASSUME \A j \in i + 1 .. Len(ss) : ss[j].list = <<>>
      PROVE  PartialSums(f)[Len(f)] = PartialSums(f)[i]
  <2>1. \A j \in i + 1 .. Len(f) : f[j] = 0
    <3>1. \A j \in i + 1 .. Len(f) : j \in i + 1 .. Len(ss) /\ j \in 1 .. Len(ss)
        BY <1>1, <1>2
    <3> QED
        BY <1>1, <1>5, <3>1, EmptyList
  <2> QED
    BY <1>1, <1>2, <2>1, SumsOfZeros
<1> QED
    BY <1>1, <1>3, <1>4, <1>5 DEF SumOf, f

\* When the first slot is not active, nothing waits.
LEMMA NoJobs ==
    ASSUME CountInv, JobInv, ~Active(slots[1])
    PROVE  /\ \A i \in DOMAIN slots : ~Active(slots[i]) /\ slots[i].list = <<>>
           /\ SlotsLeft(slots) = 0
<1>1. slots \in Seq(Slot) /\ OpenSlots(slots) /\ 1 \in 1 .. Len(slots)
      /\ Len(slots) \in Nat
    BY DEF CountInv, TypeOK
<1>2. PICK n \in 0 .. Len(slots) : JobList(n) /\ (Active(slots[1]) <=> n > 0)
    BY JobFacts
<1>3. n = 0
    BY <1>2
<1>4. \A i \in DOMAIN slots : ~Active(slots[i])
    BY <1>1, <1>2, <1>3 DEF JobList
<1>5. \A i \in DOMAIN slots : slots[i].list = <<>>
    BY <1>4 DEF JobInv, ListsInJobs
<1>6. \A j \in 1 + 1 .. Len(slots) : slots[j].list = <<>>
    BY <1>1, <1>5
<1>7. /\ PartialSums(SlotLefts(slots))[1] = LeftIn(slots[1].list)
      /\ SlotsLeft(slots) = PartialSums(SlotLefts(slots))[1]
    BY <1>1, <1>6, HeadLeft, SumsFrom
<1> QED
    BY <1>1, <1>4, <1>5, <1>7, EmptyList

-----------------------------------------------------------------------------
(* The packets of a list in place.                                         *)

\* Where the bytes of a packet are among those of its list.
LEMMA ListBytes ==
    ASSUME NEW list \in Seq(Packet), Open(list), NEW k \in 1 .. Len(list),
           NEW b \in 1 .. Left(list[k])
    PROVE  /\ Before(list, k) \in Nat /\ b \in Nat \ {0} /\ LeftIn(list) \in Nat
           /\ Left(list[k]) \in Nat
           /\ Before(list, k) + b <= LeftIn(list)
<1>1. Len(list) \in Nat /\ k \in 1 .. Len(list) + 1 /\ k + 1 \in 1 .. Len(list) + 1
    OBVIOUS
<1>2. /\ LeftIn(list) \in Nat
      /\ Before(list, k) \in 0 .. LeftIn(list) /\ Before(list, k + 1) \in 0 .. LeftIn(list)
      /\ Left(list[k]) \in Nat
      /\ Before(list, k + 1) = Before(list, k) + Left(list[k])
    BY <1>1, BeforeDef
<1>3. PICK x \in Nat, y \in Nat, z \in Nat :
         x = Before(list, k) /\ y = Left(list[k]) /\ z = LeftIn(list)
    BY <1>2
<1>4. x + y <= z
    BY <1>2, <1>3
<1>5. b \in 1 .. y
    BY <1>3
<1>6. b \in Nat \ {0} /\ x + b <= z
    BY <1>3, <1>4, <1>5
<1> QED
    BY <1>3, <1>6

\* They stay in place when more bytes come behind.
LEMMA InPlaceMore ==
    ASSUME NEW list \in Seq(Packet), Open(list), NEW base \in Nat,
           NEW s, NEW t, Len(s) \in Nat, base + LeftIn(list) <= Len(s),
           \A j \in 1 .. Len(s) : t[j] = s[j], InPlace(s, list, base)
    PROVE  InPlace(t, list, base)
<1>1. SUFFICES ASSUME NEW k \in 1 .. Len(list), NEW b \in 1 .. Left(list[k])
               PROVE  t[base + Before(list, k) + b]
                          = <<list[k].item, list[k].offset + b>>
    BY DEF InPlace
<1>2. /\ Before(list, k) \in Nat /\ b \in Nat \ {0} /\ LeftIn(list) \in Nat
      /\ Before(list, k) + b <= LeftIn(list)
    BY ListBytes
<1>3. base + Before(list, k) + b \in 1 .. Len(s)
    BY <1>2
<1>4. s[base + Before(list, k) + b] = <<list[k].item, list[k].offset + b>>
    BY DEF InPlace
<1> QED
    BY <1>3, <1>4

\* A packet more is in place when its bytes come behind those of the others.
LEMMA InPlaceAppend ==
    ASSUME NEW list \in Seq(Packet), Open(list), NEW base \in Nat,
           NEW p \in Packet, p.offset < p.len, NEW longer, longer = Append(list, p),
           NEW s, InPlace(s, list, base),
           \A b \in 1 .. Left(p) :
              s[base + LeftIn(list) + b] = <<p.item, p.offset + b>>
    PROVE  InPlace(s, longer, base)
<1>1. /\ longer \in Seq(Packet) /\ Len(longer) = Len(list) + 1
      /\ \A k \in 1 .. Len(list) : longer[k] = list[k]
      /\ longer[Len(list) + 1] = p
      /\ \A k \in 1 .. Len(list) + 1 : Before(longer, k) = Before(list, k)
  <2>1. longer \in Seq(Packet) /\ Len(longer) = Len(list) + 1
    OBVIOUS
  <2>2. \A k \in 1 .. Len(list) : longer[k] = list[k]
    OBVIOUS
  <2>3. longer[Len(list) + 1] = p
    OBVIOUS
  <2>4. \A k \in 1 .. Len(list) + 1 : Before(longer, k) = Before(list, k)
    BY AppendLeft
  <2> QED
    BY <2>1, <2>2, <2>3, <2>4
<1>2. Len(list) \in Nat /\ Before(list, Len(list) + 1) = LeftIn(list)
    BY BeforeDef
<1>3. SUFFICES ASSUME NEW k \in 1 .. Len(list) + 1, NEW b \in 1 .. Left(longer[k])
               PROVE  s[base + Before(longer, k) + b]
                          = <<longer[k].item, longer[k].offset + b>>
    BY <1>1 DEF InPlace
<1>4. CASE k = Len(list) + 1
  <2>1. longer[k] = p /\ Before(longer, k) = LeftIn(list)
    BY <1>1, <1>2, <1>4
  <2> QED
    BY <2>1
<1>5. CASE k \in 1 .. Len(list)
  <2>1. longer[k] = list[k] /\ Before(longer, k) = Before(list, k) /\ k \in DOMAIN list
    BY <1>1, <1>2, <1>5
  <2> QED
    BY <2>1 DEF InPlace
<1> QED
    BY <1>2, <1>4, <1>5

\* No packet is anywhere.
LEMMA InPlaceEmpty ==
    ASSUME NEW s, NEW base PROVE InPlace(s, <<>>, base)
BY DEF InPlace

\* The bytes on the wire are those in place.
LEMMA InPlaceWire ==
    ASSUME NEW list \in Seq(Packet), Open(list), NEW base \in Nat,
           NEW s, InPlace(s, list, base)
    PROVE  \A j \in 1 .. LeftIn(list) : Wire(list)[j] = s[base + j]
<1>1. SUFFICES ASSUME NEW j \in 1 .. LeftIn(list)
               PROVE  Wire(list)[j] = s[base + j]
    OBVIOUS
<1>2. PICK k \in 1 .. Len(list) :
         /\ j - Before(list, k) \in 1 .. Left(list[k])
         /\ Wire(list)[j] = <<list[k].item, list[k].offset + j - Before(list, k)>>
    BY WireDef
<1>3. Len(list) \in Nat /\ LeftIn(list) \in Nat /\ k \in 1 .. Len(list) + 1
      /\ Before(list, k) \in Nat /\ k \in DOMAIN list /\ j \in Nat
    BY BeforeDef
<1>4. PICK x \in Nat : x = Before(list, k)
    BY <1>3
<1>5. PICK o \in Nat : o = list[k].offset
  <2>1. list[k] \in Packet
    OBVIOUS
  <2> QED
    BY <2>1 DEF Packet
<1>6. j - x \in 1 .. Left(list[k])
    BY <1>2, <1>4
<1>7. s[base + x + (j - x)] = <<list[k].item, o + (j - x)>>
    BY <1>3, <1>4, <1>5, <1>6 DEF InPlace
<1>8. base + x + (j - x) = base + j /\ o + (j - x) = o + j - x
    BY <1>3
<1> QED
    BY <1>2, <1>4, <1>5, <1>7, <1>8

\* What is left when n bytes are taken is in place behind them.
LEMMA InPlaceAfter ==
    ASSUME NEW list \in Seq(Packet), Open(list), NEW base \in Nat,
           NEW n \in 1 .. LeftIn(list), NEW s, InPlace(s, list, base)
    PROVE  InPlace(s, After(list, n), base + n)
<1> DEFINE first == FirstLeft(list, n)
           rest == After(list, n)
<1>1. LeftIn(list) \in Nat /\ Len(list) \in Nat /\ n \in Nat /\ n \in 0 .. LeftIn(list)
    BY BeforeDef
<1>2. /\ first \in 1 .. Len(list) + 1
      /\ Before(list, first) <= n
      /\ first <= Len(list) => n < Before(list, first) + Left(list[first])
    BY <1>1, FirstLeftDef
<1>3. /\ rest \in Seq(Packet) /\ Open(rest) /\ Len(rest) = Len(list) + 1 - first
      /\ \A k \in 1 .. Len(list) + 1 - first :
            /\ k + first - 1 \in 1 .. Len(list)
            /\ rest[k] = IF k = 1 THEN [list[first] EXCEPT
                                          !.offset = @ + n - Before(list, first)]
                                  ELSE list[k + first - 1]
    BY <1>1, AfterDef
<1>4. \A k \in 2 .. Len(list) + 1 - first :
         Before(rest, k) = Before(list, k + first - 1) - n
    BY <1>1, AfterBefore
<1>5. Before(rest, 1) = 0
    BY <1>3, BeforeDef
<1> HIDE DEF first, rest
<1>6. SUFFICES ASSUME NEW k \in 1 .. Len(rest), NEW b \in 1 .. Left(rest[k])
               PROVE  s[base + n + Before(rest, k) + b]
                          = <<rest[k].item, rest[k].offset + b>>
    BY DEF InPlace, rest
<1>7. /\ Before(rest, k) \in Nat /\ b \in Nat \ {0}
    BY <1>3, ListBytes
<1>8. CASE k = 1
  <2>1. first \in 1 .. Len(list) /\ rest[k] = [list[first] EXCEPT
                                                  !.offset = @ + n - Before(list, first)]
    BY SMTT(30), <1>1, <1>2, <1>3, <1>6, <1>8
  <2>2. list[first] \in Packet /\ first \in 1 .. Len(list) + 1
    BY <1>1, <2>1
  <2>3. Before(list, first) \in Nat
    BY <1>1, <2>2, BeforeDef
  <2>4. PICK x \in Nat : x = Before(list, first)
    BY <2>3
  <2>5. PICK o \in Nat, l \in Nat : o = list[first].offset /\ l = list[first].len
    BY <2>2 DEF Packet
  <2>6. rest[k].item = list[first].item /\ rest[k].offset = o + n - x /\ rest[k].len = l
    BY <2>1, <2>2, <2>4, <2>5 DEF Packet
  <2>7. Left(rest[k]) = l - (o + n - x) /\ Left(list[first]) = l - o
    BY <2>5, <2>6 DEF Left
  <2>8. x <= n
    BY <1>2, <2>4
  <2> DEFINE c == n - x + b
  <2>9. c \in 1 .. (l - o)
    <3>1. b \in 1 .. (l - (o + n - x))
        BY <2>7
    <3> QED
        BY <1>1, <1>7, <2>8, <3>1
  <2>10. base + x + c = base + n + 0 + b /\ o + c = (o + n - x) + b /\ c \in Nat
    BY <1>1, <1>7, <2>8, <2>9
  <2> HIDE DEF c
  <2>11. s[base + x + c] = <<list[first].item, o + c>>
    BY SMTT(30), <2>1, <2>4, <2>5, <2>7, <2>9 DEF InPlace
  <2> QED
    BY <1>5, <1>8, <2>6, <2>10, <2>11
<1>9. CASE k # 1
  <2> DEFINE m == k + first - 1
  <2>1. k \in 2 .. Len(list) + 1 - first /\ m \in 1 .. Len(list) /\ rest[k] = list[m]
    BY SMTT(30), <1>1, <1>2, <1>3, <1>6, <1>9
  <2>2. Before(rest, k) = Before(list, m) - n
    BY <1>4, <2>1
  <2> HIDE DEF m
  <2>3. b \in 1 .. Left(list[m]) /\ m \in DOMAIN list
    BY <2>1
  <2>4. Before(list, m) \in Nat
    BY <2>1, <2>3, ListBytes
  <2>5. PICK x \in Nat : x = Before(list, m)
    BY <2>4
  <2>6. base + x + b = base + n + Before(rest, k) + b
    BY <1>1, <1>7, <2>2, <2>5
  <2>7. s[base + x + b] = <<list[m].item, list[m].offset + b>>
    BY <2>3, <2>5 DEF InPlace
  <2> QED
    BY <2>1, <2>6, <2>7
<1> QED
    BY <1>8, <1>9

-----------------------------------------------------------------------------
(* Jobs queued.                                                            *)

\* Behind the slot where a job goes there is none.
LEMMA SpotLast ==
    ASSUME CountInv, JobInv, state = "ONLINE", pc # "jobs",
           NEW type \in {"WRITEV", "SHUTDOWN"}, NEW at, at = SlotIndex(type),
           type = "SHUTDOWN" => Busy
    PROVE  \A i \in 1 .. Len(slots) :
              i > at => ~Active(slots[i]) /\ slots[i].list = <<>>
<1>1. PICK n \in 0 .. Len(slots) : JobList(n) /\ (at = n \/ at = n + 1)
    BY JobSpot
<1>2. Len(slots) \in Nat /\ n \in Nat /\ DOMAIN slots = 1 .. Len(slots)
    BY DEF CountInv, TypeOK
<1>3. \A i \in 1 .. Len(slots) : Active(slots[i]) <=> i <= n
    BY <1>1, <1>2 DEF JobList
<1>4. \A i \in 1 .. Len(slots) : ~Active(slots[i]) => slots[i].list = <<>>
    BY <1>2 DEF JobInv, ListsInJobs
<1>5. \A i \in 1 .. Len(slots) : i > at => ~(i <= n)
    BY <1>1, <1>2
<1> QED
    BY <1>3, <1>4, <1>5

\* The slots whose lists stay are in order still when more bytes are accepted.
LEMMA SlotInPlace ==
    ASSUME CountInv, PacketsInOrder, NEW i \in 1 .. Len(slots), NEW t,
           sent \in Seq(Byte), Len(accepted) \in Nat,
           Len(sent) + SlotsLeft(slots) <= Len(accepted),
           \A j \in 1 .. Len(accepted) : t[j] = accepted[j]
    PROVE  InPlace(t, slots[i].list, Len(sent) + Ahead(i))
<1> DEFINE list == slots[i].list
           base == Len(sent) + Ahead(i)
<1>1. /\ slots \in Seq(Slot) /\ OpenSlots(slots) /\ slots[i] \in Slot
    BY DEF CountInv, TypeOK
<1>2. list \in Seq(Packet) /\ Open(list)
    BY <1>1 DEF Slot, OpenSlots
<1>3. /\ Ahead(i) \in Nat /\ LeftIn(list) \in Nat /\ SlotsLeft(slots) \in Nat
      /\ Ahead(i) + LeftIn(list) <= SlotsLeft(slots)
    BY <1>1, SumsFrom DEF Ahead
<1>4. InPlace(accepted, list, base)
    BY DEF PacketsInOrder
<1>5. base \in Nat /\ base + LeftIn(list) <= Len(accepted)
  <2>1. Len(sent) \in Nat
    OBVIOUS
  <2> QED
    BY <1>3, <2>1
<1> HIDE DEF list, base
<1>6. InPlace(t, list, base)
    BY <1>2, <1>4, <1>5, InPlaceMore
<1> QED
    BY <1>6 DEF list, base

\* The histories are sequences of bytes.
LEMMA Histories ==
    ASSUME TypeOK
    PROVE  /\ accepted \in Seq(Byte) /\ sent \in Seq(Byte)
           /\ Len(accepted) \in Nat /\ Len(sent) \in Nat /\ asked \in Int
BY DEF TypeOK, Byte

\* A packet queued: it comes behind all that wait, as its bytes do.
LEMMA QueueOrder ==
    ASSUME StreamInv, state = "ONLINE", pc # "jobs",
           length' \in Seq(Lengths \union {1}),
           NEW item \in DOMAIN length', item \in Items,
           NEW offset \in Nat, offset < length'[item],
           ape_socket_queue_data(item, offset),
           NEW at, at = SlotIndex("WRITEV"), NEW size, size = length'[item] - offset,
           NEW p, p = [item |-> item, len |-> length'[item], offset |-> offset],
           accepted' \in Seq(Byte), Len(accepted') = Len(sent) + SlotsLeft(slots) + size,
           Len(accepted) <= Len(accepted'),
           \A j \in 1 .. Len(accepted) : accepted'[j] = accepted[j],
           \A b \in 1 .. size :
              accepted'[Len(sent) + SlotsLeft(slots) + b] = <<item, offset + b>>,
           sent' = sent, asked' = asked, pc' # "write"
    PROVE  Prefix' /\ InOrder'
<1>1. /\ CountInv /\ JobInv /\ InOrder /\ Prefix
      /\ TypeOK /\ OpenSlots(slots) /\ SpareSlots
    BY DEF StreamInv, Streaming, CountInv
<1>2. /\ at \in {current, current + 1} /\ at \in 1 .. Len(slots')
      /\ slots' \in Seq(Slot) /\ Len(slots) <= Len(slots')
      /\ SlotAt(at) \in Slot
      /\ slots'[at].flags = SlotAt(at).flags \union {"ACTIVE", "WRITEV"}
      /\ p \in Packet /\ p.offset < p.len /\ Left(p) = size
      /\ slots'[at].list = Append(SlotAt(at).list, p)
      /\ \A i \in 1 .. Len(slots') : i # at => slots'[i] = SlotAt(i)
    BY SMTT(30), <1>1, QueueStep
<1>3. \A i \in 1 .. Len(slots) :
         i > at => ~Active(slots[i]) /\ slots[i].list = <<>>
    BY <1>1, SpotLast
<1>4. p.item = item /\ p.offset = offset
    OBVIOUS
<1>5. /\ slots \in Seq(Slot) /\ Len(slots) \in Nat /\ Len(slots') \in Nat /\ at \in Nat
      /\ DOMAIN slots' = 1 .. Len(slots') /\ current \in 1 .. Len(slots)
    BY SMTT(30), <1>1, <1>2 DEF TypeOK
<1>6. /\ accepted \in Seq(Byte) /\ sent \in Seq(Byte)
      /\ Len(accepted) \in Nat /\ Len(sent) \in Nat /\ asked \in Int
    BY <1>1, Histories
<1> DEFINE old == SlotAt(at).list
<1>7. /\ old \in Seq(Packet) /\ Open(old)
  <2>1. old \in Seq(Packet)
    BY <1>2 DEF Slot
  <2>2. CASE at \in 1 .. Len(slots)
    BY <1>1, <2>1, <2>2 DEF OpenSlots, SlotAt
  <2>3. CASE at \notin 1 .. Len(slots)
    BY <2>1, <2>3, EmptyList DEF SlotAt, EmptySlot
  <2> QED
    BY <2>1, <2>2, <2>3
<1>8. /\ OpenSlots(slots') /\ SlotsLeft(slots') = SlotsLeft(slots) + size
      /\ \A j \in 0 .. at - 1 : PartialSums(SlotLefts(slots'))[j]
            = IF j <= Len(slots) THEN PartialSums(SlotLefts(slots))[j] ELSE SlotsLeft(slots)
  <2>1. \A i \in 1 .. Len(slots') : i # at => slots'[i].list = SlotAt(i).list
    BY <1>2
  <2>2. old \in Seq(Packet) /\ slots'[at].list = Append(old, p)
    BY <1>2, <1>7
  <2>3. /\ OpenSlots(slots') /\ SlotsLeft(slots') = SlotsLeft(slots) + Left(p)
        /\ \A j \in 0 .. at - 1 : PartialSums(SlotLefts(slots'))[j]
             = IF j <= Len(slots) THEN PartialSums(SlotLefts(slots))[j] ELSE SlotsLeft(slots)
    BY <1>1, <1>2, <1>5, <2>1, <2>2, QueueLeft
  <2> QED
    BY <1>2, <2>3
<1> HIDE DEF old
<1>9. slots'[at].list = Append(old, p)
    BY <1>2 DEF old
<1>10. \A i \in 1 .. Len(slots') : i < at => i \in 1 .. Len(slots) /\ slots'[i] = slots[i]
                                            /\ Ahead(i)' = Ahead(i)
  <2>1. SUFFICES ASSUME NEW i \in 1 .. Len(slots'), i < at
                 PROVE  i \in 1 .. Len(slots) /\ slots'[i] = slots[i] /\ Ahead(i)' = Ahead(i)
    OBVIOUS
  <2>2. i \in 1 .. Len(slots) /\ i - 1 \in 0 .. at - 1 /\ i - 1 <= Len(slots)
    BY SMTT(30), <1>2, <1>5, <2>1
  <2>3. slots'[i] = slots[i]
    <3>1. SlotAt(i) = slots[i]
      BY <2>2 DEF SlotAt
    <3>2. i # at
      BY <1>5, <2>1
    <3> QED
      BY <1>2, <3>1, <3>2
  <2>4. PartialSums(SlotLefts(slots'))[i - 1] = PartialSums(SlotLefts(slots))[i - 1]
    BY <1>8, <2>2
  <2> QED
    BY <2>2, <2>3, <2>4 DEF Ahead
<1>11. \A i \in 1 .. Len(slots') : i > at => slots'[i].list = <<>> /\ ~Active(slots'[i])
  <2>1. SUFFICES ASSUME NEW i \in 1 .. Len(slots'), i > at
                 PROVE  slots'[i].list = <<>> /\ ~Active(slots'[i])
    OBVIOUS
  <2>2. slots'[i] = SlotAt(i)
    BY <1>2, <2>1
  <2>3. CASE i \in 1 .. Len(slots)
    BY <1>3, <2>1, <2>2, <2>3 DEF SlotAt
  <2>4. CASE i \notin 1 .. Len(slots)
    BY <2>2, <2>4 DEF SlotAt, EmptySlot, Active
  <2> QED
    BY <2>3, <2>4
<1>12. /\ Ahead(at)' \in Nat /\ LeftIn(old) \in Nat /\ SlotsLeft(slots) \in Nat
       /\ Ahead(at)' + LeftIn(old) = SlotsLeft(slots) /\ size \in Nat
  <2>1. /\ Ahead(at)' \in Nat /\ LeftIn(slots'[at].list) \in Nat
        /\ SlotsLeft(slots') = Ahead(at)' + LeftIn(slots'[at].list)
    <3>1. \A j \in at + 1 .. Len(slots') : slots'[j].list = <<>>
      <4>1. \A j \in at + 1 .. Len(slots') : j \in 1 .. Len(slots') /\ j > at
        BY <1>2, <1>5
      <4> QED
        BY <1>11, <4>1
    <3>2. /\ PartialSums(SlotLefts(slots'))[at - 1] \in Nat
          /\ LeftIn(slots'[at].list) \in Nat
          /\ PartialSums(SlotLefts(slots'))[at]
                = PartialSums(SlotLefts(slots'))[at - 1] + LeftIn(slots'[at].list)
          /\ PartialSums(SlotLefts(slots'))[at] = SlotsLeft(slots')
      BY <1>2, <1>8, <3>1, SumsFrom
    <3> QED
      BY <3>2 DEF Ahead
  <2>2. LeftIn(slots'[at].list) = LeftIn(old) + size
    <3> DEFINE longer == slots'[at].list
    <3>1. longer = Append(old, p)
      BY <1>9
    <3> HIDE DEF longer
    <3>2. LeftIn(longer) = LeftIn(old) + Left(p)
      BY <1>2, <1>7, <3>1, AppendLeft
    <3> QED
      BY <1>2, <3>2 DEF longer
  <2>3. LeftIn(old) \in Nat /\ SlotsLeft(slots) \in Nat
    BY <1>1, <1>5, <1>7, BeforeDef, SlotLeftsType
  <2>4. size \in Nat
    <3>1. length'[item] \in Nat
      <4>1. length'[item] \in Lengths \union {1}
        OBVIOUS
      <4>2. \A x \in Lengths \union {1} : x \in Nat
        BY SendPathAssumption
      <4> QED
        BY <4>1, <4>2
    <3> QED
      BY <3>1
  <2>5. PICK a \in Nat, l \in Nat, all \in Nat, n \in Nat :
           a = Ahead(at)' /\ l = LeftIn(old) /\ all = SlotsLeft(slots) /\ n = size
    BY <2>1, <2>3, <2>4
  <2>6. SlotsLeft(slots') = all + n /\ SlotsLeft(slots') = a + (l + n)
    BY <1>8, <2>1, <2>2, <2>5
  <2>7. a + l = all
    <3>1. all + n = a + (l + n)
      BY <2>6, Zenon
    <3> QED
      BY <3>1
  <2> QED
    BY <2>1, <2>3, <2>4, <2>5, <2>7
<1>13. Len(sent) + SlotsLeft(slots) <= Len(accepted)
  <2>1. /\ ToWrite \in Nat /\ Len(accepted) = Len(sent) + SlotsLeft(slots) + ToWrite
    BY <1>1 DEF InOrder
  <2> QED
    BY SMTT(30), <1>6, <1>12, <2>1
<1>14. \A i \in 1 .. Len(slots) :
          InPlace(accepted', slots[i].list, Len(sent) + Ahead(i))
  <2>1. PacketsInOrder
    BY <1>1 DEF InOrder
  <2> DEFINE t == accepted'
  <2>2. \A j \in 1 .. Len(accepted) : t[j] = accepted[j]
    OBVIOUS
  <2> HIDE DEF t
  <2>3. \A i \in 1 .. Len(slots) : InPlace(t, slots[i].list, Len(sent) + Ahead(i))
    BY <1>1, <1>6, <1>13, <2>1, <2>2, SlotInPlace
  <2> QED
    BY <2>3 DEF t
<1>15. InPlace(accepted', slots'[at].list, Len(sent) + Ahead(at)')
  <2> DEFINE t == accepted'
             base == Len(sent) + Ahead(at)'
             longer == slots'[at].list
  <2>1. InPlace(t, old, base)
    <3>1. CASE at \in 1 .. Len(slots)
      <4>1. old = slots[at].list
        BY <3>1 DEF old, SlotAt
      <4>2. at - 1 \in 0 .. at - 1 /\ at - 1 <= Len(slots)
        BY <1>5, <3>1
      <4>3. Ahead(at)' = Ahead(at)
        BY <1>8, <4>2 DEF Ahead
      <4> QED
        BY <1>14, <3>1, <4>1, <4>3
    <3>2. CASE at \notin 1 .. Len(slots)
      <4>1. old = <<>>
        BY <3>2 DEF old, SlotAt, EmptySlot
      <4> QED
        BY <4>1, InPlaceEmpty
    <3> QED
      BY <3>1, <3>2
  <2>2. base \in Nat /\ base + LeftIn(old) = Len(sent) + SlotsLeft(slots)
    BY SMTT(30), <1>6, <1>12
  <2>3. \A b \in 1 .. Left(p) : t[base + LeftIn(old) + b] = <<p.item, p.offset + b>>
    BY <1>2, <1>4, <2>2
  <2>4. longer = Append(old, p)
    BY <1>9
  <2> HIDE DEF t, base, longer
  <2>5. InPlace(t, longer, base)
    BY <1>2, <1>7, <2>1, <2>2, <2>3, <2>4, InPlaceAppend
  <2> QED
    BY <2>5 DEF t, base, longer
<1>16. PacketsInOrder'
  <2>1. SUFFICES ASSUME NEW i \in 1 .. Len(slots')
                 PROVE  InPlace(accepted', slots'[i].list, Len(sent) + Ahead(i)')
    BY <1>5 DEF PacketsInOrder
  <2>2. CASE i < at
    BY <1>10, <1>14, <2>2
  <2>3. CASE i = at
    BY <1>15, <2>3
  <2>4. CASE i > at
    BY <1>11, <2>4, InPlaceEmpty
  <2> QED
    BY <1>5, <2>2, <2>3, <2>4
<1>17. ShutdownsBehind'
  <2>1. SUFFICES ASSUME NEW i \in 1 .. Len(slots'), Active(slots'[i]),
                        Type(slots'[i]) = {"SHUTDOWN"}
                 PROVE  asked >= 0 /\ asked <= Len(sent) + Ahead(i)'
    BY <1>5 DEF ShutdownsBehind, Active, Type
  <2>2. i # at
    <3>1. "WRITEV" \in Type(slots'[at])
      <4>1. slots'[at].flags = SlotAt(at).flags \union {"ACTIVE", "WRITEV"}
        BY <1>2
      <4> QED
        BY <4>1 DEF Type
    <3> QED
      BY <2>1, <3>1
  <2>3. i < at
    BY <1>5, <1>11, <2>1, <2>2
  <2>4. i \in 1 .. Len(slots) /\ slots'[i] = slots[i] /\ Ahead(i)' = Ahead(i)
    BY <1>10, <2>3
  <2>5. ShutdownsBehind
    BY <1>1 DEF InOrder
  <2> QED
    BY SMTT(30), <2>1, <2>4, <2>5 DEF ShutdownsBehind
<1>18. ToWrite' = 0
    BY DEF ToWrite
<1>19. WriteInOrder'
    BY <1>18 DEF WriteInOrder
<1>20. Prefix'
  <2>1. Len(sent) <= Len(accepted) /\ \A j \in 1 .. Len(sent) : sent[j] = accepted[j]
    BY <1>1 DEF Prefix
  <2>2. \A j \in 1 .. Len(sent) : j \in 1 .. Len(accepted)
    BY <1>6, <2>1
  <2>3. Len(sent) <= Len(accepted')
    BY <1>6, <1>12, <2>1
  <2> QED
    BY <2>1, <2>2, <2>3 DEF Prefix
<1>21. Len(accepted') = Len(sent') + SlotsLeft(slots') + ToWrite'
  <2>1. PICK all \in Nat, n \in Nat, m \in Nat :
           all = SlotsLeft(slots) /\ n = size /\ m = Len(sent)
    BY <1>6, <1>12
  <2>2. Len(accepted') = m + all + n /\ SlotsLeft(slots') = all + n /\ Len(sent') = m
    BY <1>8, <2>1
  <2>3. m + all + n = m + (all + n) + 0
    OBVIOUS
  <2> QED
    BY <1>18, <2>2, <2>3
<1> QED
    BY <1>16, <1>17, <1>18, <1>19, <1>20, <1>21 DEF InOrder

\* A shutdown queued: it comes behind all that wait.
LEMMA ShutdownOrder ==
    ASSUME StreamInv, state = "ONLINE", pc # "jobs", pc # "write", pc' = pc, Busy,
           NEW at, at = SlotIndex("SHUTDOWN"),
           slots' = ape_socket_job_get_slot("SHUTDOWN"),
           accepted' = accepted, sent' = sent,
           asked' = IF asked = -1 THEN Len(accepted) ELSE asked
    PROVE  Prefix' /\ InOrder' /\ asked' <= Len(accepted')
<1>1. /\ CountInv /\ JobInv /\ InOrder /\ Prefix /\ asked <= Len(accepted)
      /\ TypeOK /\ OpenSlots(slots)
    BY DEF StreamInv, Streaming, CountInv
<1>2. /\ slots \in Seq(Slot) /\ Len(slots) \in Nat /\ current \in 1 .. Len(slots)
      /\ "SHUTDOWN" \in JobTypes
    BY <1>1 DEF TypeOK, JobTypes
<1>3. /\ at \in 1 .. Len(slots') /\ slots' \in Seq(Slot) /\ Len(slots) <= Len(slots')
      /\ slots'[at] = [SlotAt(at) EXCEPT !.flags = @ \union {"ACTIVE", "SHUTDOWN"}]
      /\ SlotAt(at) \in Slot
      /\ \A i \in 1 .. Len(slots') : i # at => slots'[i] = SlotAt(i)
    BY <1>2, GetSlot
<1>4. /\ Len(accepted) \in Nat /\ Len(sent) \in Nat /\ asked \in Nat \union {-1}
      /\ Len(slots') \in Nat /\ at \in Nat /\ DOMAIN slots' = 1 .. Len(slots')
    BY SMTT(30), <1>1, <1>3, Histories DEF TypeOK
<1>5. SlotAt(at).list = <<>>
    BY <1>1, JobSpot
<1>6. \A i \in 1 .. Len(slots) :
         i > at => ~Active(slots[i]) /\ slots[i].list = <<>>
    BY <1>1, SpotLast
<1>7. \A i \in 1 .. Len(slots') : slots'[i].list = SlotAt(i).list
  <2>1. slots'[at].list = SlotAt(at).list
    BY <1>3 DEF Slot
  <2> QED
    BY <1>3, <2>1
<1>8. /\ \A i \in 1 .. Len(slots) : SlotAt(i) = slots[i]
      /\ \A i \in Len(slots) + 1 .. Len(slots') : SlotAt(i) = EmptySlot
    BY <1>2 DEF SlotAt
<1>9. EmptySlot.list = <<>> /\ ~Active(EmptySlot)
    BY DEF EmptySlot, Active
<1>10. \A i \in 1 .. Len(slots') : i \in 1 .. Len(slots) \/ i \in Len(slots) + 1 .. Len(slots')
    BY <1>2, <1>4
<1>11. /\ OpenSlots(slots') /\ SlotsLeft(slots') = SlotsLeft(slots)
       /\ \A j \in 0 .. Len(slots) :
             PartialSums(SlotLefts(slots'))[j] = PartialSums(SlotLefts(slots))[j]
  <2> DEFINE tt == slots'
  <2>1. Extends(tt, slots)
    <3>1. \A i \in 1 .. Len(slots) : slots'[i].list = slots[i].list
      <4>1. \A i \in 1 .. Len(slots) : i \in 1 .. Len(slots')
        BY <1>2, <1>3, <1>4
      <4> QED
        BY <1>7, <1>8, <4>1
    <3>2. \A i \in Len(slots) + 1 .. Len(slots') : slots'[i].list = <<>>
      <4>1. \A i \in Len(slots) + 1 .. Len(slots') : i \in 1 .. Len(slots')
        BY <1>2, <1>4
      <4> QED
        BY <1>7, <1>8, <1>9, <4>1
    <3> QED
      BY <1>3, <3>1, <3>2 DEF Extends
  <2>2. tt \in Seq(Slot)
    BY <1>3
  <2> HIDE DEF tt
  <2>3. /\ OpenSlots(tt) /\ SlotsLeft(tt) = SlotsLeft(slots)
        /\ \A j \in 0 .. Len(slots) :
              PartialSums(SlotLefts(tt))[j] = PartialSums(SlotLefts(slots))[j]
    BY <1>1, <1>2, <2>1, <2>2, SlotsExtended
  <2> QED
    BY <2>3 DEF tt
<1>12. \A i \in 1 .. Len(slots) : Ahead(i)' = Ahead(i)
  <2>1. \A i \in 1 .. Len(slots) : i - 1 \in 0 .. Len(slots)
    BY <1>2
  <2> QED
    BY <1>11, <2>1 DEF Ahead
<1>13. Ahead(at)' = SlotsLeft(slots)
  <2>1. \A j \in at .. Len(slots') : slots'[j].list = <<>>
    <3>1. \A j \in at .. Len(slots') : j \in 1 .. Len(slots') /\ (j = at \/ j > at)
      BY <1>3, <1>4
    <3>2. SUFFICES ASSUME NEW j \in 1 .. Len(slots'), j > at
                   PROVE  SlotAt(j).list = <<>>
      BY <1>5, <1>7, <3>1
    <3>3. CASE j \in 1 .. Len(slots)
      BY <1>6, <1>8, <3>2, <3>3
    <3>4. CASE j \in Len(slots) + 1 .. Len(slots')
      BY <1>8, <1>9, <3>4
    <3> QED
      BY <1>10, <3>2, <3>3, <3>4
  <2>2. \A j \in at + 1 .. Len(slots') : slots'[j].list = <<>>
    <3>1. \A j \in at + 1 .. Len(slots') : j \in at .. Len(slots')
      BY <1>4
    <3> QED
      BY <2>1, <3>1
  <2>3. slots'[at].list = <<>>
    BY <1>5, <1>7, <1>3
  <2> DEFINE tt == slots'
  <2>4. tt \in Seq(Slot) /\ OpenSlots(tt) /\ at \in 1 .. Len(tt) /\ tt[at].list = <<>>
        /\ \A j \in at + 1 .. Len(tt) : tt[j].list = <<>>
    BY <1>3, <1>11, <2>2, <2>3
  <2> HIDE DEF tt
  <2>5. /\ PartialSums(SlotLefts(tt))[at - 1] \in Nat
        /\ PartialSums(SlotLefts(tt))[at]
              = PartialSums(SlotLefts(tt))[at - 1] + LeftIn(tt[at].list)
        /\ PartialSums(SlotLefts(tt))[at] = SlotsLeft(tt)
    BY <2>4, SumsFrom
  <2>6. LeftIn(tt[at].list) = 0
    BY <2>4, EmptyList
  <2>7. PartialSums(SlotLefts(tt))[at - 1] = SlotsLeft(tt)
    BY <2>5, <2>6
  <2> QED
    BY <1>11, <2>7 DEF Ahead, tt
<1>14. /\ PacketsInOrder /\ ShutdownsBehind
       /\ Len(accepted) = Len(sent) + SlotsLeft(slots) + ToWrite
    BY <1>1 DEF InOrder
<1>15. ToWrite = 0 /\ ToWrite' = 0
    BY DEF ToWrite
<1>16. PacketsInOrder'
  <2>1. SUFFICES ASSUME NEW i \in 1 .. Len(slots')
                 PROVE  InPlace(accepted, SlotAt(i).list, Len(sent) + Ahead(i)')
    BY <1>4, <1>7 DEF PacketsInOrder
  <2>2. CASE i \in 1 .. Len(slots)
    BY <1>2, <1>8, <1>12, <1>14, <2>2 DEF PacketsInOrder
  <2>3. CASE i \in Len(slots) + 1 .. Len(slots')
    BY <1>8, <1>9, <2>3, InPlaceEmpty
  <2> QED
    BY <1>10, <2>2, <2>3
<1>17. ShutdownsBehind'
  <2>1. SUFFICES ASSUME NEW i \in 1 .. Len(slots'), Active(slots'[i]),
                        Type(slots'[i]) = {"SHUTDOWN"}
                 PROVE  asked' >= 0 /\ asked' <= Len(sent) + Ahead(i)'
    BY <1>4 DEF ShutdownsBehind, Active, Type
  <2>2. CASE i = at
    <3>1. Len(accepted) = Len(sent) + SlotsLeft(slots)
      <4>1. SlotsLeft(slots) \in Nat
        BY <1>1, <1>2, SlotLeftsType
      <4> QED
        BY <1>4, <1>14, <1>15, <4>1
    <3>2. Ahead(i)' = SlotsLeft(slots)
      BY <1>13, <2>2
    <3>3. asked' >= 0 /\ asked' <= Len(accepted)
      BY <1>1, <1>4
    <3> QED
      BY <3>1, <3>2, <3>3
  <2>3. CASE i # at
    <3>1. slots'[i] = SlotAt(i)
      BY <1>3, <2>3
    <3>2. i \in 1 .. Len(slots)
      BY <1>8, <1>9, <1>10, <2>1, <3>1
    <3>3. Active(slots[i]) /\ Type(slots[i]) = {"SHUTDOWN"}
      BY <1>8, <2>1, <3>1, <3>2
    <3>4. asked >= 0 /\ asked <= Len(sent) + Ahead(i)
      BY <1>2, <1>14, <3>2, <3>3 DEF ShutdownsBehind
    <3>5. asked' = asked
      BY <1>4, <3>4
    <3> QED
      BY <1>12, <3>2, <3>4, <3>5
  <2> QED
    BY <2>2, <2>3
<1>18. WriteInOrder'
    BY <1>15 DEF WriteInOrder
<1>19. Len(accepted') = Len(sent') + SlotsLeft(slots') + ToWrite'
    BY <1>11, <1>14, <1>15
<1>20. Prefix'
    BY <1>1 DEF Prefix
<1>21. asked' <= Len(accepted')
    BY <1>1, <1>4
<1> QED
    BY <1>15, <1>16, <1>17, <1>18, <1>19, <1>20, <1>21 DEF InOrder

-----------------------------------------------------------------------------
(* The steps, one kind of step of the byte stream after the other.         *)

\* The stream is cut.
LEMMA StreamCut ==
    ASSUME StreamInv, state = "ONLINE", ape_shutdown("cut"),
           UNCHANGED <<accepted, sent, asked>>
    PROVE  Streaming' /\ Stream!Cut
<1>1. ended = "no" /\ asked <= Len(accepted) /\ Prefix
    BY DEF StreamInv, Streaming
<1>2. state' = "SHUTDOWN" /\ ended' = "cut"
    BY DEF ape_shutdown
<1>3. Streaming'
    BY <1>1, <1>2 DEF Streaming, Prefix
<1> QED
    BY <1>1, <1>2, <1>3 DEF Stream!Cut

\* A shutdown that has nothing to wait for, or no more.
LEMMA StreamEnd ==
    ASSUME StreamInv, state = "ONLINE", ape_shutdown("orderly"),
           UNCHANGED <<accepted, sent, asked>>,
           sent = accepted \/ (asked >= 0 /\ Len(sent) >= asked)
    PROVE  Streaming' /\ Stream!EndOrderly
<1>1. ended = "no" /\ asked <= Len(accepted) /\ Prefix
    BY DEF StreamInv, Streaming
<1>2. state' = "SHUTDOWN" /\ ended' = "orderly"
    BY DEF ape_shutdown
<1>3. Streaming'
    BY <1>1, <1>2 DEF Streaming, Prefix
<1> QED
    BY <1>1, <1>2, <1>3 DEF Stream!EndOrderly

\* A step the byte stream does not see.
LEMMA StreamKept ==
    ASSUME StreamInv, UNCHANGED Stream!vars, state' = "ONLINE" <=> state = "ONLINE",
           state = "ONLINE" => slots' = slots /\ ToWrite = 0 /\ ToWrite' = 0
    PROVE  Streaming'
<1>1. /\ accepted' = accepted /\ sent' = sent /\ asked' = asked /\ ended' = ended
    BY DEF Stream!vars
<1>2. ASSUME state' = "ONLINE" PROVE InOrder'
  <2>1. slots' = slots /\ ToWrite = 0 /\ ToWrite' = 0 /\ InOrder
    BY <1>2 DEF StreamInv, Streaming
  <2>2. PacketsInOrder' /\ ShutdownsBehind'
    BY <1>1, <2>1 DEF InOrder, PacketsInOrder, ShutdownsBehind, Ahead
  <2>3. WriteInOrder'
    BY <2>1 DEF WriteInOrder
  <2>4. Len(accepted') = Len(sent') + SlotsLeft(slots') + ToWrite'
    BY <1>1, <2>1 DEF InOrder
  <2> QED
    BY <2>1, <2>2, <2>3, <2>4 DEF InOrder
<1>3. Prefix' /\ asked' <= Len(accepted')
    BY <1>1 DEF StreamInv, Streaming, Prefix
<1>4. ended' = "no" <=> state' = "ONLINE"
    BY <1>1 DEF StreamInv, Streaming
<1> QED
    BY <1>2, <1>3, <1>4 DEF Streaming

\* The first bytes of an item.
LEMMA FirstBytes ==
    ASSUME NEW x \in Items, NEW n \in Nat \ {0}
    PROVE  \E t \in Seq(Byte) : /\ t = BytesOf(x, 1, n) /\ Len(t) = n
                               /\ \A k \in 1 .. n : t[k] = <<x, k>>
<1> DEFINE t == [k \in 1 .. n |-> <<x, k>>]
<1>1. t = BytesOf(x, 1, n)
  <2>1. n - 1 + 1 = n /\ \A k \in 1 .. n : 1 + k - 1 = k
    OBVIOUS
  <2> QED
    BY <2>1 DEF BytesOf
<1>2. \A k \in 1 .. n : <<x, k>> \in Byte
    BY DEF Byte
<1>3. t \in Seq(Byte) /\ Len(t) = n /\ \A k \in 1 .. n : t[k] = <<x, k>>
    BY <1>2
<1> HIDE DEF t
<1> QED
    BY <1>1, <1>3

\* Bytes taken.
LEMMA StreamAccept ==
    ASSUME TypeOK, ended = "no", NEW t \in Seq(Byte), Len(t) > 0,
           accepted' = accepted \o t, ended' \in {"no", "cut"},
           sent' = sent, asked' = asked
    PROVE  Stream!Accept
<1>1. accepted \in Seq(Byte) /\ Len(accepted) \in Nat /\ Len(t) \in Nat
    BY Histories
<1>2. Len(accepted') > Len(accepted)
    BY <1>1
<1>3. SubSeq(accepted', 1, Len(accepted)) = accepted
    BY <1>1
<1> QED
    BY <1>2, <1>3 DEF Stream!Accept

\* Bytes sent.
LEMMA StreamTransmit ==
    ASSUME TypeOK, ended = "no", Prefix', sent' \in Seq(Byte), Len(sent') > Len(sent),
           accepted' = accepted, asked' = asked, ended' = ended
    PROVE  Stream!Transmit
<1>1. /\ accepted \in Seq(Byte) /\ Len(accepted) \in Nat /\ Len(sent) \in Nat
      /\ Len(sent') \in Nat
    BY Histories
<1>2. /\ Len(sent') <= Len(accepted)
      /\ \A j \in 1 .. Len(sent') : sent'[j] = accepted[j]
    BY DEF Prefix
<1>3. Len(sent') \in Len(sent) + 1 .. Len(accepted)
    BY <1>1, <1>2
<1>4. sent' = SubSeq(accepted, 1, Len(sent'))
  <2> DEFINE s == sent'
  <2>1. s \in Seq(Byte) /\ Len(s) \in Nat /\ Len(s) <= Len(accepted)
        /\ \A j \in 1 .. Len(s) : s[j] = accepted[j]
    BY <1>1, <1>2
  <2> HIDE DEF s
  <2>2. s = SubSeq(accepted, 1, Len(s))
    BY <1>1, <2>1
  <2> QED
    BY <2>2 DEF s
<1> QED
    BY <1>3, <1>4 DEF Stream!Transmit

\* When nothing waits and no write is tried, all that was accepted is sent.
LEMMA AllSent ==
    ASSUME StreamInv, state = "ONLINE", ~Active(slots[1]), pc # "write"
    PROVE  Len(accepted) = Len(sent) /\ accepted = sent
<1>1. /\ CountInv /\ JobInv /\ InOrder /\ Prefix /\ TypeOK
    BY DEF StreamInv, Streaming, CountInv
<1>2. SlotsLeft(slots) = 0 /\ ToWrite = 0
    BY <1>1, NoJobs DEF ToWrite
<1>3. /\ accepted \in Seq(Byte) /\ sent \in Seq(Byte)
      /\ Len(accepted) \in Nat /\ Len(sent) \in Nat
    BY <1>1, Histories
<1>4. Len(accepted) = Len(sent)
    BY <1>1, <1>2, <1>3 DEF InOrder
<1>5. \A j \in 1 .. Len(sent) : sent[j] = accepted[j]
    BY <1>1 DEF Prefix
<1> QED
    BY <1>3, <1>4, <1>5

\* APE_socket_write starts to write.
LEMMA StreamStarts ==
    ASSUME StreamInv, WriteStarts
    PROVE  Streaming' /\ Stream!Accept
<1>1. /\ CountInv /\ JobInv /\ Prefix /\ TypeOK /\ ended = "no" /\ state = "ONLINE"
      /\ asked <= Len(accepted)
    BY DEF StreamInv, Streaming, CountInv, WriteStarts
<1>2. PICK len \in Lengths : Given(len) /\ accepted' = accepted \o BytesOf(Item, 1, len)
    BY DEF WriteStarts
<1>3. /\ Item \in Items /\ length'[Item] = len /\ len \in Nat \ {0}
      /\ pc \in {"user", "drain"}
    BY <1>1, <1>2, GivenItem
<1>4. PICK x \in Items : x = Item
    BY <1>3
<1>5. PICK t \in Seq(Byte) : /\ t = BytesOf(x, 1, len) /\ Len(t) = len
                             /\ \A k \in 1 .. len : t[k] = <<x, k>>
    BY <1>3, FirstBytes
<1>6. accepted' = accepted \o t
    BY <1>2, <1>4, <1>5
<1>7. /\ accepted \in Seq(Byte) /\ Len(accepted) \in Nat /\ Len(sent) \in Nat
      /\ asked \in Int
    BY <1>1, Histories
<1>8. /\ Len(accepted') = Len(accepted) + len
      /\ \A k \in 1 .. Len(accepted) : accepted'[k] = accepted[k]
      /\ \A k \in 1 .. len : accepted'[Len(accepted) + k] = t[k]
    BY <1>5, <1>6, <1>7, MoreBytes
<1>9. ~Active(slots[1])
    BY DEF WriteStarts, Busy
<1>10. Len(accepted) = Len(sent)
    BY <1>1, <1>3, <1>9, AllSent
<1>11. /\ pc' = "write" /\ writing' = [item |-> x, t_bytes |-> 0]
       /\ state' = state /\ slots' = slots /\ sent' = sent /\ asked' = asked
       /\ ended' = ended
    BY <1>4 DEF WriteStarts
<1>12. ToWrite' = len
    BY <1>3, <1>4, <1>11 DEF ToWrite
<1>13. WriteInOrder'
  <2>1. \A b \in 1 .. len : accepted'[Len(sent) + b] = <<x, 0 + b>>
    <3>1. \A b \in 1 .. len : 0 + b = b
      OBVIOUS
    <3>2. \A b \in 1 .. len : accepted'[Len(sent) + b] = <<x, b>>
      BY <1>5, <1>8, <1>10, Zenon
    <3> QED
      BY <3>1, <3>2
  <2> QED
    BY <1>11, <1>12, <2>1 DEF WriteInOrder
<1>14. /\ \A i \in DOMAIN slots : ~Active(slots[i]) /\ slots[i].list = <<>>
       /\ SlotsLeft(slots) = 0
    BY <1>1, <1>9, NoJobs
<1>15. PacketsInOrder' /\ ShutdownsBehind'
  <2>1. PacketsInOrder'
    BY <1>11, <1>14, InPlaceEmpty DEF PacketsInOrder
  <2>2. ShutdownsBehind'
    BY <1>11, <1>14 DEF ShutdownsBehind, Active
  <2> QED
    BY <2>1, <2>2
<1>16. Len(accepted') = Len(sent') + SlotsLeft(slots') + ToWrite'
    BY <1>3, <1>7, <1>8, <1>10, <1>11, <1>12, <1>14
<1>17. InOrder'
    BY <1>3, <1>12, <1>13, <1>15, <1>16 DEF InOrder
<1>18. Prefix'
  <2>1. \A j \in 1 .. Len(sent) : sent[j] = accepted[j]
    BY <1>1 DEF Prefix
  <2> QED
    BY <1>3, <1>7, <1>8, <1>10, <1>11, <2>1 DEF Prefix
<1>19. asked' <= Len(accepted') /\ (ended' = "no" <=> state' = "ONLINE")
    BY <1>1, <1>3, <1>7, <1>8, <1>11
<1>20. Stream!Accept
  <2>1. Len(t) > 0 /\ ended' \in {"no", "cut"} /\ sent' = sent /\ asked' = asked
    BY <1>1, <1>3, <1>5, <1>11
  <2> QED
    BY <1>1, <1>6, <2>1, StreamAccept, Zenon
<1> QED
    BY <1>17, <1>18, <1>19, <1>20 DEF Streaming

\* APE_socket_write writes.
LEMMA StreamWrites ==
    ASSUME StreamInv, Whole, WriteSome
    PROVE  Streaming' /\ Stream!Transmit
<1>1. /\ CountInv /\ JobInv /\ Prefix /\ TypeOK /\ ended = "no" /\ state = "ONLINE"
      /\ asked <= Len(accepted) /\ InOrder
    BY DEF StreamInv, Streaming, CountInv, WriteSome, Phases
<1>2. /\ pc = "write" /\ pc' = "write" /\ writing.t_bytes = 0
      /\ state' = state /\ slots' = slots /\ length' = length
      /\ accepted' = accepted /\ asked' = asked /\ ended' = ended
    BY DEF WriteSome
<1>3. PICK n \in 1 .. length[writing.item] :
         /\ sent' = sent \o BytesOf(writing.item, writing.t_bytes + 1,
                                    writing.t_bytes + n)
         /\ writing' = [writing EXCEPT !.t_bytes = @ + n]
    BY DEF WriteSome
<1>4. PICK len \in Nat : len = length[writing.item]
  <2>1. length[writing.item] \in Lengths \union {1}
    BY <1>1, <1>2 DEF CountInv, Phases, TypeOK
  <2>2. \A y \in Lengths \union {1} : y \in Nat
    BY SendPathAssumption
  <2> QED
    BY <2>1, <2>2
<1>5. PICK x \in Items : x = writing.item
  <2>1. writing.item \in DOMAIN length /\ length \in Seq(Lengths \union {1})
        /\ writing.item \in Items \union {0}
    BY <1>1, <1>2 DEF CountInv, Phases, TypeOK
  <2>2. writing.item # 0
    BY <2>1
  <2> QED
    BY <2>1, <2>2
<1>6. n \in 1 .. len /\ n \in Nat
    BY <1>3, <1>4
<1>7. writing' = [item |-> x, t_bytes |-> n]
  <2>1. writing \in [item : Items \union {0}, t_bytes : Nat]
    BY <1>1 DEF TypeOK
  <2>2. writing = [item |-> x, t_bytes |-> 0]
    BY <1>2, <1>5, <2>1
  <2>3. writing' = [writing EXCEPT !.t_bytes = @ + n] /\ 0 + n = n
    BY <1>3, <1>6
  <2> QED
    BY <2>2, <2>3
<1>8. PICK t \in Seq(Byte) : /\ sent' = sent \o t /\ Len(t) = n
                             /\ \A k \in 1 .. n : t[k] = <<x, k>>
  <2>1. PICK t \in Seq(Byte) : /\ t = BytesOf(x, 1, n) /\ Len(t) = n
                             /\ \A k \in 1 .. n : t[k] = <<x, k>>
    BY <1>6, FirstBytes
  <2>3. 0 + 1 = 1 /\ 0 + n = n
    BY <1>6
  <2>4. sent' = sent \o BytesOf(x, 1, n)
    BY <1>2, <1>3, <1>5, <2>3
  <2> QED
    BY <2>1, <2>4
<1>9. /\ accepted \in Seq(Byte) /\ sent \in Seq(Byte)
      /\ Len(accepted) \in Nat /\ Len(sent) \in Nat
    BY <1>1, Histories
<1>10. /\ sent' \in Seq(Byte) /\ Len(sent') = Len(sent) + n
       /\ \A k \in 1 .. Len(sent) : sent'[k] = sent[k]
       /\ \A k \in 1 .. n : sent'[Len(sent) + k] = t[k]
    BY <1>8, <1>9, MoreBytes
<1>11. ToWrite = len /\ ToWrite' = len - n
    BY <1>2, <1>4, <1>5, <1>6, <1>7 DEF ToWrite
<1>12. ~Active(slots[1])
    BY <1>1, <1>2 DEF JobInv, Blocking
<1>13. /\ \A i \in DOMAIN slots : ~Active(slots[i]) /\ slots[i].list = <<>>
       /\ SlotsLeft(slots) = 0
    BY <1>1, <1>12, NoJobs
<1>14. /\ Len(accepted) = Len(sent) + 0 + len
       /\ \A b \in 1 .. len : accepted[Len(sent) + b] = <<x, b>>
  <2>1. /\ Len(accepted) = Len(sent) + SlotsLeft(slots) + ToWrite /\ WriteInOrder
    BY <1>1 DEF InOrder
  <2>2. \A b \in 1 .. len : accepted[Len(sent) + b] = <<x, 0 + b>>
    BY <1>2, <1>5, <1>11, <2>1 DEF WriteInOrder
  <2>3. \A b \in 1 .. len : 0 + b = b
    OBVIOUS
  <2> QED
    BY <1>11, <1>13, <2>1, <2>2, <2>3
<1>15. Prefix'
  <2>1. Len(sent') <= Len(accepted)
    BY <1>6, <1>9, <1>10, <1>14
  <2>2. ASSUME NEW j \in 1 .. Len(sent') PROVE sent'[j] = accepted[j]
    <3>1. CASE j \in 1 .. Len(sent)
      BY <1>1, <1>10, <3>1 DEF Prefix
    <3>2. CASE j \notin 1 .. Len(sent)
      <4>1. PICK k \in 1 .. n : j = Len(sent) + k
        <5>1. j - Len(sent) \in 1 .. n /\ j = Len(sent) + (j - Len(sent))
          BY <1>6, <1>9, <1>10, <3>2
        <5> QED
          BY <5>1
      <4>2. k \in 1 .. len
        BY <1>6
      <4> QED
        BY <1>8, <1>10, <1>14, <4>1, <4>2
    <3> QED
      BY <3>1, <3>2
  <2> QED
    BY <1>2, <2>1, <2>2 DEF Prefix
<1>16. WriteInOrder'
  <2>1. ASSUME NEW b \in 1 .. len - n
        PROVE  accepted[Len(sent') + b] = <<x, n + b>>
    <3>1. n + b \in 1 .. len /\ Len(sent') + b = Len(sent) + (n + b)
      BY <1>6, <1>9, <1>10
    <3> QED
      BY <1>14, <3>1
  <2> QED
    BY <1>2, <1>7, <1>11, <2>1 DEF WriteInOrder
<1>17. PacketsInOrder' /\ ShutdownsBehind'
  <2>1. PacketsInOrder'
    BY <1>2, <1>13, InPlaceEmpty DEF PacketsInOrder
  <2>2. ShutdownsBehind'
    BY <1>2, <1>13 DEF ShutdownsBehind, Active
  <2> QED
    BY <2>1, <2>2
<1>18. Len(accepted') = Len(sent') + SlotsLeft(slots') + ToWrite'
    BY <1>2, <1>6, <1>9, <1>10, <1>11, <1>13, <1>14
<1>19. InOrder'
  <2>1. ToWrite' \in Nat
    BY <1>6, <1>11
  <2> QED
    BY <1>16, <1>17, <1>18, <2>1 DEF InOrder
<1>20. Streaming'
    BY <1>1, <1>2, <1>15, <1>19 DEF Streaming
<1>21. Stream!Transmit
  <2>1. Len(sent') > Len(sent)
    BY <1>6, <1>9, <1>10
  <2> QED
    BY <1>1, <1>2, <1>10, <1>15, <2>1, StreamTransmit
<1> QED
    BY <1>20, <1>21

\* APE_socket_write queues.
LEMMA StreamQueued ==
    ASSUME StreamInv, WriteQueued
    PROVE  Streaming' /\ Stream!Accept
<1>1. /\ CountInv /\ JobInv /\ Prefix /\ TypeOK /\ ended = "no" /\ state = "ONLINE"
      /\ asked <= Len(accepted) /\ InOrder /\ OpenSlots(slots) /\ SpareSlots
    BY DEF StreamInv, Streaming, CountInv, WriteQueued
<1>2. PICK len \in Lengths : Given(len) /\ accepted' = accepted \o BytesOf(Item, 1, len)
    BY DEF WriteQueued
<1>3. /\ Item \in Items /\ Item \in DOMAIN length' /\ length'[Item] = len
      /\ length' \in Seq(Lengths \union {1}) /\ len \in Nat \ {0}
      /\ pc \in {"user", "drain"}
    BY <1>1, <1>2, GivenItem
<1>4. PICK x \in Items : x = Item
    BY <1>3
<1>5. PICK t \in Seq(Byte) : /\ t = BytesOf(x, 1, len) /\ Len(t) = len
                             /\ \A k \in 1 .. len : t[k] = <<x, k>>
    BY <1>3, FirstBytes
<1>6. accepted' = accepted \o t
    BY <1>2, <1>4, <1>5
<1>7. /\ accepted \in Seq(Byte) /\ Len(accepted) \in Nat /\ Len(sent) \in Nat
      /\ asked \in Int
    BY <1>1, Histories
<1>8. /\ accepted' \in Seq(Byte) /\ Len(accepted') = Len(accepted) + len
      /\ \A k \in 1 .. Len(accepted) : accepted'[k] = accepted[k]
      /\ \A k \in 1 .. len : accepted'[Len(accepted) + k] = t[k]
    BY <1>5, <1>6, <1>7, MoreBytes
<1>9. /\ pc' = pc /\ sent' = sent /\ asked' = asked
      /\ ape_socket_queue_data(x, 0)
    BY <1>4 DEF WriteQueued
<1>10. PICK all \in Nat : all = SlotsLeft(slots)
    BY <1>1, SlotLeftsType DEF TypeOK
<1>11. Len(accepted) = Len(sent) + all
  <2>1. ToWrite = 0 /\ Len(accepted) = Len(sent) + SlotsLeft(slots) + ToWrite
    BY <1>1, <1>3 DEF InOrder, ToWrite
  <2> QED
    BY <1>7, <1>10, <2>1
<1>12. /\ pc # "jobs" /\ pc' # "write" /\ x \in DOMAIN length' /\ length'[x] = len
       /\ 0 \in Nat /\ 0 < len /\ len = len - 0
    BY <1>3, <1>4, <1>9
<1>13. /\ Len(accepted') = Len(sent) + all + len /\ Len(accepted) <= Len(accepted')
       /\ \A b \in 1 .. len : accepted'[Len(sent) + all + b] = <<x, 0 + b>>
  <2>1. \A b \in 1 .. len : 0 + b = b
    OBVIOUS
  <2>2. \A b \in 1 .. len : accepted'[Len(sent) + all + b] = <<x, b>>
    BY <1>5, <1>8, <1>11, Zenon
  <2>3. Len(accepted') = Len(sent) + all + len /\ Len(accepted) <= Len(accepted')
    BY <1>3, <1>7, <1>8, <1>11
  <2> QED
    BY <2>1, <2>2, <2>3
<1>14. PICK at, p : /\ at = SlotIndex("WRITEV")
                    /\ p = [item |-> x, len |-> length'[x], offset |-> 0]
    OBVIOUS
<1>15. Prefix' /\ InOrder'
  <2>1. 0 < length'[x] /\ len = length'[x] - 0
    BY <1>12
  <2>2. /\ Len(accepted') = Len(sent) + SlotsLeft(slots) + len
        /\ \A b \in 1 .. len :
              accepted'[Len(sent) + SlotsLeft(slots) + b] = <<x, 0 + b>>
    BY <1>10, <1>13
  <2> QED
    BY <1>1, <1>3, <1>8, <1>9, <1>12, <1>13, <1>14, <2>1, <2>2, QueueOrder
<1>16. \/ state' = state /\ ended' = ended
       \/ ape_shutdown("cut")
    BY DEF WriteQueued, ape_socket_queue_data
<1>17. ended' \in {"no", "cut"} /\ (ended' = "no" <=> state' = "ONLINE")
    BY <1>1, <1>16 DEF ape_shutdown
<1>18. asked' <= Len(accepted')
    BY <1>1, <1>3, <1>7, <1>8, <1>9
<1>19. Stream!Accept
  <2>1. Len(t) > 0
    BY <1>3, <1>5
  <2> QED
    BY <1>1, <1>6, <1>9, <1>17, <2>1, StreamAccept, Zenon
<1> QED
    BY <1>15, <1>17, <1>18, <1>19 DEF Streaming

\* APE_socket_write queues the rest.
LEMMA StreamBlocks ==
    ASSUME StreamInv, WriteBlocks
    PROVE  Streaming' /\ (UNCHANGED Stream!vars \/ Stream!Cut)
<1>1. /\ CountInv /\ JobInv /\ Prefix /\ TypeOK /\ ended = "no" /\ state = "ONLINE"
      /\ asked <= Len(accepted) /\ InOrder /\ OpenSlots(slots) /\ SpareSlots
      /\ pc = "write"
    BY DEF StreamInv, Streaming, CountInv, Phases, WriteBlocks
<1>2. /\ length' = length /\ accepted' = accepted /\ sent' = sent /\ asked' = asked
      /\ pc' = "user" /\ writing.t_bytes < length[writing.item]
      /\ ape_socket_queue_data(writing.item, writing.t_bytes)
    BY DEF WriteBlocks
<1>3. /\ writing.item \in DOMAIN length /\ length \in Seq(Lengths \union {1})
      /\ writing.item \in Items \union {0} /\ writing.t_bytes \in Nat
    BY <1>1 DEF CountInv, Phases, TypeOK
<1>4. PICK x \in Items, from \in Nat : x = writing.item /\ from = writing.t_bytes
  <2>1. writing.item # 0
    BY <1>3
  <2> QED
    BY <1>3, <2>1
<1>5. PICK len \in Nat : len = length[x]
  <2>1. length[x] \in Lengths \union {1}
    BY <1>3, <1>4
  <2>2. \A y \in Lengths \union {1} : y \in Nat
    BY SendPathAssumption
  <2> QED
    BY <2>1, <2>2
<1>6. from < len
    BY <1>2, <1>4, <1>5
<1>7. PICK size \in Nat : size = len - from
    BY <1>6
<1>8. /\ accepted \in Seq(Byte) /\ Len(accepted) \in Nat /\ Len(sent) \in Nat
      /\ asked \in Int
    BY <1>1, Histories
<1>9. SlotsLeft(slots) = 0
  <2>1. ~Active(slots[1])
    BY <1>1 DEF JobInv, Blocking
  <2> QED
    BY <1>1, <2>1, NoJobs
<1>10. ToWrite = size
    BY <1>1, <1>4, <1>5, <1>7 DEF ToWrite
<1>11. /\ Len(accepted) = Len(sent) + SlotsLeft(slots) + size
       /\ \A b \in 1 .. size :
             accepted[Len(sent) + SlotsLeft(slots) + b] = <<x, from + b>>
  <2>1. Len(sent) + SlotsLeft(slots) = Len(sent)
    BY <1>8, <1>9
  <2>2. \A b \in 1 .. size : accepted[Len(sent) + b] = <<x, from + b>>
    BY <1>1, <1>4, <1>10 DEF InOrder, WriteInOrder
  <2>3. Len(accepted) = Len(sent) + SlotsLeft(slots) + size
    BY <1>1, <1>10 DEF InOrder
  <2> QED
    BY <2>1, <2>2, <2>3
<1>12. PICK at, p : /\ at = SlotIndex("WRITEV")
                    /\ p = [item |-> x, len |-> length'[x], offset |-> from]
    OBVIOUS
<1>13. Prefix' /\ InOrder'
  <2>1. /\ length' \in Seq(Lengths \union {1}) /\ x \in DOMAIN length'
        /\ from < length'[x] /\ size = length'[x] - from
        /\ ape_socket_queue_data(x, from) /\ pc # "jobs" /\ pc' # "write"
    BY <1>1, <1>2, <1>3, <1>4, <1>5, <1>6, <1>7
  <2>2. /\ accepted' \in Seq(Byte)
        /\ Len(accepted') = Len(sent) + SlotsLeft(slots) + size
        /\ Len(accepted) <= Len(accepted')
        /\ \A j \in 1 .. Len(accepted) : accepted'[j] = accepted[j]
        /\ \A b \in 1 .. size :
              accepted'[Len(sent) + SlotsLeft(slots) + b] = <<x, from + b>>
    BY <1>2, <1>8, <1>11
  <2> QED
    BY <1>1, <1>2, <1>12, <2>1, <2>2, QueueOrder
<1>14. \/ state' = state /\ ended' = ended
       \/ ape_shutdown("cut")
    BY <1>2 DEF ape_socket_queue_data
<1>15. ended' \in {"no", "cut"} /\ (ended' = "no" <=> state' = "ONLINE")
    BY <1>1, <1>14 DEF ape_shutdown
<1>16. asked' <= Len(accepted')
    BY <1>1, <1>2
<1>17. UNCHANGED Stream!vars \/ Stream!Cut
    BY <1>1, <1>2, <1>15 DEF Stream!vars, Stream!Cut
<1> QED
    BY <1>13, <1>15, <1>16, <1>17 DEF Streaming

\* What writev does with the slots: the head keeps the rest of its list in
\* front, or is done and behind all other jobs; these keep theirs and are
\* nearer by n bytes.
LEMMA WritevMoves ==
    ASSUME CountInv, JobInv, JobWritev
    PROVE  \E n \in 1 .. LeftIn(slots[1].list) :
              /\ sent' = sent \o SubSeq(Wire(slots[1].list), 1, n)
              /\ SlotsLeft(slots') = SlotsLeft(slots) - n /\ slots' \in Seq(Slot)
              /\ \A i \in 1 .. Len(slots') :
                    \/ slots'[i].list = <<>> /\ ~Active(slots'[i])
                    \/ /\ Type(slots'[i]) = {"WRITEV"} /\ Ahead(i)' = 0
                       /\ slots'[i].list = After(slots[1].list, n)
                    \/ \E j \in 1 .. Len(slots) : /\ slots'[i] = slots[j]
                                                  /\ Ahead(i)' = Ahead(j) - n
<1>1. TypeOK /\ OpenSlots(slots) /\ InJob({"WRITEV"})
    BY DEF CountInv, JobWritev
<1>2. PICK n \in 1 .. Offered(Job.list) :
          LET done == 1 .. FirstLeft(Job.list, n) - 1
              job  == [Job EXCEPT !.list = After(Job.list, n),
                                  !.spare = @ + Cardinality(done)]
          IN  /\ sent' = sent \o SubSeq(Wire(Job.list), 1, n)
              /\ buffered' = buffered - n
              /\ total' = total - n
              /\ released' = [i \in Items |-> released[i]
                                + Cardinality({k \in done : Job.list[k].item = i})]
              /\ IF job.list = <<>>
                 THEN JobDone(job)
                 ELSE /\ slots' = [slots EXCEPT ![1] = job]
                      /\ UNCHANGED <<current, njobs>>
    BY Zenon DEF JobWritev
<1> DEFINE done == 1 .. FirstLeft(Job.list, n) - 1
           job  == [Job EXCEPT !.list = After(Job.list, n),
                               !.spare = @ + Cardinality(done)]
<1>3. /\ sent' = sent \o SubSeq(Wire(Job.list), 1, n)
      /\ \/ job.list = <<>> /\ JobDone(job)
         \/ slots' = [slots EXCEPT ![1] = job]
    BY <1>2
<1>4. /\ Job = slots[1] /\ Job \in Slot
      /\ n \in 1 .. LeftIn(Job.list) /\ job \in Slot /\ job.list = After(Job.list, n)
      /\ job.flags = Job.flags /\ Open(job.list)
      /\ LeftIn(job.list) = LeftIn(Job.list) - n
    BY <1>1, WritevJob
<1>5. /\ slots \in Seq(Slot) /\ Len(slots) \in Nat /\ current \in 1 .. Len(slots)
      /\ 1 \in 1 .. Len(slots) /\ Active(slots[1]) /\ Type(slots[1]) = {"WRITEV"}
    BY <1>1, <1>4 DEF TypeOK, InJob
<1>6. PICK rest \in Slot : rest = job
    BY <1>4
<1> DEFINE list == slots[1].list
<1>7. /\ list \in Seq(Packet) /\ LeftIn(list) \in Nat /\ n \in 1 .. LeftIn(list)
      /\ rest.list = After(list, n) /\ Open(rest.list) /\ rest.list \in Seq(Packet)
      /\ LeftIn(rest.list) = LeftIn(list) - n
      /\ rest.flags = slots[1].flags /\ SlotsLeft(slots) \in Nat
  <2>1. LeftIn(list) \in Nat /\ SlotsLeft(slots) \in Nat
    BY <1>1, <1>5, HeadLeft
  <2>2. list \in Seq(Packet) /\ rest.list \in Seq(Packet)
    BY <1>4, <1>6 DEF Slot
  <2> QED
    BY <1>4, <1>6, <2>1, <2>2
<1>8. sent' = sent \o SubSeq(Wire(list), 1, n)
    BY <1>3, <1>4
<1>9. \/ rest.list = <<>> /\ JobDone(rest)
      \/ slots' = [slots EXCEPT ![1] = rest]
    BY <1>3, <1>6
<1> HIDE DEF list, done, job
<1> DEFINE Moved(i) ==
              \/ slots'[i].list = <<>> /\ ~Active(slots'[i])
              \/ /\ Type(slots'[i]) = {"WRITEV"} /\ Ahead(i)' = 0
                 /\ slots'[i].list = After(list, n)
              \/ \E j \in 1 .. Len(slots) : /\ slots'[i] = slots[j]
                                            /\ Ahead(i)' = Ahead(j) - n
<1>10. CASE slots' = [slots EXCEPT ![1] = rest]
  <2>1. /\ slots' \in Seq(Slot) /\ Len(slots') = Len(slots) /\ slots'[1] = rest
        /\ \A i \in 1 .. Len(slots) : i # 1 => slots'[i] = slots[i]
    BY <1>5, <1>10
  <2>2. /\ SlotsLeft(slots') = SlotsLeft(slots) + LeftIn(rest.list) - LeftIn(list)
        /\ \A j \in 0 .. 1 - 1 :
              PartialSums(SlotLefts(slots'))[j] = PartialSums(SlotLefts(slots))[j]
        /\ \A j \in 1 .. Len(slots) : PartialSums(SlotLefts(slots'))[j]
              = PartialSums(SlotLefts(slots))[j] + LeftIn(rest.list) - LeftIn(list)
    <3> DEFINE tt == slots'
    <3>1. /\ tt \in Seq(Slot) /\ Len(tt) = Len(slots) /\ tt[1].list = rest.list
          /\ \A i \in 1 .. Len(slots) : i # 1 => tt[i].list = slots[i].list
          /\ Open(tt[1].list)
      BY <1>7, <2>1
    <3> HIDE DEF tt
    <3>2. /\ SlotsLeft(tt) = SlotsLeft(slots) + LeftIn(tt[1].list) - LeftIn(slots[1].list)
          /\ \A j \in 0 .. 1 - 1 :
                PartialSums(SlotLefts(tt))[j] = PartialSums(SlotLefts(slots))[j]
          /\ \A j \in 1 .. Len(slots) : PartialSums(SlotLefts(tt))[j]
                = PartialSums(SlotLefts(slots))[j]
                  + LeftIn(tt[1].list) - LeftIn(slots[1].list)
      BY <1>1, <1>5, <3>1, SlotsChanged
    <3> QED
      BY <3>1, <3>2 DEF tt, list
  <2>3. SlotsLeft(slots') = SlotsLeft(slots) - n
    BY <1>7, <2>2
  <2>4. Ahead(1)' = 0
    <3>1. PartialSums(SlotLefts(slots))[0] = 0
      BY <1>1, <1>5, SlotLeftsType, SumsDef
    <3>2. 0 \in 0 .. 1 - 1 /\ 1 - 1 = 0
      OBVIOUS
    <3> QED
      BY <2>2, <3>1, <3>2 DEF Ahead
  <2>5. ASSUME NEW i \in 1 .. Len(slots'), i # 1
        PROVE  slots'[i] = slots[i] /\ Ahead(i)' = Ahead(i) - n /\ i \in 1 .. Len(slots)
    <3>1. i - 1 \in 1 .. Len(slots) /\ i - 1 \in 0 .. Len(slots)
          /\ i \in 1 .. Len(slots)
      BY <1>5, <2>1, <2>5
    <3>2. PartialSums(SlotLefts(slots'))[i - 1]
             = PartialSums(SlotLefts(slots))[i - 1] + LeftIn(rest.list) - LeftIn(list)
      BY <2>2, <3>1
    <3>3. PartialSums(SlotLefts(slots))[i - 1] \in Nat
      BY <1>1, <1>5, <3>1, SumsFrom
    <3>4. PICK a \in Nat, l \in Nat :
             a = PartialSums(SlotLefts(slots))[i - 1] /\ l = LeftIn(list)
      BY <1>7, <3>3
    <3>5. LeftIn(rest.list) = l - n /\ n \in Nat
      BY <1>7, <3>4
    <3>6. PartialSums(SlotLefts(slots'))[i - 1] = a + (l - n) - l
      BY <3>2, <3>4, <3>5
    <3>7. a + (l - n) - l = a - n
      BY <3>5
    <3>8. Ahead(i)' = Ahead(i) - n
      BY <3>4, <3>6, <3>7 DEF Ahead
    <3> QED
      BY <2>1, <2>5, <3>1, <3>8
  <2>6. Type(slots'[1]) = {"WRITEV"} /\ slots'[1].list = After(list, n)
    BY <1>5, <1>7, <2>1 DEF Type
  <2>7. \A i \in 1 .. Len(slots') : Moved(i)
    BY <2>4, <2>5, <2>6
  <2> HIDE DEF Moved
  <2>8. n \in 1 .. LeftIn(list)
    BY <1>7
  <2> QED
    BY <1>8, <2>1, <2>3, <2>7, <2>8 DEF Moved, list
<1>11. CASE rest.list = <<>> /\ JobDone(rest)
  <2> DEFINE c == current
  <2>1. /\ c \in 1 .. Len(slots) /\ slots' \in Seq(Slot) /\ Len(slots') = Len(slots)
        /\ slots'[c] = [rest EXCEPT !.flags = @ \ {"ACTIVE"}]
        /\ \A i \in 1 .. c - 1 : i + 1 \in 1 .. Len(slots) /\ slots'[i] = slots[i + 1]
        /\ \A i \in c + 1 .. Len(slots) : slots'[i] = slots[i]
    BY <1>5, <1>11, DoneSlots
  <2>2. slots'[c].list = <<>> /\ ~Active(slots'[c])
    BY <1>11, <2>1 DEF Slot, Active
  <2>3. PICK m \in 0 .. Len(slots) : JobList(m) /\ (Active(slots[1]) <=> m > 0)
            /\ (Type(slots[1]) # {"SHUTDOWN"} /\ m > 0 => current = m)
    BY JobFacts
  <2>4. c = m
    BY <1>5, <2>3
  <2>5. \A i \in c + 1 .. Len(slots) : slots'[i].list = <<>> /\ ~Active(slots'[i])
    <3>1. \A i \in c + 1 .. Len(slots) : i \in DOMAIN slots /\ ~(i <= m)
      BY <1>5, <2>1, <2>4
    <3>2. \A i \in DOMAIN slots : Active(slots[i]) <=> i <= m
      BY <2>3 DEF JobList
    <3>3. \A i \in DOMAIN slots : ~Active(slots[i]) => slots[i].list = <<>>
      BY DEF JobInv, ListsInJobs
    <3> QED
      BY <2>1, <3>1, <3>2, <3>3
  <2>6. /\ SlotsLeft(slots') = SlotsLeft(slots) + LeftIn(<<>>) - LeftIn(slots[1].list)
        /\ \A j \in 0 .. c - 1 : PartialSums(SlotLefts(slots'))[j]
              = PartialSums(SlotLefts(slots))[j + 1] - LeftIn(slots[1].list)
    <3>1. slots'[c].list = <<>> /\ <<>> \in Seq(Packet) /\ Open(<<>>)
      BY <2>2, EmptyList
    <3>2. /\ \A i \in 1 .. c - 1 : slots'[i].list = slots[i + 1].list
          /\ \A i \in c + 1 .. Len(slots) : slots'[i].list = slots[i].list
      BY <2>1
    <3> QED
      BY <1>1, <1>5, <2>1, <3>1, <3>2, DoneLeft
  <2>7. LeftIn(list) = n
    BY <1>7, <1>11, EmptyList
  <2>8. SlotsLeft(slots') = SlotsLeft(slots) - n
    BY <1>7, <2>6, <2>7, EmptyList DEF list
  <2>9. ASSUME NEW i \in 1 .. c - 1
        PROVE  /\ i + 1 \in 1 .. Len(slots) /\ slots'[i] = slots[i + 1]
               /\ Ahead(i)' = Ahead(i + 1) - n
    <3>1. i - 1 \in 0 .. c - 1 /\ (i - 1) + 1 = (i + 1) - 1
      BY <2>1
    <3>2. PartialSums(SlotLefts(slots'))[i - 1]
             = PartialSums(SlotLefts(slots))[(i + 1) - 1] - n
      BY <2>6, <2>7, <3>1 DEF list
    <3> QED
      BY <2>1, <3>2 DEF Ahead
  <2>10. \A i \in 1 .. Len(slots') : i \in 1 .. c - 1 \/ i = c \/ i \in c + 1 .. Len(slots)
    BY <1>5, <2>1
  <2> HIDE DEF c
  <2>11. \A i \in 1 .. Len(slots') : Moved(i)
    BY <2>2, <2>5, <2>9, <2>10
  <2> HIDE DEF Moved
  <2>12. n \in 1 .. LeftIn(list)
    BY <1>7
  <2> QED
    BY <1>8, <2>1, <2>8, <2>11, <2>12 DEF Moved, list
<1> QED
    BY <1>9, <1>10, <1>11

\* writev takes bytes.
LEMMA StreamWritev ==
    ASSUME StreamInv, JobWritev
    PROVE  Streaming' /\ Stream!Transmit
<1>1. /\ CountInv /\ JobInv /\ Prefix /\ TypeOK /\ pc = "jobs" /\ state = "ONLINE"
      /\ ended = "no" /\ asked <= Len(accepted) /\ InOrder /\ OpenSlots(slots)
    BY DEF StreamInv, Streaming, CountInv, Phases, JobWritev, InJob
<1>2. PICK n \in 1 .. LeftIn(slots[1].list) :
              /\ sent' = sent \o SubSeq(Wire(slots[1].list), 1, n)
              /\ SlotsLeft(slots') = SlotsLeft(slots) - n /\ slots' \in Seq(Slot)
              /\ \A i \in 1 .. Len(slots') :
                    \/ slots'[i].list = <<>> /\ ~Active(slots'[i])
                    \/ /\ Type(slots'[i]) = {"WRITEV"} /\ Ahead(i)' = 0
                       /\ slots'[i].list = After(slots[1].list, n)
                    \/ \E j \in 1 .. Len(slots) : /\ slots'[i] = slots[j]
                                                  /\ Ahead(i)' = Ahead(j) - n
    BY <1>1, WritevMoves
<1>3. /\ accepted' = accepted /\ asked' = asked /\ ended' = ended /\ state' = state
      /\ pc' = pc
    BY DEF JobWritev
<1>4. /\ slots \in Seq(Slot) /\ Len(slots) \in Nat /\ 1 \in 1 .. Len(slots)
    BY <1>1 DEF TypeOK
<1> DEFINE list == slots[1].list
<1>5. /\ LeftIn(list) \in Nat /\ SlotsLeft(slots) \in Nat
      /\ LeftIn(list) <= SlotsLeft(slots)
    BY <1>1, <1>4, HeadLeft
<1>6. list \in Seq(Packet) /\ Open(list)
  <2>1. slots[1] \in Slot /\ Open(slots[1].list)
    BY <1>1, <1>4 DEF OpenSlots
  <2> QED
    BY <2>1 DEF Slot
<1>7. InPlace(accepted, list, Len(sent))
  <2>1. PartialSums(SlotLefts(slots))[0] = 0
    BY <1>1, <1>4, SlotLeftsType, SumsDef
  <2>2. Ahead(1) = 0
    <3>1. 1 - 1 = 0
      OBVIOUS
    <3> QED
      BY <2>1, <3>1 DEF Ahead
  <2>3. Len(sent) \in Nat
    BY <1>1, Histories
  <2>4. Len(sent) + Ahead(1) = Len(sent)
    BY <2>2, <2>3
  <2>5. InPlace(accepted, list, Len(sent) + Ahead(1))
    BY <1>1, <1>4 DEF InOrder, PacketsInOrder
  <2> QED
    BY <2>4, <2>5
<1>8. \A i \in 1 .. Len(slots) : Ahead(i) \in Nat
    BY <1>1, <1>4, SumsFrom DEF Ahead
<1>9. /\ accepted \in Seq(Byte) /\ sent \in Seq(Byte)
      /\ Len(accepted) \in Nat /\ Len(sent) \in Nat /\ asked \in Int
    BY <1>1, Histories
<1>10. sent' = sent \o SubSeq(Wire(list), 1, n) /\ n \in 1 .. LeftIn(list) /\ n \in Nat
    BY <1>2, <1>5
<1> DEFINE Kept(i) == slots'[i].list = <<>> /\ ~Active(slots'[i])
           First(i) == /\ Type(slots'[i]) = {"WRITEV"} /\ Ahead(i)' = 0
                       /\ slots'[i].list = After(list, n)
           Moved(i) == \E j \in 1 .. Len(slots) : /\ slots'[i] = slots[j]
                                                  /\ Ahead(i)' = Ahead(j) - n
<1>11. \A i \in 1 .. Len(slots') : Kept(i) \/ First(i) \/ Moved(i)
    BY <1>2
<1> HIDE DEF list
<1>12. PICK t \in Seq(Byte) : /\ t = SubSeq(Wire(list), 1, n) /\ Len(t) = n
                              /\ \A j \in 1 .. n : t[j] = Wire(list)[j]
  <2>1. Wire(list) \in Seq(Byte) /\ Len(Wire(list)) = LeftIn(list)
    BY <1>6, WireDef DEF Byte
  <2> DEFINE wire == Wire(list)
  <2>2. wire \in Seq(Byte) /\ n \in 1 .. Len(wire) /\ Len(wire) \in Nat
    BY <1>5, <1>10, <2>1
  <2> HIDE DEF wire
  <2>3. /\ SubSeq(wire, 1, n) \in Seq(Byte) /\ Len(SubSeq(wire, 1, n)) = n
        /\ \A j \in 1 .. n : SubSeq(wire, 1, n)[j] = wire[j]
    BY <1>10, <2>2
  <2> QED
    BY <2>3 DEF wire
<1>13. /\ sent' \in Seq(Byte) /\ Len(sent') = Len(sent) + n
       /\ \A k \in 1 .. Len(sent) : sent'[k] = sent[k]
       /\ \A k \in 1 .. n : sent'[Len(sent) + k] = t[k]
    BY <1>9, <1>10, <1>12, MoreBytes
<1>14. ToWrite = 0 /\ ToWrite' = 0
    BY <1>1, <1>3 DEF ToWrite
<1>15. Len(accepted) = Len(sent) + SlotsLeft(slots)
    BY <1>1, <1>5, <1>9, <1>14 DEF InOrder
<1>16. Prefix'
  <2>1. Len(sent') <= Len(accepted)
    BY <1>5, <1>9, <1>10, <1>13, <1>15
  <2>2. ASSUME NEW j \in 1 .. Len(sent') PROVE sent'[j] = accepted[j]
    <3>1. CASE j \in 1 .. Len(sent)
      BY <1>1, <1>13, <3>1 DEF Prefix
    <3>2. CASE j \notin 1 .. Len(sent)
      <4>1. PICK k \in 1 .. n : j = Len(sent) + k
        <5>1. j - Len(sent) \in 1 .. n /\ j = Len(sent) + (j - Len(sent))
          BY <1>9, <1>10, <1>13, <3>2
        <5> QED
          BY <5>1
      <4>2. k \in 1 .. LeftIn(list)
        BY <1>5, <1>10
      <4>3. Wire(list)[k] = accepted[Len(sent) + k]
        BY <1>6, <1>7, <1>9, <4>2, InPlaceWire
      <4> QED
        BY <1>12, <1>13, <4>1, <4>3
    <3> QED
      BY <3>1, <3>2
  <2> QED
    BY <1>3, <2>1, <2>2 DEF Prefix
<1>17. \A i, j \in 1 .. Len(slots') \union 1 .. Len(slots) :
          Ahead(j) \in Nat /\ Ahead(i)' = Ahead(j) - n
             => Len(sent') + Ahead(i)' = Len(sent) + Ahead(j)
    BY <1>9, <1>10, <1>13
<1>18. PacketsInOrder'
  <2>1. SUFFICES ASSUME NEW i \in 1 .. Len(slots')
                 PROVE  InPlace(accepted, slots'[i].list, Len(sent') + Ahead(i)')
    BY <1>2, <1>3 DEF PacketsInOrder
  <2>2. CASE Kept(i)
    BY <2>2, InPlaceEmpty
  <2>3. CASE First(i)
    <3>1. InPlace(accepted, After(list, n), Len(sent) + n)
      BY <1>6, <1>7, <1>9, <1>10, InPlaceAfter
    <3>2. Len(sent') + Ahead(i)' = Len(sent) + n
      BY <1>9, <1>10, <1>13, <2>3
    <3> QED
      BY <2>3, <3>1, <3>2
  <2>4. CASE Moved(i)
    <3>1. PICK j \in 1 .. Len(slots) : slots'[i] = slots[j] /\ Ahead(i)' = Ahead(j) - n
      BY <2>4
    <3>2. Len(sent') + Ahead(i)' = Len(sent) + Ahead(j)
      BY <1>8, <1>17, <3>1
    <3>3. InPlace(accepted, slots[j].list, Len(sent) + Ahead(j))
      BY <1>1, <1>4 DEF InOrder, PacketsInOrder
    <3> QED
      BY <3>1, <3>2, <3>3
  <2> HIDE DEF Kept, First, Moved
  <2> QED
    BY <1>11, <2>2, <2>3, <2>4
<1>19. ShutdownsBehind'
  <2>1. SUFFICES ASSUME NEW i \in 1 .. Len(slots'), Active(slots'[i]),
                        Type(slots'[i]) = {"SHUTDOWN"}
                 PROVE  asked >= 0 /\ asked <= Len(sent') + Ahead(i)'
    <3>1. DOMAIN slots' = 1 .. Len(slots') /\ asked' = asked
      BY <1>2, <1>3
    <3> QED
      BY <3>1 DEF ShutdownsBehind, Active, Type
  <2>2. PICK j \in 1 .. Len(slots) : slots'[i] = slots[j] /\ Ahead(i)' = Ahead(j) - n
    <3>1. ~Kept(i) /\ ~First(i)
      BY <2>1
    <3>2. Moved(i)
      BY <1>11, <3>1
    <3> QED
      BY <3>2
  <2>3. Len(sent') + Ahead(i)' = Len(sent) + Ahead(j)
    BY <1>8, <1>17, <2>2
  <2>4. asked >= 0 /\ asked <= Len(sent) + Ahead(j)
    BY <1>1, <1>4, <2>1, <2>2 DEF InOrder, ShutdownsBehind
  <2> QED
    BY <2>3, <2>4
<1>20. Len(accepted') = Len(sent') + SlotsLeft(slots') + ToWrite'
  <2>1. PICK all \in Nat : all = SlotsLeft(slots)
    BY <1>5
  <2>2. SlotsLeft(slots') = all - n /\ Len(accepted) = Len(sent) + all
    BY <1>2, <1>15, <2>1
  <2>3. Len(accepted) = (Len(sent) + n) + (all - n) + 0
    BY <1>9, <1>10, <2>2
  <2> QED
    BY <1>3, <1>13, <1>14, <2>2, <2>3
<1>21. WriteInOrder'
    BY <1>14 DEF WriteInOrder
<1>22. InOrder'
    BY <1>14, <1>18, <1>19, <1>20, <1>21 DEF InOrder
<1>23. Streaming'
    BY <1>1, <1>3, <1>16, <1>22 DEF Streaming
<1>24. Stream!Transmit
  <2>1. Len(sent') > Len(sent)
    BY <1>9, <1>10, <1>13
  <2> QED
    BY <1>1, <1>3, <1>13, <1>16, <2>1, StreamTransmit
<1> QED
    BY <1>23, <1>24

\* APE_socket_shutdown.
LEMMA StreamShutdown ==
    ASSUME StreamInv, APE_socket_shutdown
    PROVE  Streaming' /\ (UNCHANGED Stream!vars \/ Stream!Next)
<1>1. /\ state = "ONLINE" /\ pc # "jobs" /\ pc # "write" /\ pc' = pc
      /\ accepted' = accepted /\ sent' = sent /\ ended = "no"
      /\ asked \in Nat \union {-1}
    BY DEF APE_socket_shutdown, InUserCode, StreamInv, Streaming, CountInv, TypeOK
<1>2. CASE ~Busy /\ ape_shutdown("orderly") /\ asked' = asked
  <2>1. accepted = sent
    BY <1>1, <1>2, AllSent DEF Busy
  <2>2. Streaming' /\ Stream!EndOrderly
    BY <1>1, <1>2, <2>1, StreamEnd
  <2> QED
    BY <2>2 DEF Stream!Next
<1>3. CASE /\ Busy /\ slots' = ape_socket_job_get_slot("SHUTDOWN")
           /\ asked' = IF asked = -1 THEN Len(accepted) ELSE asked
           /\ state' = state /\ ended' = ended
  <2>1. PICK at : at = SlotIndex("SHUTDOWN")
    OBVIOUS
  <2>2. Prefix' /\ InOrder' /\ asked' <= Len(accepted')
    BY <1>1, <1>3, <2>1, ShutdownOrder
  <2>3. Streaming'
    BY <1>1, <1>3, <2>2 DEF Streaming
  <2>4. CASE asked = -1
    BY <1>1, <1>3, <2>3, <2>4 DEF Stream!Next, Stream!Ask
  <2>5. CASE asked # -1
    BY <1>1, <1>3, <2>3, <2>5 DEF Stream!vars
  <2> QED
    BY <2>4, <2>5
<1> QED
    BY <1>2, <1>3 DEF APE_socket_shutdown

\* do_jobs comes to a shutdown.
LEMMA StreamJobShutdown ==
    ASSUME StreamInv, JobShutdown
    PROVE  Streaming' /\ Stream!EndOrderly
<1>1. /\ CountInv /\ JobInv /\ TypeOK /\ pc = "jobs" /\ state = "ONLINE" /\ InOrder
      /\ OpenSlots(slots) /\ slots \in Seq(Slot) /\ 1 \in 1 .. Len(slots)
    BY DEF StreamInv, Streaming, CountInv, Phases, JobShutdown, InJob, TypeOK
<1>2. Active(slots[1]) /\ Type(slots[1]) = {"SHUTDOWN"}
    BY <1>1 DEF JobShutdown, InJob, Job
<1>3. Ahead(1) = 0
  <2>1. PartialSums(SlotLefts(slots))[0] = 0
    BY <1>1, SlotLeftsType, SumsDef
  <2>2. 1 - 1 = 0
    OBVIOUS
  <2> QED
    BY <2>1, <2>2 DEF Ahead
<1>4. asked >= 0 /\ asked <= Len(sent) + Ahead(1)
    BY <1>1, <1>2 DEF InOrder, ShutdownsBehind
<1>5. asked >= 0 /\ Len(sent) >= asked
    BY <1>1, <1>3, <1>4, Histories
<1>6. ape_shutdown("orderly") /\ UNCHANGED <<accepted, sent, asked>>
    BY DEF JobShutdown
<1> QED
    BY <1>1, <1>5, <1>6, StreamEnd

-----------------------------------------------------------------------------
(* The refinement.                                                         *)

\* At the start.
LEMMA StreamInit ==
    ASSUME Init PROVE Streaming /\ Stream!Init
<1>1. CountInv /\ JobInv
    BY CountInit, JobInit
<1>2. /\ pc = "user" /\ state = "ONLINE" /\ accepted = <<>> /\ sent = <<>>
      /\ asked = -1 /\ ended = "no" /\ slots = NewPool(JobChunk)
    BY DEF Init
<1>3. 1 \in 1 .. JobChunk /\ JobChunk \in Nat
    BY SendPathAssumption
<1>4. ~Active(slots[1])
    BY <1>2, <1>3 DEF NewPool, EmptySlot, Active
<1>5. /\ \A i \in DOMAIN slots : ~Active(slots[i]) /\ slots[i].list = <<>>
      /\ SlotsLeft(slots) = 0
    BY <1>1, <1>4, NoJobs
<1>6. ToWrite = 0 /\ Len(accepted) = 0 /\ Len(sent) = 0
    BY <1>2 DEF ToWrite
<1>7. PacketsInOrder /\ WriteInOrder /\ ShutdownsBehind
  <2>1. PacketsInOrder
    BY <1>5, InPlaceEmpty DEF PacketsInOrder
  <2>2. WriteInOrder
    BY <1>6 DEF WriteInOrder
  <2>3. ShutdownsBehind
    BY <1>5 DEF ShutdownsBehind
  <2> QED
    BY <2>1, <2>2, <2>3
<1>8. InOrder
    BY <1>5, <1>6, <1>7 DEF InOrder
<1>9. Prefix
    BY <1>6 DEF Prefix
<1>10. Stream!Init
    BY <1>2 DEF Stream!Init
<1> QED
    BY <1>2, <1>6, <1>8, <1>9, <1>10 DEF Streaming

\* Every step is one of the byte stream, or one it does not see.
LEMMA StreamStep ==
    ASSUME StreamInv, ~Files, Whole, Next
    PROVE  Streaming' /\ (UNCHANGED Stream!vars \/ Stream!Next)
<1>1. /\ CountInv /\ JobInv /\ TypeOK /\ Phases
      /\ ended = "no" <=> state = "ONLINE"
    BY DEF StreamInv, Streaming, CountInv
<1>2. ASSUME UNCHANGED <<accepted, sent, asked, ended>>,
             state' = "ONLINE" <=> state = "ONLINE",
             state = "ONLINE" => slots' = slots /\ ToWrite = 0 /\ ToWrite' = 0
      PROVE  Streaming' /\ UNCHANGED Stream!vars
  <2>1. UNCHANGED Stream!vars
    BY <1>2 DEF Stream!vars
  <2> QED
    BY <1>2, <2>1, StreamKept
<1>3. ASSUME state = "ONLINE", ape_shutdown("cut"), UNCHANGED <<accepted, sent, asked>>
      PROVE  Streaming' /\ Stream!Next
    BY <1>3, StreamCut DEF Stream!Next
<1>4. CASE WriteRefused
    BY <1>2, <1>4 DEF WriteRefused
<1>5. CASE WriteQueued
    BY <1>5, StreamQueued DEF Stream!Next
<1>6. CASE WriteStarts
    BY <1>6, StreamStarts DEF Stream!Next
<1>7. CASE APE_sendfile
    BY <1>7 DEF APE_sendfile
<1>8. CASE APE_socket_shutdown
    BY <1>8, StreamShutdown
<1>9. CASE APE_socket_shutdown_now
    BY <1>3, <1>9 DEF APE_socket_shutdown_now
<1>10. CASE WriteSome
    BY <1>10, StreamWrites DEF Stream!Next
<1>11. CASE WriteBlocks
    BY <1>11, StreamBlocks DEF Stream!Next
<1>12. CASE WriteEnds
  <2>1. /\ pc = "write" /\ pc' = "user" /\ state = "ONLINE"
        /\ UNCHANGED <<accepted, sent, asked, slots, length, writing>>
    BY <1>1, <1>12 DEF WriteEnds, Phases
  <2>2. CASE writing.t_bytes >= length[writing.item] /\ UNCHANGED <<state, ended>>
    <3>1. ToWrite \in Nat /\ ToWrite = length[writing.item] - writing.t_bytes
      BY <2>1 DEF StreamInv, Streaming, InOrder, ToWrite
    <3>2. writing.t_bytes \in Nat /\ length[writing.item] \in Nat
      <4>1. writing.t_bytes \in Nat
        BY <1>1 DEF TypeOK
      <4>2. length[writing.item] \in Lengths \union {1}
        BY <1>1, <2>1 DEF TypeOK, Phases
      <4>3. \A y \in Lengths \union {1} : y \in Nat
        BY SendPathAssumption
      <4> QED
        BY <4>1, <4>2, <4>3
    <3>3. ToWrite = 0
      BY <2>2, <3>1, <3>2
    <3>4. ToWrite' = 0
      BY <2>1 DEF ToWrite
    <3> QED
      BY <1>2, <2>1, <2>2, <3>3, <3>4
  <2>3. CASE ape_shutdown("cut")
    BY <1>3, <2>1, <2>3
  <2> QED
    BY <1>12, <2>2, <2>3 DEF WriteEnds
<1>13. CASE DrainReturns
    BY <1>2, <1>13 DEF DrainReturns, ToWrite
<1>14. CASE WriteEvent
  <2>1. /\ pc = "user" /\ pc' \in {"user", "jobs"} /\ UNCHANGED <<state, slots>>
        /\ UNCHANGED <<accepted, sent, asked, ended>>
    BY <1>14 DEF WriteEvent
  <2> QED
    BY <1>2, <2>1 DEF ToWrite
<1>15. CASE JobWritev
    BY <1>15, StreamWritev DEF Stream!Next
<1>16. CASE JobBlocks
    BY <1>2, <1>16 DEF JobBlocks, InJob, ToWrite
<1>17. CASE JobFails
    BY <1>1, <1>3, <1>17 DEF JobFails, InJob, Phases
<1>18. CASE JobSendfile
    BY <1>1, <1>18, OneType DEF JobSendfile, InJob, Job, TypeOK
<1>19. CASE JobShutdown
    BY <1>19, StreamJobShutdown DEF Stream!Next
<1>20. CASE JobUnknown
    BY <1>1, <1>20, OneType DEF JobUnknown, Job, TypeOK
<1>21. CASE JobsEnd
  <2>1. /\ pc = "jobs" /\ pc' \in {"user", "drain"} /\ UNCHANGED <<state, slots>>
        /\ UNCHANGED <<accepted, sent, asked, ended>>
    BY <1>21 DEF JobsEnd
  <2> QED
    BY <1>2, <2>1 DEF ToWrite
<1>22. CASE PeerCloses
    BY <1>3, <1>22 DEF PeerCloses
<1>23. CASE ape_socket_free
    BY <1>2, <1>23 DEF ape_socket_free
<1> QED
    BY <1>4, <1>5, <1>6, <1>7, <1>8, <1>9, <1>10, <1>11, <1>12, <1>13, <1>14,
       <1>15, <1>16, <1>17, <1>18, <1>19, <1>20, <1>21, <1>22, <1>23
       DEF Next, User, Writing, Jobs

\* The stuttering step.
LEMMA StreamStutter ==
    ASSUME StreamInv, UNCHANGED vars PROVE Streaming' /\ UNCHANGED Stream!vars
BY DEF vars, StreamInv, Streaming, Prefix, InOrder, PacketsInOrder, WriteInOrder,
       ShutdownsBehind, ToWrite, Ahead, Stream!vars

\* The bytes accepted go out once each, in order and without a gap, and a
\* queued shutdown ends the stream only behind all accepted before it,
\* whatever part of them the kernel takes at a time and however jobs are
\* queued, recycled and cut, without files, when the kernel blocks after it
\* took a part of one write.  (Without these it is not so: the findings.)
THEOREM ByteStreamCorrect == ~Files /\ Whole => (Spec => IsByteStream)
<1> SUFFICES ASSUME ~Files, Whole PROVE Spec => IsByteStream
    OBVIOUS
<1>1. Init => StreamInv /\ Stream!Init
    BY CountInit, JobInit, StreamInit DEF StreamInv
<1>2. StreamInv /\ [Next]_vars => StreamInv'
  <2>1. ASSUME StreamInv, Next PROVE StreamInv'
    <3>1. CountInv /\ JobInv
      BY <2>1 DEF StreamInv
    <3>2. CountInv' /\ JobInv' /\ Streaming'
      BY <2>1, <3>1, CountStep, JobStep, StreamStep
    <3> QED
      BY <3>2 DEF StreamInv
  <2>2. ASSUME StreamInv, UNCHANGED vars PROVE StreamInv'
    <3>1. CountInv /\ JobInv
      BY <2>2 DEF StreamInv
    <3>2. CountInv' /\ JobInv' /\ Streaming'
      BY <2>2, <3>1, CountStutter, JobStutter, StreamStutter
    <3> QED
      BY <3>2 DEF StreamInv
  <2> QED
    BY <2>1, <2>2
<1>3. StreamInv /\ [Next]_vars => [Stream!Next]_(Stream!vars)
  <2>1. ASSUME StreamInv, Next PROVE [Stream!Next]_(Stream!vars)
    BY <2>1, StreamStep
  <2>2. ASSUME StreamInv, UNCHANGED vars PROVE [Stream!Next]_(Stream!vars)
    BY <2>2, StreamStutter
  <2> QED
    BY <2>1, <2>2
<1> QED
    BY <1>1, <1>2, <1>3, PTL DEF Spec, IsByteStream, Stream!Spec
=============================================================================
