--------------------------- MODULE ContainerProofs --------------------------
(***************************************************************************)
(* Proofs about the containers, for every value of their constants.        *)
(*                                                                         *)
(* HashTable: for every set of keys, every comparison of keys that is an   *)
(* equivalence, every function that hashes them and any number of buckets. *)
(* The list of all items is proved right without counting or ordering its  *)
(* items: Listed is the least set that holds the head and is closed under  *)
(* lnext, and each step is compared with a closed set before or after it.  *)
(*                                                                         *)
(* KeyArray: for every sets of names and values, every symmetric           *)
(* comparison of names and any numbers of slots.                           *)
(*                                                                         *)
(* Pools: for any numbers of slots in the first and in the later blocks.   *)
(* The list is an order of the slots that the pointers follow; growing it  *)
(* and moving its head give another order, and the walk of a destruction   *)
(* is at a place of it.  Last, the orders are the list SlotList describes. *)
(***************************************************************************)
EXTENDS HashTable, KeyArray, Pools, SequenceTheorems, WellFoundedInduction, TLAPS

-----------------------------------------------------------------------------
(* The hash table.                                                         *)

Address == Addresses \union {NULL}

\* The types the proofs need.
TypeInv ==
    /\ HashTypeOK
    /\ hash \in [Keys -> Buckets]
    /\ live \in BOOLEAN /\ cleaner \in BOOLEAN
    /\ stored \in 0 .. MaxStores /\ cleaned \in [Values -> Nat]

-----------------------------------------------------------------------------
(* Sequences without repetitions, and the first place in one.              *)

OnceEach(s) == \A i, j \in 1 .. Len(s) : s[i] = s[j] => i = j

\* The elements of a sequence.
LEMMA Elements ==
    ASSUME NEW S, NEW s \in Seq(S)
    PROVE  /\ ToSet(s) = {s[i] : i \in 1 .. Len(s)}
           /\ Len(s) \in Nat /\ ToSet(s) \subseteq S
<1>1. Len(s) \in Nat /\ DOMAIN s = 1 .. Len(s) /\ \A i \in 1 .. Len(s) : s[i] \in S
    BY LenProperties, ElementOfSeq
<1> QED BY <1>1 DEF ToSet

\* An element put in front.
LEMMA FrontElements ==
    ASSUME NEW S, NEW s \in Seq(S), NEW n \in S
    PROVE  /\ <<n>> \o s \in Seq(S) /\ ToSet(<<n>> \o s) = {n} \union ToSet(s)
           /\ n \notin ToSet(s) /\ OnceEach(s) => OnceEach(<<n>> \o s)
<1> DEFINE t == <<n>> \o s
<1>1. <<n>> \in Seq(S) /\ Len(<<n>>) = 1 /\ <<n>>[1] = n /\ Len(s) \in Nat
    BY LenProperties
<1>2. /\ t \in Seq(S) /\ Len(t) = Len(s) + 1
      /\ \A i \in 1 .. Len(s) + 1 : t[i] = IF i <= 1 THEN <<n>>[i] ELSE s[i - 1]
  <2> HIDE DEF t
  <2>1. /\ <<n>> \o s \in Seq(S) /\ Len(<<n>> \o s) = Len(<<n>>) + Len(s)
        /\ \A i \in 1 .. Len(<<n>>) + Len(s) :
              (<<n>> \o s)[i] = IF i <= Len(<<n>>) THEN <<n>>[i] ELSE s[i - Len(<<n>>)]
      BY <1>1, ConcatProperties
  <2> QED BY <1>1, <2>1 DEF t
<1> HIDE DEF t
<1>3. t[1] = n /\ \A i \in 1 .. Len(s) : t[i + 1] = s[i]
    BY <1>1, <1>2
<1>4. \A i \in 1 .. Len(t) : i = 1 \/ (i - 1 \in 1 .. Len(s) /\ t[i] = s[i - 1])
    BY <1>1, <1>2
<1>5. /\ ToSet(s) = {s[i] : i \in 1 .. Len(s)}
      /\ ToSet(t) = {t[i] : i \in 1 .. Len(t)}
    BY <1>2, Elements
<1>6. ToSet(t) = {n} \union ToSet(s)
  <2>1. ASSUME NEW m \in ToSet(t) PROVE m \in {n} \union ToSet(s)
      BY <1>3, <1>4, <1>5, <2>1
  <2>2. n \in ToSet(t)
    <3>1. 1 \in 1 .. Len(t)
        BY <1>1, <1>2
    <3> QED BY <1>3, <1>5, <3>1
  <2>3. ASSUME NEW m \in ToSet(s) PROVE m \in ToSet(t)
    <3>1. PICK i \in 1 .. Len(s) : m = s[i]
        BY <1>5, <2>3
    <3>2. i + 1 \in 1 .. Len(t)
        BY <1>1, <1>2
    <3> QED BY <1>3, <1>5, <3>1, <3>2
  <2> QED BY <2>1, <2>2, <2>3
<1>7. n \notin ToSet(s) /\ OnceEach(s) => OnceEach(t)
  <2> SUFFICES ASSUME n \notin ToSet(s), OnceEach(s),
                      NEW i \in 1 .. Len(t), NEW j \in 1 .. Len(t), t[i] = t[j]
               PROVE  i = j
      BY DEF OnceEach
  <2>1. \A k \in 1 .. Len(s) : s[k] # n
      BY <1>5
  <2>2. CASE i = 1 \/ j = 1
      BY <1>3, <1>4, <2>1, <2>2
  <2>3. CASE i # 1 /\ j # 1
    <3>1. s[i - 1] = s[j - 1] /\ i - 1 \in 1 .. Len(s) /\ j - 1 \in 1 .. Len(s)
        BY <1>4, <2>3
    <3>2. i - 1 = j - 1
        BY <3>1 DEF OnceEach
    <3> QED BY <1>2, <3>2
  <2> QED BY <2>2, <2>3
<1> QED BY <1>2, <1>6, <1>7 DEF t

\* An element taken out.
LEMMA RestElements ==
    ASSUME NEW S, NEW s \in Seq(S), NEW p \in 1 .. Len(s), OnceEach(s)
    PROVE  /\ RemoveAt(s, p) \in Seq(S)
           /\ ToSet(RemoveAt(s, p)) = ToSet(s) \ {s[p]}
           /\ OnceEach(RemoveAt(s, p))
<1> DEFINE a == SubSeq(s, 1, p - 1)
           b == SubSeq(s, p + 1, Len(s))
           t == a \o b
<1>1. Len(s) \in Nat /\ \A i \in 1 .. Len(s) : s[i] \in S
    BY LenProperties, ElementOfSeq
<1>2. a \in Seq(S) /\ Len(a) = p - 1 /\ \A i \in 1 .. p - 1 : a[i] = s[i]
  <2>1. 1 \in Int /\ p - 1 \in Int /\ \A i \in 1 .. p - 1 : s[i] \in S
      BY <1>1
  <2>2. /\ a \in Seq(S)
        /\ Len(a) = IF 1 <= p - 1 THEN p - 1 - 1 + 1 ELSE 0
        /\ \A i \in 1 .. p - 1 - 1 + 1 : a[i] = s[1 + i - 1]
      BY <2>1, SubSeqProperties
  <2>3. p - 1 - 1 + 1 = p - 1 /\ \A i \in 1 .. p - 1 : 1 + i - 1 = i
      BY <1>1
  <2> HIDE DEF a
  <2>4. Len(a) = p - 1
      BY <1>1, <2>2
  <2> QED BY <2>2, <2>3, <2>4
<1>3. b \in Seq(S) /\ Len(b) = Len(s) - p /\ \A i \in 1 .. Len(s) - p : b[i] = s[p + i]
  <2>1. p + 1 \in Int /\ Len(s) \in Int /\ \A i \in p + 1 .. Len(s) : s[i] \in S
      BY <1>1
  <2>2. /\ b \in Seq(S)
        /\ Len(b) = IF p + 1 <= Len(s) THEN Len(s) - (p + 1) + 1 ELSE 0
        /\ \A i \in 1 .. Len(s) - (p + 1) + 1 : b[i] = s[p + 1 + i - 1]
      BY <2>1, SubSeqProperties
  <2>3. /\ Len(s) - (p + 1) + 1 = Len(s) - p
        /\ \A i \in 1 .. Len(s) - p : p + 1 + i - 1 = p + i
      BY <1>1
  <2> HIDE DEF b
  <2>4. Len(b) = Len(s) - p
      BY <1>1, <2>2
  <2> QED BY <2>2, <2>3, <2>4
<1> HIDE DEF a, b
<1>4. /\ t \in Seq(S) /\ Len(t) = Len(s) - 1
      /\ \A i \in 1 .. Len(s) - 1 : t[i] = IF i <= p - 1 THEN a[i] ELSE b[i - (p - 1)]
  <2>1. /\ t \in Seq(S) /\ Len(t) = Len(a) + Len(b)
        /\ \A i \in 1 .. Len(a) + Len(b) :
              t[i] = IF i <= Len(a) THEN a[i] ELSE b[i - Len(a)]
      BY <1>2, <1>3, ConcatProperties
  <2>2. (p - 1) + (Len(s) - p) = Len(s) - 1
      BY <1>1
  <2> HIDE DEF t
  <2> QED BY <1>2, <1>3, <2>1, <2>2
<1>5. RemoveAt(s, p) = t
    BY DEF RemoveAt, a, b
<1> HIDE DEF t
<1> DEFINE Old(i) == IF i < p THEN i ELSE i + 1
<1>6. \A i \in 1 .. Len(t) : Old(i) \in 1 .. Len(s) /\ Old(i) # p /\ t[i] = s[Old(i)]
  <2> SUFFICES ASSUME NEW i \in 1 .. Len(t)
               PROVE  Old(i) \in 1 .. Len(s) /\ Old(i) # p /\ t[i] = s[Old(i)]
      OBVIOUS
  <2>1. CASE i < p
    <3>1. i \in 1 .. p - 1 /\ i <= p - 1 /\ i \in 1 .. Len(s)
        BY <1>1, <1>4, <2>1
    <3> QED BY <1>2, <1>4, <2>1, <3>1
  <2>2. CASE ~(i < p)
    <3>1. /\ i - (p - 1) \in 1 .. Len(s) - p /\ ~(i <= p - 1)
          /\ p + (i - (p - 1)) = i + 1 /\ i + 1 \in 1 .. Len(s) /\ i + 1 # p
        BY <1>1, <1>4, <2>2
    <3>2. b[i - (p - 1)] = s[i + 1]
        BY <1>3, <3>1
    <3> QED BY <1>4, <2>2, <3>1, <3>2
  <2> QED BY <2>1, <2>2
<1>7. \A k \in 1 .. Len(s) : k = p \/ \E i \in 1 .. Len(t) : Old(i) = k
  <2> SUFFICES ASSUME NEW k \in 1 .. Len(s), k # p
               PROVE  \E i \in 1 .. Len(t) : Old(i) = k
      OBVIOUS
  <2>1. CASE k < p
    <3>1. k \in 1 .. Len(t)
        BY <1>1, <1>4, <2>1
    <3> QED BY <2>1, <3>1
  <2>2. CASE ~(k < p)
    <3>1. k - 1 \in 1 .. Len(t) /\ ~(k - 1 < p) /\ (k - 1) + 1 = k
        BY <1>1, <1>4, <2>2
    <3> QED BY <3>1
  <2> QED BY <2>1, <2>2
<1>8. \A i, j \in 1 .. Len(t) : Old(i) = Old(j) => i = j
    BY <1>1, <1>4
<1> HIDE DEF Old
<1>9. /\ ToSet(s) = {s[i] : i \in 1 .. Len(s)}
      /\ ToSet(t) = {t[i] : i \in 1 .. Len(t)}
    BY <1>4, Elements
<1>10. ToSet(t) = ToSet(s) \ {s[p]}
  <2>1. ASSUME NEW m \in ToSet(t) PROVE m \in ToSet(s) \ {s[p]}
    <3>1. PICK i \in 1 .. Len(t) : m = t[i]
        BY <1>9, <2>1
    <3>2. m = s[Old(i)] /\ Old(i) \in 1 .. Len(s) /\ Old(i) # p
        BY <1>6, <3>1
    <3> QED BY <1>9, <3>2 DEF OnceEach
  <2>2. ASSUME NEW m \in ToSet(s) \ {s[p]} PROVE m \in ToSet(t)
    <3>1. PICK k \in 1 .. Len(s) : m = s[k]
        BY <1>9, <2>2
    <3>2. PICK i \in 1 .. Len(t) : Old(i) = k
        BY <1>7, <2>2, <3>1
    <3> QED BY <1>6, <1>9, <3>1, <3>2
  <2> QED BY <2>1, <2>2
<1>11. OnceEach(t)
  <2> SUFFICES ASSUME NEW i \in 1 .. Len(t), NEW j \in 1 .. Len(t), t[i] = t[j]
               PROVE  i = j
      BY DEF OnceEach
  <2>1. Old(i) = Old(j)
      BY <1>6 DEF OnceEach
  <2> QED BY <1>8, <2>1
<1> QED BY <1>4, <1>5, <1>10, <1>11

\* The least element of a set of numbers.
LEMMA LeastOf ==
    ASSUME NEW I \in SUBSET Nat, I # {}
    PROVE  Min(I) \in I /\ \A i \in I : Min(I) <= i
<1>1. PICK x \in I : \A y \in I : ~(<<y, x>> \in OpToRel(<, Nat))
    BY NatLessThanWellFounded, WFMin
<1>2. \A y \in I : ~(y < x)
    BY <1>1, Zenon DEF OpToRel
<1>3. \A y \in I : x <= y
    BY <1>2
<1> QED BY <1>3 DEF Min

-----------------------------------------------------------------------------
(* The inductive invariants.                                               *)

\* An item of a chain has a key of that bucket and a value, is once in the
\* chain, and no other of its bucket has the same key.
ChainInv ==
    /\ \A n \in Chained : key[n] \in Keys /\ content[n] \in Values
    /\ \A b \in Buckets : OnceEach(table[b])
    /\ \A b \in Buckets : \A n \in ToSet(table[b]) : hash[key[n]] = b
    /\ \A n, m \in Chained :
          Same(key[n], key[m]) /\ hash[key[n]] = hash[key[m]] => n = m

\* The list has the items of the chains, and its pointers are inverse.
ListInv ==
    /\ Listed = Chained
    /\ first # NULL => lprev[first] = NULL
    /\ \A n \in Listed : lnext[n] # NULL => lprev[lnext[n]] = n

\* What an entry is by one seed, and what was stored and not erased is what
\* the items have.
EntryBy(h, k) == {l \in Keys : Same(k, l) /\ h[k] = h[l]}

DictInv ==
    /\ \A n \in Chained : /\ EntryBy(hash, key[n]) \in DOMAIN dict
                          /\ dict[EntryBy(hash, key[n])] = content[n]
    /\ \A e \in DOMAIN dict : \E n \in Chained : e = EntryBy(hash, key[n])

\* No two items have one value, and the cleaner was called with those that
\* none has any more.
CleanInv ==
    /\ \A n \in Chained : content[n] <= stored
    /\ \A n, m \in Chained : content[n] = content[m] => n = m
    /\ cleaner => \A v \in Values :
          cleaned[v] = IF v <= stored /\ \A n \in Chained : content[n] # v
                       THEN 1 ELSE 0

HashInv == TypeInv /\ ChainInv /\ ListInv /\ DictInv

-----------------------------------------------------------------------------
(* The chains.                                                             *)

\* What the chains hold.
LEMMA ChainedItems ==
    ASSUME TypeInv
    PROVE  /\ \A b \in Buckets : table[b] \in Seq(Addresses)
           /\ \A n : n \in Chained <=> \E b \in Buckets : n \in ToSet(table[b])
           /\ Chained \subseteq Addresses
<1>1. \A b \in Buckets : table[b] \in Seq(Addresses)
    BY DEF TypeInv, HashTypeOK
<1>2. \A n : n \in Chained <=> \E b \in Buckets : n \in ToSet(table[b])
    BY DEF Chained
<1>3. \A b \in Buckets : ToSet(table[b]) \subseteq Addresses
    BY <1>1, Elements
<1> QED BY <1>1, <1>2, <1>3

\* An item of a chain is in the one its key says.
LEMMA ItsChain ==
    ASSUME TypeInv, ChainInv, NEW n \in Chained
    PROVE  key[n] \in Keys /\ hash[key[n]] \in Buckets /\ n \in ToSet(table[hash[key[n]]])
<1>1. key[n] \in Keys
    BY DEF ChainInv
<1>2. PICK b \in Buckets : n \in ToSet(table[b])
    BY ChainedItems
<1>3. hash[key[n]] = b
    BY <1>2 DEF ChainInv
<1> QED BY <1>1, <1>2, <1>3

\* A look-up finds the item of the chain with the same key, if there is one.
LEMMA LookUp ==
    ASSUME TypeInv, ChainInv, NEW k \in Keys
    PROVE  /\ Has(k) => /\ Place(k) \in 1 .. Len(Chain(k))
                        /\ Found(k) \in ToSet(Chain(k)) /\ Found(k) \in Chained
                        /\ Same(key[Found(k)], k)
           /\ ~Has(k) => \A n \in ToSet(Chain(k)) : ~Same(key[n], k)
<1> DEFINE s == Chain(k)
           I == {i \in 1 .. Len(s) : Same(key[s[i]], k)}
<1>1. hash[k] \in Buckets /\ s \in Seq(Addresses)
    BY ChainedItems DEF Chain, TypeInv
<1>2. Place(k) = IF I # {} THEN Min(I) ELSE 0
    BY DEF Place, SelectInSeq
<1>3. Len(s) \in Nat /\ ToSet(s) = {s[i] : i \in 1 .. Len(s)} /\ s = table[hash[k]]
    BY <1>1, Elements DEF Chain
<1>4. ToSet(s) \subseteq Chained
    BY <1>1, <1>3, ChainedItems
<1>5. Found(k) = s[Place(k)] /\ (Has(k) <=> Place(k) # 0)
    BY DEF Found, Has
<1> HIDE DEF s
<1>6. CASE I = {}
  <2>1. ~Has(k)
      BY <1>2, <1>5, <1>6
  <2>2. \A n \in ToSet(s) : ~Same(key[n], k)
      BY <1>3, <1>6
  <2> QED BY <2>1, <2>2 DEF s
<1>7. CASE I # {}
  <2>1. I \in SUBSET Nat
      BY <1>3
  <2>2. Place(k) \in I
      BY <1>2, <1>7, <2>1, LeastOf
  <2>3. Place(k) \in 1 .. Len(s) /\ Same(key[s[Place(k)]], k) /\ Has(k)
      BY <1>3, <1>5, <2>2
  <2>4. Found(k) \in ToSet(s)
      BY <1>3, <1>5, <2>3
  <2> QED BY <1>4, <1>5, <2>3, <2>4 DEF s
<1> QED BY <1>6, <1>7

\* By the table's own seed it is the table's entry.
LEMMA EntryIs == \A k : EntryBy(hash, k) = Entry(k)
    BY DEF EntryBy, Entry

\* Keys that can not be told apart name one entry, and only those do.
LEMMA Entries ==
    ASSUME TypeInv, NEW k \in Keys, NEW l \in Keys
    PROVE  Entry(k) = Entry(l) <=> Same(k, l) /\ hash[k] = hash[l]
<1> USE HashAssumption DEF HashAssumption
<1>1. ASSUME Same(k, l), hash[k] = hash[l] PROVE Entry(k) = Entry(l)
    BY <1>1 DEF Entry
<1>2. ASSUME Entry(k) = Entry(l) PROVE Same(k, l) /\ hash[k] = hash[l]
  <2>1. l \in Entry(l)
      BY DEF Entry
  <2> QED BY <1>2, <2>1 DEF Entry
<1> QED BY <1>1, <1>2

-----------------------------------------------------------------------------
(* The list.                                                               *)

\* A set that holds the head and the successors of its members.
Closed(S, h, nx) ==
    /\ h = NULL \/ h \in S
    /\ \A m \in S : nx[m] = NULL \/ nx[m] \in S

\* The list is the least closed set.
LEMMA LeastClosed ==
    /\ \A S \in SUBSET Addresses : Closed(S, first, lnext) => Listed \subseteq S
    /\ TypeInv => Listed \in SUBSET Addresses /\ Closed(Listed, first, lnext)
<1>1. ASSUME NEW S \in SUBSET Addresses, Closed(S, first, lnext) PROVE Listed \subseteq S
    BY <1>1 DEF Listed, Closed
<1>2. ASSUME TypeInv PROVE Listed \in SUBSET Addresses /\ Closed(Listed, first, lnext)
  <2>1. /\ first = NULL \/ first \in Addresses
        /\ \A m \in Addresses : lnext[m] = NULL \/ lnext[m] \in Addresses
      BY <1>2 DEF TypeInv, HashTypeOK
  <2>2. Listed \in SUBSET Addresses
      BY DEF Listed
  <2>3. first = NULL \/ first \in Listed
      BY <2>1 DEF Listed
  <2>4. ASSUME NEW m \in Listed, lnext[m] # NULL PROVE lnext[m] \in Listed
    <3>1. lnext[m] \in Addresses /\ m \in Addresses
        BY <2>1, <2>2, <2>4
    <3>2. ASSUME NEW S \in SUBSET Addresses, Closed(S, first, lnext) PROVE lnext[m] \in S
      <4>1. m \in S
          BY <1>1, <3>2
      <4> QED BY <2>4, <3>2, <4>1 DEF Closed
    <3> QED BY <3>1, <3>2 DEF Listed, Closed
  <2> QED BY <2>2, <2>3, <2>4 DEF Closed
<1> QED BY <1>1, <1>2

\* The same of the next state.
LEMMA LeastClosedNext ==
    (/\ \A S \in SUBSET Addresses : Closed(S, first, lnext) => Listed \subseteq S
     /\ TypeInv => Listed \in SUBSET Addresses /\ Closed(Listed, first, lnext))'
    BY LeastClosed, PTL

\* An item that is not the head has one before it, to which its lprev points.
LEMMA HasPredecessor ==
    ASSUME TypeInv, ListInv, NEW n \in Listed
    PROVE  /\ n \in Addresses
           /\ n = first <=> lprev[n] = NULL
           /\ n # first => lprev[n] \in Listed /\ lnext[lprev[n]] = n /\ lprev[n] # n
           /\ \A m \in Listed : lnext[m] = n => m = lprev[n]
           /\ lnext[n] # n
<1> USE HashAssumption DEF HashAssumption
<1>1. Listed \in SUBSET Addresses /\ Closed(Listed, first, lnext) /\ n # NULL
    BY LeastClosed
<1>2. \A m \in Listed : lnext[m] = n => m = lprev[n]
    BY <1>1 DEF ListInv
<1>3. ASSUME n # first PROVE \E m \in Listed : m # n /\ lnext[m] = n
  <2> SUFFICES ASSUME \A m \in Listed : m # n => lnext[m] # n PROVE FALSE
      OBVIOUS
  <2>1. Closed(Listed \ {n}, first, lnext)
      BY <1>1, <1>3 DEF Closed
  <2> QED BY <1>1, <2>1, LeastClosed
<1>4. n = first => lprev[n] = NULL
    BY <1>1 DEF ListInv
<1>5. n # first => lprev[n] \in Listed /\ lnext[lprev[n]] = n /\ lprev[n] # n
    BY <1>2, <1>3
<1>6. lnext[n] # n
    BY <1>1, <1>2, <1>4, <1>5
<1> QED BY <1>1, <1>2, <1>4, <1>5, <1>6

\* An item in front of the list.
LEMMA ListInsert ==
    ASSUME TypeInv, TypeInv', ListInv, NEW n \in Addresses, n \notin Listed,
           first' = n, lnext' = [lnext EXCEPT ![n] = first],
           lprev' = [m \in Addresses |-> CASE m = n     -> NULL
                                           [] m = first -> n
                                           [] OTHER     -> lprev[m]]
    PROVE  /\ Listed' = Listed \union {n}
           /\ lprev'[first'] = NULL
           /\ \A m \in Listed' : lnext'[m] # NULL => lprev'[lnext'[m]] = m
<1> USE HashAssumption DEF HashAssumption
<1>1. Listed \in SUBSET Addresses /\ Closed(Listed, first, lnext) /\ n # NULL
    BY LeastClosed
<1>2. Listed' \in SUBSET Addresses /\ Closed(Listed', first', lnext')
    BY LeastClosedNext
<1>3. lnext'[n] = first /\ \A m \in Listed : lnext'[m] = lnext[m]
    BY <1>1 DEF TypeInv, HashTypeOK
<1>4. Listed' = Listed \union {n}
  <2>1. Listed' \subseteq Listed \union {n}
    <3>1. Closed(Listed \union {n}, first', lnext')
        BY <1>1, <1>3 DEF Closed
    <3> QED BY <1>1, <3>1, LeastClosedNext
  <2>2. n \in Listed'
      BY <1>1, <1>2 DEF Closed
  <2>3. Listed \subseteq Listed'
    <3>1. Closed(Listed \intersect Listed', first, lnext)
        BY <1>1, <1>2, <1>3, <2>2 DEF Closed
    <3> QED BY <1>1, <3>1, LeastClosed
  <2> QED BY <2>1, <2>2, <2>3
<1>5. lprev'[n] = NULL
  <2>1. n # first
      BY <1>1 DEF Closed
  <2> QED BY <2>1
<1>6. ASSUME NEW m \in Listed', lnext'[m] # NULL PROVE lprev'[lnext'[m]] = m
  <2>1. CASE m = n
    <3>1. lnext'[m] = first /\ first \in Addresses /\ first # n
        BY <1>1, <1>3, <1>6, <2>1 DEF Closed
    <3> QED BY <2>1, <3>1
  <2>2. CASE m # n
    <3>1. m \in Listed /\ lnext'[m] = lnext[m] /\ lnext[m] \in Listed
        BY <1>1, <1>3, <1>4, <1>6, <2>2 DEF Closed
    <3>2. lprev[lnext[m]] = m /\ m # NULL
        BY <1>1, <1>6, <3>1 DEF ListInv
    <3>3. lnext[m] # n /\ lnext[m] # first
        BY <1>1, <3>1, <3>2 DEF ListInv
    <3> QED BY <1>1, <3>1, <3>2, <3>3
  <2> QED BY <2>1, <2>2
<1> QED BY <1>4, <1>5, <1>6

\* An item taken off the list.
LEMMA ListErase ==
    ASSUME TypeInv, TypeInv', ListInv, NEW n \in Listed,
           first' = Unlinked(n).first, lnext' = Unlinked(n).lnext,
           lprev' = Unlinked(n).lprev
    PROVE  /\ Listed' = Listed \ {n}
           /\ first' # NULL => lprev'[first'] = NULL
           /\ \A m \in Listed' : lnext'[m] # NULL => lprev'[lnext'[m]] = m
<1> USE HashAssumption DEF HashAssumption
<1> DEFINE p == lprev[n]
           q == lnext[n]
<1>1. Listed \in SUBSET Addresses /\ Closed(Listed, first, lnext) /\ n # NULL
    BY LeastClosed
<1>2. Listed' \in SUBSET Addresses /\ Closed(Listed', first', lnext')
    BY LeastClosedNext
<1>3. /\ n \in Addresses /\ (n = first <=> p = NULL)
      /\ n # first => p \in Listed /\ lnext[p] = n /\ p # n
      /\ \A m \in Listed : lnext[m] = n => m = p
      /\ q # n
    BY HasPredecessor
<1>4. q # NULL => q \in Listed /\ lprev[q] = n
    BY <1>1 DEF Closed, ListInv
<1>5. /\ first' = IF p = NULL THEN q ELSE first
      /\ \A m \in Addresses : lnext'[m] = IF m = p THEN q ELSE lnext[m]
      /\ \A m \in Addresses : lprev'[m] = IF m = q THEN p ELSE lprev[m]
    BY DEF Unlinked
<1> HIDE DEF p, q
<1>6. Listed' \subseteq Listed \ {n}
  <2>1. first' = NULL \/ first' \in Listed \ {n}
      BY <1>1, <1>3, <1>4, <1>5 DEF Closed
  <2>2. \A m \in Listed \ {n} : lnext'[m] = NULL \/ lnext'[m] \in Listed \ {n}
      BY <1>1, <1>3, <1>4, <1>5 DEF Closed
  <2>3. Closed(Listed \ {n}, first', lnext')
      BY <2>1, <2>2 DEF Closed
  <2> QED BY <1>1, <2>3, LeastClosedNext
<1>7. Listed \ {n} \subseteq Listed'
  <2>1. CASE p = NULL \/ p \in Listed'
    <3> DEFINE T == (Listed' \union {n}) \intersect Listed
    <3>1. q = NULL \/ q \in Listed'
      <4>1. CASE p = NULL
          BY <1>2, <1>5, <4>1 DEF Closed
      <4>2. CASE p # NULL
          BY <1>1, <1>2, <1>3, <1>5, <2>1, <4>2 DEF Closed
      <4> QED BY <4>1, <4>2
    <3>2. first = NULL \/ first \in T
        BY <1>1, <1>2, <1>3, <1>5 DEF Closed
    <3>3. ASSUME NEW m \in T, lnext[m] # NULL PROVE lnext[m] \in T
      <4>1. lnext[m] \in Listed
          BY <1>1, <3>3 DEF Closed
      <4>2. CASE m = n
          BY <3>1, <3>3, <4>1, <4>2 DEF q
      <4>3. CASE m = p
        <5>1. lnext[m] = n
            BY <1>1, <1>3, <3>3, <4>3
        <5> QED BY <4>1, <5>1
      <4>4. CASE m # n /\ m # p
        <5>1. lnext'[m] = lnext[m] /\ m \in Listed'
            BY <1>1, <1>5, <3>3, <4>4
        <5> QED BY <1>2, <3>3, <4>1, <5>1 DEF Closed
      <4> QED BY <4>2, <4>3, <4>4
    <3> HIDE DEF T
    <3>4. Closed(T, first, lnext)
        BY <3>2, <3>3 DEF Closed
    <3>5. Listed \subseteq T
        BY <1>1, <3>4, LeastClosed DEF T
    <3> QED BY <3>5 DEF T
  <2>2. CASE p # NULL /\ p \notin Listed'
    <3> DEFINE T == (Listed' \intersect Listed) \ {n}
    <3>1. first = NULL \/ first \in T
        BY <1>1, <1>2, <1>3, <1>5, <2>2 DEF Closed
    <3>2. ASSUME NEW m \in T, lnext[m] # NULL PROVE lnext[m] \in T
      <4>1. m # p /\ m \in Listed /\ m \in Listed'
          BY <2>2
      <4>2. lnext'[m] = lnext[m] /\ lnext[m] # n
          BY <1>1, <1>3, <1>5, <4>1
      <4> QED BY <1>1, <1>2, <3>2, <4>1, <4>2 DEF Closed
    <3> HIDE DEF T
    <3>3. Closed(T, first, lnext)
        BY <3>1, <3>2 DEF Closed
    <3>4. Listed \subseteq T
        BY <1>1, <3>3, LeastClosed DEF T
    <3> QED BY <3>4 DEF T
  <2> QED BY <2>1, <2>2
<1>8. Listed' = Listed \ {n}
    BY <1>6, <1>7
<1>9. ASSUME first' # NULL PROVE lprev'[first'] = NULL
  <2>1. CASE p = NULL
      BY <1>1, <1>4, <1>5, <1>9, <2>1
  <2>2. CASE p # NULL
    <3>1. first' = first /\ first \in Listed /\ lprev[first] = NULL
        BY <1>1, <1>5, <1>9, <2>2 DEF Closed, ListInv
    <3>2. first # q
        BY <1>1, <1>4, <3>1
    <3> QED BY <1>1, <1>5, <3>1, <3>2
  <2> QED BY <2>1, <2>2
<1>10. ASSUME NEW m \in Listed', lnext'[m] # NULL PROVE lprev'[lnext'[m]] = m
  <2>1. m \in Listed /\ m # n /\ m \in Addresses
      BY <1>1, <1>8, <1>10
  <2>2. CASE m = p
    <3>1. lnext'[m] = q /\ q \in Addresses
        BY <1>1, <1>4, <1>5, <1>10, <2>1, <2>2
    <3> QED BY <1>5, <2>2, <3>1
  <2>3. CASE m # p
    <3>1. lnext'[m] = lnext[m] /\ lnext[m] \in Listed /\ lprev[lnext[m]] = m
        BY <1>1, <1>5, <1>10, <2>1, <2>3 DEF Closed, ListInv
    <3>2. lnext[m] # q
        BY <1>4, <1>1, <2>1, <3>1
    <3> QED BY <1>1, <1>5, <3>1, <3>2
  <2> QED BY <2>2, <2>3
<1> QED BY <1>8, <1>9, <1>10

-----------------------------------------------------------------------------
(* What the operations do to chains and list.                              *)

\* An append of a new key puts one item in front of its chain and of the list.
LEMMA InsertDoes ==
    ASSUME TypeInv, ChainInv, ListInv, NEW k \in Keys, NEW v \in Values, Insert(k, v)
    PROVE  /\ TypeInv' /\ ListInv'
           /\ \E n \in Addresses :
                 /\ n \notin Chained /\ Chained' = Chained \union {n}
                 /\ key' = [key EXCEPT ![n] = k]
                 /\ content' = [content EXCEPT ![n] = v]
                 /\ ToSet(table'[hash[k]]) = ToSet(Chain(k)) \union {n}
                 /\ OnceEach(table'[hash[k]])
                 /\ \A b \in Buckets \ {hash[k]} : table'[b] = table[b]
<1> DEFINE n == CHOOSE m \in Addresses : m \notin Chained
<1>1. n \in Addresses /\ n \notin Chained
    BY ChainedItems DEF Insert
<1>2. /\ key' = [key EXCEPT ![n] = k] /\ content' = [content EXCEPT ![n] = v]
      /\ table' = [table EXCEPT ![hash[k]] = <<n>> \o Chain(k)]
      /\ first' = n /\ lnext' = [lnext EXCEPT ![n] = first]
      /\ lprev' = [m \in Addresses |-> CASE m = n     -> NULL
                                         [] m = first -> n
                                         [] OTHER     -> lprev[m]]
      /\ hash' = hash /\ cleaner' = cleaner /\ live' = live /\ cleaned' = cleaned
      /\ stored' = v /\ v = stored + 1
    BY DEF Insert, InFront, Store
<1> HIDE DEF n
<1>3. /\ hash[k] \in Buckets /\ Chain(k) = table[hash[k]]
      /\ table \in [Buckets -> Seq(Addresses)]
      /\ first \in Address /\ lnext \in [Addresses -> Address]
      /\ lprev \in [Addresses -> Address]
      /\ key \in [Addresses -> Keys \union {NULL}]
      /\ content \in [Addresses -> Values \union {NULL}]
      /\ Chain(k) \in Seq(Addresses)
    BY DEF TypeInv, HashTypeOK, Chain, Address
<1>4. /\ <<n>> \o Chain(k) \in Seq(Addresses)
      /\ ToSet(<<n>> \o Chain(k)) = {n} \union ToSet(Chain(k))
      /\ n \notin ToSet(Chain(k)) /\ OnceEach(Chain(k)) => OnceEach(<<n>> \o Chain(k))
    BY <1>1, <1>3, FrontElements
<1>5. /\ table'[hash[k]] = <<n>> \o Chain(k)
      /\ \A b \in Buckets \ {hash[k]} : table'[b] = table[b]
    BY <1>2, <1>3
<1>6. TypeInv'
  <2>1. table' \in [Buckets -> Seq(Addresses)]
      BY <1>2, <1>3, <1>4
  <2>2. lnext' \in [Addresses -> Address]
      BY <1>1, <1>2, <1>3
  <2>3. lprev' \in [Addresses -> Address]
    <3>1. \A m \in Addresses :
             (CASE m = n -> NULL [] m = first -> n [] OTHER -> lprev[m]) \in Address
      <4> SUFFICES ASSUME NEW m \in Addresses
                   PROVE  (CASE m = n -> NULL [] m = first -> n [] OTHER -> lprev[m]) \in Address
          OBVIOUS
      <4>0. NULL \in Address /\ n \in Address /\ lprev[m] \in Address
          BY <1>1, <1>3 DEF Address
      <4>1. n # first
        <5>1. first = NULL \/ first \in Listed
            BY LeastClosed DEF Closed
        <5> QED BY <1>1, <5>1, HashAssumption DEF ListInv, HashAssumption
      <4> QED BY <4>0, <4>1
    <3> QED BY <1>2, <3>1
  <2>4. key' \in [Addresses -> Keys \union {NULL}]
      BY <1>1, <1>2, <1>3
  <2>5. content' \in [Addresses -> Values \union {NULL}]
      BY <1>1, <1>2, <1>3
  <2>6. HashTypeOK'
      BY <1>1, <1>2, <2>1, <2>2, <2>3, <2>4, <2>5 DEF HashTypeOK, Address
  <2>7. stored' \in 0 .. MaxStores
      BY <1>2 DEF Values
  <2> QED BY <1>2, <2>6, <2>7 DEF TypeInv
<1>7. ToSet(table'[hash[k]]) = ToSet(Chain(k)) \union {n}
    BY <1>4, <1>5
<1>8. Chained' = Chained \union {n}
  <2>1. \A m : m \in Chained' <=> \E b \in Buckets : m \in ToSet(table'[b])
      BY DEF Chained
  <2>2. \A m : m \in Chained <=> \E b \in Buckets : m \in ToSet(table[b])
      BY DEF Chained
  <2> QED BY <1>3, <1>5, <1>7, <2>1, <2>2
<1>9. OnceEach(table'[hash[k]])
  <2>1. n \notin ToSet(Chain(k))
      BY <1>1, <1>3, ChainedItems
  <2>2. OnceEach(Chain(k))
      BY <1>3 DEF ChainInv
  <2> QED BY <1>4, <1>5, <2>1, <2>2
<1>10. ListInv'
  <2>1. n \notin Listed
      BY <1>1 DEF ListInv
  <2>2. /\ Listed' = Listed \union {n} /\ lprev'[first'] = NULL
        /\ \A m \in Listed' : lnext'[m] # NULL => lprev'[lnext'[m]] = m
      BY <1>1, <1>2, <1>6, <2>1, ListInsert
  <2> QED BY <1>8, <2>2 DEF ListInv
<1> QED BY <1>1, <1>2, <1>5, <1>6, <1>7, <1>8, <1>9, <1>10

\* Erasing takes the item that is found off its chain and off the list.
LEMMA EraseDoes ==
    ASSUME TypeInv, ChainInv, ListInv, NEW k \in Keys, Erase(k)
    PROVE  /\ TypeInv' /\ ListInv'
           /\ Found(k) \in Chained /\ Chained' = Chained \ {Found(k)}
           /\ key' = [key EXCEPT ![Found(k)] = NULL]
           /\ content' = [content EXCEPT ![Found(k)] = NULL]
           /\ ToSet(table'[hash[k]]) = ToSet(Chain(k)) \ {Found(k)}
           /\ OnceEach(table'[hash[k]])
           /\ \A b \in Buckets \ {hash[k]} : table'[b] = table[b]
           /\ Found(k) \in ToSet(Chain(k)) /\ Same(key[Found(k)], k)
<1> DEFINE n == Found(k)
<1>1. /\ n \in Chained /\ n \in ToSet(Chain(k)) /\ Same(key[n], k)
      /\ Place(k) \in 1 .. Len(Chain(k)) /\ n = Chain(k)[Place(k)]
    BY LookUp DEF Erase, Found
<1>2. /\ key' = [key EXCEPT ![n] = NULL] /\ content' = [content EXCEPT ![n] = NULL]
      /\ table' = [table EXCEPT ![hash[k]] = RemoveAt(@, Place(k))]
      /\ first' = Unlinked(n).first /\ lnext' = Unlinked(n).lnext
      /\ lprev' = Unlinked(n).lprev
      /\ Clean({content[n]})
      /\ hash' = hash /\ cleaner' = cleaner /\ live' = live /\ stored' = stored
    BY DEF Erase
<1> HIDE DEF n
<1>3. /\ hash[k] \in Buckets /\ Chain(k) = table[hash[k]]
      /\ table \in [Buckets -> Seq(Addresses)]
      /\ first \in Address /\ lnext \in [Addresses -> Address]
      /\ lprev \in [Addresses -> Address]
      /\ key \in [Addresses -> Keys \union {NULL}]
      /\ content \in [Addresses -> Values \union {NULL}]
      /\ Chain(k) \in Seq(Addresses) /\ n \in Addresses
    BY <1>1, ChainedItems DEF TypeInv, HashTypeOK, Chain, Address
<1>4. /\ RemoveAt(Chain(k), Place(k)) \in Seq(Addresses)
      /\ ToSet(RemoveAt(Chain(k), Place(k))) = ToSet(Chain(k)) \ {n}
      /\ OnceEach(RemoveAt(Chain(k), Place(k)))
  <2>1. OnceEach(Chain(k))
      BY <1>3 DEF ChainInv
  <2> QED BY <1>1, <1>3, <2>1, RestElements
<1>5. /\ table'[hash[k]] = RemoveAt(Chain(k), Place(k))
      /\ \A b \in Buckets \ {hash[k]} : table'[b] = table[b]
    BY <1>2, <1>3
<1>6. TypeInv'
  <2>1. table' \in [Buckets -> Seq(Addresses)]
      BY <1>2, <1>3, <1>4
  <2>2. lnext[n] \in Address /\ lprev[n] \in Address
      BY <1>3
  <2>3. first' \in Address
      BY <1>2, <1>3, <2>2 DEF Unlinked
  <2>4. lnext' \in [Addresses -> Address]
      BY <1>2, <1>3, <2>2 DEF Unlinked
  <2>5. lprev' \in [Addresses -> Address]
      BY <1>2, <1>3, <2>2 DEF Unlinked
  <2>6. key' \in [Addresses -> Keys \union {NULL}]
      BY <1>2, <1>3
  <2>7. content' \in [Addresses -> Values \union {NULL}]
      BY <1>2, <1>3
  <2>8. HashTypeOK'
      BY <2>1, <2>3, <2>4, <2>5, <2>6, <2>7 DEF HashTypeOK, Address
  <2>9. cleaned' \in [Values -> Nat]
      BY <1>2 DEF Clean, TypeInv
  <2> QED BY <1>2, <2>8, <2>9 DEF TypeInv
<1>7. ToSet(table'[hash[k]]) = ToSet(Chain(k)) \ {n}
    BY <1>4, <1>5
<1>8. Chained' = Chained \ {n}
  <2>1. \A m : m \in Chained' <=> \E b \in Buckets : m \in ToSet(table'[b])
      BY DEF Chained
  <2>2. \A m : m \in Chained <=> \E b \in Buckets : m \in ToSet(table[b])
      BY DEF Chained
  <2>3. \A b \in Buckets \ {hash[k]} : n \notin ToSet(table[b])
    <3>1. \A b \in Buckets : n \in ToSet(table[b]) => hash[key[n]] = b
        BY DEF ChainInv
    <3>2. hash[key[n]] = hash[k]
        BY <1>1, <1>3, <3>1
    <3> QED BY <3>1, <3>2
  <2>4. \A b \in Buckets : ToSet(table'[b]) = ToSet(table[b]) \ {n}
      BY <1>3, <1>5, <1>7, <2>3
  <2>5. \A m : m \in Chained' <=> m \in Chained /\ m # n
      BY <2>1, <2>2, <2>4
  <2> QED BY <2>5
<1>9. OnceEach(table'[hash[k]])
    BY <1>4, <1>5
<1>10. ListInv'
  <2>1. n \in Listed
      BY <1>1 DEF ListInv
  <2>2. /\ Listed' = Listed \ {n} /\ (first' # NULL => lprev'[first'] = NULL)
        /\ \A m \in Listed' : lnext'[m] # NULL => lprev'[lnext'[m]] = m
      BY <1>2, <1>6, <2>1, ListErase
  <2> QED BY <1>8, <2>2 DEF ListInv
<1> QED BY <1>1, <1>2, <1>5, <1>6, <1>7, <1>8, <1>9, <1>10 DEF n

\* An append of a key that is there replaces the content of its item.
LEMMA ReplaceDoes ==
    ASSUME TypeInv, ChainInv, ListInv, NEW k \in Keys, NEW v \in Values, Replace(k, v)
    PROVE  /\ TypeInv' /\ ListInv' /\ ChainInv'
           /\ Found(k) \in Chained /\ Found(k) \in ToSet(Chain(k))
           /\ Same(key[Found(k)], k)
           /\ Chained' = Chained /\ key' = key
           /\ content' = [content EXCEPT ![Found(k)] = v]
<1>1. Found(k) \in Chained /\ Found(k) \in ToSet(Chain(k)) /\ Same(key[Found(k)], k)
    BY LookUp DEF Replace
<1>2. /\ content' = [content EXCEPT ![Found(k)] = v]
      /\ hash' = hash /\ cleaner' = cleaner /\ live' = live /\ table' = table
      /\ first' = first /\ lnext' = lnext /\ lprev' = lprev /\ key' = key
      /\ stored' = v /\ v = stored + 1 /\ Clean({v})
    BY DEF Replace, Store
<1>3. Found(k) \in Addresses /\ content \in [Addresses -> Values \union {NULL}]
    BY <1>1, ChainedItems DEF TypeInv, HashTypeOK
<1>4. content' \in [Addresses -> Values \union {NULL}]
    BY <1>2, <1>3
<1>5. TypeInv'
  <2>1. HashTypeOK'
      BY <1>2, <1>4 DEF TypeInv, HashTypeOK
  <2>2. cleaned' \in [Values -> Nat]
      BY <1>2 DEF Clean, TypeInv
  <2>3. stored' \in 0 .. MaxStores
      BY <1>2 DEF Values
  <2> QED BY <1>2, <2>1, <2>2, <2>3 DEF TypeInv
<1>6. Chained' = Chained
    BY <1>2 DEF Chained
<1>7. Listed' = Listed
    BY <1>2 DEF Listed
<1>8. ListInv'
    BY <1>2, <1>6, <1>7 DEF ListInv
<1>9. ChainInv'
  <2>1. \A n \in Chained : content'[n] \in Values
      BY <1>2, <1>3, ChainedItems DEF ChainInv
  <2> QED BY <1>2, <1>6, <2>1 DEF ChainInv
<1> QED BY <1>1, <1>2, <1>5, <1>6, <1>8, <1>9

\* A table that is freed has nothing.
LEMMA FreeDoes ==
    ASSUME TypeInv, hashtbl_free
    PROVE  TypeInv' /\ ListInv' /\ ChainInv' /\ Chained' = {} /\ DOMAIN dict' = {}
<1>1. /\ live' = FALSE /\ table' = [b \in Buckets |-> <<>>] /\ first' = NULL
      /\ lnext' = Nowhere /\ lprev' = Nowhere /\ key' = Nowhere /\ content' = Nowhere
      /\ dict' = <<>> /\ Clean(Contents)
      /\ hash' = hash /\ cleaner' = cleaner /\ stored' = stored
    BY DEF hashtbl_free
<1>2. TypeInv'
  <2>1. HashTypeOK'
    <3>1. <<>> \in Seq(Addresses)
        BY EmptySeq
    <3> QED BY <1>1, <3>1 DEF HashTypeOK, Nowhere
  <2>2. cleaned' \in [Values -> Nat]
      BY <1>1 DEF Clean, TypeInv
  <2> QED BY <1>1, <2>1, <2>2 DEF TypeInv
<1>3. \A b \in Buckets : ToSet(table'[b]) = {} /\ OnceEach(table'[b])
    BY <1>1 DEF ToSet, OnceEach
<1>4. Chained' = {}
    BY <1>3 DEF Chained
<1>5. Listed' = {}
  <2>1. Closed({}, first', lnext')
      BY <1>1 DEF Closed
  <2> QED BY <1>2, <2>1, LeastClosedNext
<1>6. ListInv'
    BY <1>1, <1>4, <1>5 DEF ListInv
<1>7. ChainInv'
    BY <1>3, <1>4 DEF ChainInv
<1>8. DOMAIN dict' = {}
    BY <1>1
<1> QED BY <1>2, <1>4, <1>6, <1>7, <1>8

-----------------------------------------------------------------------------
(* The invariants.                                                         *)

\* Items of a chain other than the new one keep what is true of them.
LEMMA InsertKeeps ==
    ASSUME HashInv, NEW k \in Keys, NEW v \in Values, Insert(k, v)
    PROVE  HashInv'
<1>1. TypeInv /\ ChainInv /\ ListInv /\ DictInv
    BY DEF HashInv
<1>2. TypeInv' /\ ListInv'
    BY <1>1, InsertDoes
<1>3. PICK n \in Addresses :
          /\ n \notin Chained /\ Chained' = Chained \union {n}
          /\ key' = [key EXCEPT ![n] = k]
          /\ content' = [content EXCEPT ![n] = v]
          /\ ToSet(table'[hash[k]]) = ToSet(Chain(k)) \union {n}
          /\ OnceEach(table'[hash[k]])
          /\ \A b \in Buckets \ {hash[k]} : table'[b] = table[b]
    BY <1>1, InsertDoes
<1>4. /\ hash' = hash /\ ~Has(k)
      /\ dict' = [e \in DOMAIN dict \union {Entry(k)} |->
                     IF e = Entry(k) THEN v ELSE dict[e]]
    BY DEF Insert, Store
<1>5. /\ hash[k] \in Buckets /\ Chain(k) = table[hash[k]]
      /\ key \in [Addresses -> Keys \union {NULL}]
      /\ content \in [Addresses -> Values \union {NULL}]
      /\ Chained \subseteq Addresses
    BY <1>1, ChainedItems DEF TypeInv, HashTypeOK, Chain
<1>6. /\ key'[n] = k /\ content'[n] = v
      /\ \A m \in Chained : m # n /\ key'[m] = key[m] /\ content'[m] = content[m]
    BY <1>3, <1>5
<1>7. \A m \in Chained : ~(Same(key[m], k) /\ hash[key[m]] = hash[k])
  <2>1. \A m \in ToSet(Chain(k)) : ~Same(key[m], k)
      BY <1>1, <1>4, LookUp
  <2>2. \A m \in Chained : m \in ToSet(table[hash[key[m]]])
      BY <1>1, ItsChain
  <2> QED BY <1>5, <2>1, <2>2
<1>8. \A m \in Chained : key[m] \in Keys /\ content[m] \in Values
    BY <1>1 DEF ChainInv
<1>9. ChainInv'
  <2>1. \A m \in Chained' : key'[m] \in Keys /\ content'[m] \in Values
      BY <1>3, <1>6, <1>8
  <2>2. \A b \in Buckets : OnceEach(table'[b])
      BY <1>1, <1>3 DEF ChainInv
  <2>3. ASSUME NEW b \in Buckets, NEW m \in ToSet(table'[b]) PROVE hash'[key'[m]] = b
    <3>1. CASE m = n
      <4>1. b = hash[k]
        <5>1. b # hash[k] => n \in Chained
            BY <1>1, <1>3, <2>3, <3>1, ChainedItems
        <5> QED BY <1>3, <5>1
      <4> QED BY <1>4, <1>6, <3>1, <4>1
    <3>2. CASE m # n
      <4>1. m \in ToSet(table[b])
          BY <1>3, <1>5, <2>3, <3>2
      <4>2. hash[key[m]] = b /\ m \in Chained
          BY <1>1, <4>1, ChainedItems DEF ChainInv
      <4> QED BY <1>4, <1>6, <4>2
    <3> QED BY <3>1, <3>2
  <2>4. ASSUME NEW m \in Chained', NEW l \in Chained',
               Same(key'[m], key'[l]), hash'[key'[m]] = hash'[key'[l]]
        PROVE  m = l
    <3>1. CASE m \in Chained /\ l \in Chained
        BY <1>1, <1>4, <1>6, <2>4, <3>1 DEF ChainInv
    <3>2. CASE m = n /\ l \in Chained
      <4>1. Same(k, key[l]) /\ hash[k] = hash[key[l]] /\ key[l] \in Keys
          BY <1>4, <1>6, <1>8, <2>4, <3>2
      <4>2. Same(key[l], k)
          BY <4>1, HashAssumption DEF HashAssumption
      <4> QED BY <1>7, <3>2, <4>1, <4>2
    <3>3. CASE m \in Chained /\ l = n
        BY <1>4, <1>6, <1>7, <2>4, <3>3
    <3> QED BY <1>3, <3>1, <3>2, <3>3
  <2> QED BY <2>1, <2>2, <2>3, <2>4 DEF ChainInv
<1>10. DictInv'
  <2>1. \A m \in Chained : Entry(key[m]) # Entry(k)
      BY <1>1, <1>7, <1>8, Entries
  <2>2. ASSUME NEW m \in Chained'
        PROVE  Entry(key'[m]) \in DOMAIN dict' /\ dict'[Entry(key'[m])] = content'[m]
    <3>1. CASE m = n
        BY <1>4, <1>6, <3>1
    <3>2. CASE m \in Chained
      <4>1. /\ Entry(key[m]) \in DOMAIN dict /\ dict[Entry(key[m])] = content[m]
            /\ Entry(key[m]) # Entry(k)
          BY <1>1, <2>1, <3>2, EntryIs DEF DictInv
      <4> QED BY <1>4, <1>6, <3>2, <4>1
    <3> QED BY <1>3, <3>1, <3>2
  <2>3. ASSUME NEW e \in DOMAIN dict' PROVE \E m \in Chained' : e = Entry(key'[m])
    <3>1. CASE e = Entry(k)
        BY <1>3, <1>6, <3>1
    <3>2. CASE e \in DOMAIN dict
      <4>1. PICK m \in Chained : e = Entry(key[m])
          BY <1>1, <3>2, EntryIs DEF DictInv
      <4> QED BY <1>3, <1>6, <4>1
    <3> QED BY <1>4, <2>3, <3>1, <3>2
  <2> QED BY <1>4, <2>2, <2>3, EntryIs DEF DictInv
<1> QED BY <1>2, <1>9, <1>10 DEF HashInv

\* So do those other than the erased one.
LEMMA EraseKeeps ==
    ASSUME HashInv, NEW k \in Keys, Erase(k)
    PROVE  HashInv'
<1> DEFINE n == Found(k)
<1>1. TypeInv /\ ChainInv /\ ListInv /\ DictInv
    BY DEF HashInv
<1>2. /\ TypeInv' /\ ListInv' /\ n \in Chained /\ Chained' = Chained \ {n}
      /\ key' = [key EXCEPT ![n] = NULL] /\ content' = [content EXCEPT ![n] = NULL]
      /\ ToSet(table'[hash[k]]) = ToSet(Chain(k)) \ {n}
      /\ OnceEach(table'[hash[k]])
      /\ \A b \in Buckets \ {hash[k]} : table'[b] = table[b]
      /\ n \in ToSet(Chain(k)) /\ Same(key[n], k)
    BY <1>1, EraseDoes
<1>3. /\ hash' = hash
      /\ dict' = [e \in DOMAIN dict \ {Entry(k)} |-> dict[e]]
    BY DEF Erase, Forget
<1> HIDE DEF n
<1>4. /\ hash[k] \in Buckets /\ Chain(k) = table[hash[k]]
      /\ key \in [Addresses -> Keys \union {NULL}]
      /\ content \in [Addresses -> Values \union {NULL}]
      /\ Chained \subseteq Addresses
    BY <1>1, ChainedItems DEF TypeInv, HashTypeOK, Chain
<1>5. \A m \in Chained \ {n} : key'[m] = key[m] /\ content'[m] = content[m]
    BY <1>2, <1>4
<1>6. \A m \in Chained : key[m] \in Keys /\ content[m] \in Values
    BY <1>1 DEF ChainInv
<1>7. \A b \in Buckets : ToSet(table'[b]) \subseteq ToSet(table[b]) \ {n}
  <2>1. \A b \in Buckets : n \in ToSet(table[b]) => b = hash[k]
    <3>1. \A b \in Buckets : n \in ToSet(table[b]) => hash[key[n]] = b
        BY <1>1 DEF ChainInv
    <3> QED BY <1>2, <1>4, <3>1
  <2> QED BY <1>2, <1>4, <2>1
<1>8. ChainInv'
  <2>1. \A m \in Chained' : key'[m] \in Keys /\ content'[m] \in Values
      BY <1>2, <1>5, <1>6
  <2>2. \A b \in Buckets : OnceEach(table'[b])
      BY <1>1, <1>2 DEF ChainInv
  <2>3. ASSUME NEW b \in Buckets, NEW m \in ToSet(table'[b]) PROVE hash'[key'[m]] = b
    <3>1. m \in ToSet(table[b]) /\ m # n
        BY <1>7, <2>3
    <3>2. hash[key[m]] = b /\ m \in Chained
        BY <1>1, <3>1, ChainedItems DEF ChainInv
    <3> QED BY <1>3, <1>5, <3>1, <3>2
  <2>4. ASSUME NEW m \in Chained', NEW l \in Chained',
               Same(key'[m], key'[l]), hash'[key'[m]] = hash'[key'[l]]
        PROVE  m = l
      BY <1>1, <1>2, <1>3, <1>5, <2>4 DEF ChainInv
  <2> QED BY <2>1, <2>2, <2>3, <2>4 DEF ChainInv
<1>9. DictInv'
  <2>1. Entry(key[n]) = Entry(k)
    <3>1. key[n] \in Keys /\ hash[key[n]] = hash[k]
        BY <1>1, <1>2, <1>4, <1>6 DEF ChainInv
    <3> QED BY <1>1, <1>2, <3>1, Entries
  <2>2. \A m \in Chained \ {n} : Entry(key[m]) # Entry(k)
    <3> SUFFICES ASSUME NEW m \in Chained \ {n}, Entry(key[m]) = Entry(k)
                 PROVE  FALSE
        OBVIOUS
    <3>1. Same(key[m], key[n]) /\ hash[key[m]] = hash[key[n]]
        BY <1>1, <1>2, <1>6, <2>1, Entries
    <3> QED BY <1>1, <1>2, <3>1 DEF ChainInv
  <2>3. ASSUME NEW m \in Chained'
        PROVE  Entry(key'[m]) \in DOMAIN dict' /\ dict'[Entry(key'[m])] = content'[m]
      BY <1>1, <1>2, <1>3, <1>5, <2>2, EntryIs DEF DictInv
  <2>4. ASSUME NEW e \in DOMAIN dict' PROVE \E m \in Chained' : e = Entry(key'[m])
    <3>1. e \in DOMAIN dict /\ e # Entry(k)
        BY <1>3, <2>4
    <3>2. PICK m \in Chained : e = Entry(key[m])
        BY <1>1, <3>1, EntryIs DEF DictInv
    <3> QED BY <1>2, <1>5, <2>1, <3>1, <3>2
  <2> QED BY <1>3, <2>3, <2>4, EntryIs DEF DictInv
<1> QED BY <1>2, <1>8, <1>9 DEF HashInv

\* Replacing changes the value under one entry.
LEMMA ReplaceKeeps ==
    ASSUME HashInv, NEW k \in Keys, NEW v \in Values, Replace(k, v)
    PROVE  HashInv'
<1> DEFINE n == Found(k)
<1>1. TypeInv /\ ChainInv /\ ListInv /\ DictInv
    BY DEF HashInv
<1>2. /\ TypeInv' /\ ListInv' /\ ChainInv' /\ n \in Chained /\ n \in ToSet(Chain(k))
      /\ Same(key[n], k) /\ Chained' = Chained /\ key' = key
      /\ content' = [content EXCEPT ![n] = v]
    BY <1>1, ReplaceDoes
<1>3. /\ hash' = hash
      /\ dict' = [e \in DOMAIN dict \union {Entry(k)} |->
                     IF e = Entry(k) THEN v ELSE dict[e]]
    BY DEF Replace, Store
<1> HIDE DEF n
<1>4. /\ hash[k] \in Buckets /\ Chain(k) = table[hash[k]]
      /\ content \in [Addresses -> Values \union {NULL}]
      /\ Chained \subseteq Addresses
    BY <1>1, ChainedItems DEF TypeInv, HashTypeOK, Chain
<1>5. content'[n] = v /\ \A m \in Chained \ {n} : content'[m] = content[m]
    BY <1>2, <1>4
<1>6. \A m \in Chained : key[m] \in Keys
    BY <1>1 DEF ChainInv
<1>7. Entry(key[n]) = Entry(k)
  <2>1. key[n] \in Keys /\ hash[key[n]] = hash[k]
      BY <1>1, <1>2, <1>4, <1>6 DEF ChainInv
  <2> QED BY <1>1, <1>2, <2>1, Entries
<1>8. \A m \in Chained \ {n} : Entry(key[m]) # Entry(k)
  <2> SUFFICES ASSUME NEW m \in Chained \ {n}, Entry(key[m]) = Entry(k)
               PROVE  FALSE
      OBVIOUS
  <2>1. Same(key[m], key[n]) /\ hash[key[m]] = hash[key[n]]
      BY <1>1, <1>2, <1>6, <1>7, Entries
  <2> QED BY <1>1, <1>2, <2>1 DEF ChainInv
<1>9. DictInv'
  <2>1. ASSUME NEW m \in Chained
        PROVE  Entry(key[m]) \in DOMAIN dict' /\ dict'[Entry(key[m])] = content'[m]
    <3>1. CASE m = n
        BY <1>3, <1>5, <1>7, <3>1
    <3>2. CASE m # n
      <4>1. Entry(key[m]) \in DOMAIN dict /\ dict[Entry(key[m])] = content[m]
          BY <1>1, EntryIs DEF DictInv
      <4> QED BY <1>3, <1>5, <1>8, <3>2, <4>1
    <3> QED BY <3>1, <3>2
  <2>2. ASSUME NEW e \in DOMAIN dict' PROVE \E m \in Chained : e = Entry(key[m])
      BY <1>1, <1>2, <1>3, <1>7, <2>2, EntryIs DEF DictInv
  <2> QED BY <1>2, <1>3, <2>1, <2>2, EntryIs DEF DictInv
<1> QED BY <1>2, <1>9 DEF HashInv

\* The invariant holds of a new table.
LEMMA HashInvInit == HashInit => HashInv
<1> SUFFICES ASSUME HashInit PROVE HashInv
    OBVIOUS
<1>1. /\ hash \in [Keys -> Buckets] /\ cleaner \in BOOLEAN /\ live = TRUE
      /\ table = [b \in Buckets |-> <<>>] /\ first = NULL
      /\ lnext = Nowhere /\ lprev = Nowhere
      /\ key = Nowhere /\ content = Nowhere
      /\ dict = <<>> /\ stored = 0 /\ cleaned = [v \in Values |-> 0]
    BY DEF HashInit
<1>2. TypeInv
  <2>1. <<>> \in Seq(Addresses)
      BY EmptySeq
  <2> QED
      BY <1>1, <2>1, HashAssumption DEF TypeInv, HashTypeOK, Nowhere, HashAssumption
<1>3. \A b \in Buckets : ToSet(table[b]) = {} /\ OnceEach(table[b])
    BY <1>1 DEF ToSet, OnceEach
<1>4. Chained = {}
    BY <1>3 DEF Chained
<1>5. Listed = {}
  <2>1. Closed({}, first, lnext)
      BY <1>1 DEF Closed
  <2> QED BY <2>1, LeastClosed
<1>6. ListInv
    BY <1>1, <1>4, <1>5 DEF ListInv
<1>7. ChainInv
    BY <1>3, <1>4 DEF ChainInv
<1>8. DictInv
    BY <1>1, <1>4, EntryIs DEF DictInv
<1> QED BY <1>2, <1>6, <1>7, <1>8 DEF HashInv

\* It is kept by every operation.
LEMMA HashInvNext == HashInv /\ [HashNext]_hashVars => HashInv'
<1> SUFFICES ASSUME HashInv, [HashNext]_hashVars PROVE HashInv'
    OBVIOUS
<1>1. ASSUME NEW k \in Keys, NEW v \in Values, Replace(k, v) PROVE HashInv'
    BY <1>1, ReplaceKeeps
<1>2. ASSUME NEW k \in Keys, NEW v \in Values, Insert(k, v) PROVE HashInv'
    BY <1>2, InsertKeeps
<1>3. ASSUME NEW k \in Keys, Erase(k) PROVE HashInv'
    BY <1>3, EraseKeeps
<1>4. CASE hashtbl_free
  <2>1. TypeInv' /\ ListInv' /\ ChainInv' /\ Chained' = {} /\ DOMAIN dict' = {}
      BY <1>4, FreeDoes DEF HashInv
  <2>2. DictInv'
      BY <2>1, EntryIs DEF DictInv
  <2> QED BY <2>1, <2>2 DEF HashInv
<1>5. CASE UNCHANGED hashVars
  <2>1. /\ hash' = hash /\ cleaner' = cleaner /\ live' = live /\ table' = table
        /\ first' = first /\ lnext' = lnext /\ lprev' = lprev /\ key' = key
        /\ content' = content /\ dict' = dict /\ stored' = stored
        /\ cleaned' = cleaned
      BY <1>5 DEF hashVars
  <2>2. Chained' = Chained
      BY <2>1 DEF Chained
  <2>3. Listed' = Listed
      BY <2>1 DEF Listed
  <2>4. TypeInv'
      BY <2>1 DEF HashInv, TypeInv, HashTypeOK
  <2>5. ChainInv'
      BY <2>1, <2>2 DEF HashInv, ChainInv
  <2>6. ListInv'
      BY <2>1, <2>2, <2>3 DEF HashInv, ListInv
  <2>7. DictInv'
      BY <2>1, <2>2 DEF HashInv, DictInv
  <2> QED BY <2>4, <2>5, <2>6, <2>7 DEF HashInv
<1> QED BY <1>1, <1>2, <1>3, <1>4, <1>5 DEF HashNext

\* What the invariant says of chains and list is the property.
LEMMA HashInvAgrees == HashInv => ListsAgree
<1> SUFFICES ASSUME HashInv PROVE ListsAgree
    OBVIOUS
<1>1. TypeInv /\ ChainInv /\ ListInv
    BY DEF HashInv
<1>2. ASSUME NEW b \in Buckets, NEW c \in Buckets,
             NEW i \in DOMAIN table[b], NEW j \in DOMAIN table[c],
             table[b][i] = table[c][j]
      PROVE  b = c /\ i = j
  <2>1. table[b] \in Seq(Addresses) /\ table[c] \in Seq(Addresses)
      BY <1>1, ChainedItems
  <2>2. i \in 1 .. Len(table[b]) /\ j \in 1 .. Len(table[c])
      BY <2>1, LenProperties
  <2>3. table[b][i] \in ToSet(table[b]) /\ table[c][j] \in ToSet(table[c])
      BY <2>1, <2>2, Elements
  <2>4. b = c
      BY <1>1, <1>2, <2>3 DEF ChainInv
  <2> QED BY <1>1, <1>2, <2>2, <2>4 DEF ChainInv, OnceEach
<1> QED BY <1>1, <1>2 DEF ListInv, ListsAgree

\* A look-up returns the content of the item whose entry it is.
LEMMA HashInvDictionary == HashInv => IsDictionary
<1> SUFFICES ASSUME HashInv, NEW k \in Keys
             PROVE  Seek(k) = IF Entry(k) \in DOMAIN dict THEN dict[Entry(k)] ELSE NULL
    BY DEF IsDictionary
<1>1. TypeInv /\ ChainInv /\ DictInv /\ hash[k] \in Buckets /\ Chain(k) = table[hash[k]]
    BY DEF HashInv, TypeInv, Chain
<1>2. CASE Has(k)
  <2>1. Found(k) \in ToSet(Chain(k)) /\ Found(k) \in Chained /\ Same(key[Found(k)], k)
      BY <1>1, <1>2, LookUp
  <2>2. key[Found(k)] \in Keys /\ hash[key[Found(k)]] = hash[k]
      BY <1>1, <2>1 DEF ChainInv
  <2>3. Entry(key[Found(k)]) = Entry(k)
      BY <1>1, <2>1, <2>2, Entries
  <2>4. Entry(k) \in DOMAIN dict /\ dict[Entry(k)] = content[Found(k)]
      BY <1>1, <2>1, <2>3, EntryIs DEF DictInv
  <2> QED BY <1>2, <2>4 DEF Seek
<1>3. CASE ~Has(k)
  <2>1. Entry(k) \notin DOMAIN dict
    <3> SUFFICES ASSUME Entry(k) \in DOMAIN dict PROVE FALSE
        OBVIOUS
    <3>1. PICK n \in Chained : Entry(k) = Entry(key[n])
        BY <1>1, EntryIs DEF DictInv
    <3>2. key[n] \in Keys /\ n \in ToSet(table[hash[key[n]]])
        BY <1>1, ItsChain
    <3>3. Same(key[n], k) /\ hash[key[n]] = hash[k]
        BY <1>1, <3>1, <3>2, Entries
    <3> QED BY <1>1, <1>3, <3>2, <3>3, LookUp
  <2> QED BY <1>3, <2>1 DEF Seek
<1> QED BY <1>2, <1>3

-----------------------------------------------------------------------------
(* The cleaner.                                                            *)

\* No two items have one value, and the cleaner was called with the values
\* that no item has any more, if no caller replaces in a table with a cleaner.
LEMMA CleanInvNext ==
    ASSUME Careful
    PROVE  HashInv /\ CleanInv /\ [HashNext]_hashVars => CleanInv'
<1> SUFFICES ASSUME HashInv, CleanInv, [HashNext]_hashVars PROVE CleanInv'
    OBVIOUS
<1>1. /\ TypeInv /\ ChainInv /\ ListInv /\ stored \in Nat
      /\ cleaned \in [Values -> Nat]
      /\ content \in [Addresses -> Values \union {NULL}]
      /\ Chained \subseteq Addresses
      /\ \A n \in Chained : content[n] \in Values
      /\ Values \subseteq Nat /\ \A n \in Chained : content[n] \in Nat
    BY ChainedItems DEF HashInv, TypeInv, HashTypeOK, ChainInv, Values
<1>2. /\ \A n \in Chained : content[n] <= stored
      /\ \A n, m \in Chained : content[n] = content[m] => n = m
    BY DEF CleanInv
<1>3. ASSUME NEW k \in Keys, NEW v \in Values, Replace(k, v) PROVE CleanInv'
  <2>1. /\ Found(k) \in Chained /\ Chained' = Chained
        /\ content' = [content EXCEPT ![Found(k)] = v]
      BY <1>1, <1>3, ReplaceDoes
  <2>2. stored' = v /\ v = stored + 1 /\ ~cleaner'
      BY <1>3 DEF Replace, Store
  <2>3. /\ content'[Found(k)] = v
        /\ \A n \in Chained \ {Found(k)} : content'[n] = content[n]
      BY <1>1, <2>1
  <2>4. \A n \in Chained' : content'[n] <= stored'
      BY <1>1, <1>2, <2>1, <2>2, <2>3
  <2>5. \A n, m \in Chained' : content'[n] = content'[m] => n = m
    <3>1. \A n \in Chained \ {Found(k)} : content'[n] # v
        BY <1>1, <1>2, <2>2, <2>3
    <3> QED BY <1>2, <2>1, <2>3, <3>1
  <2> QED BY <2>2, <2>4, <2>5 DEF CleanInv
<1>4. ASSUME NEW k \in Keys, NEW v \in Values, Insert(k, v) PROVE CleanInv'
  <2>1. PICK n \in Addresses :
            /\ n \notin Chained /\ Chained' = Chained \union {n}
            /\ content' = [content EXCEPT ![n] = v]
      BY <1>1, <1>4, InsertDoes
  <2>2. /\ stored' = v /\ v = stored + 1
        /\ cleaner' = cleaner /\ cleaned' = cleaned
      BY <1>4 DEF Insert, Store
  <2>3. content'[n] = v /\ \A m \in Chained : m # n /\ content'[m] = content[m]
      BY <1>1, <2>1
  <2>4. \A m \in Chained' : content'[m] <= stored'
      BY <1>1, <1>2, <2>1, <2>2, <2>3
  <2>5. \A m, l \in Chained' : content'[m] = content'[l] => m = l
    <3>1. \A m \in Chained : content'[m] # v
        BY <1>1, <1>2, <2>2, <2>3
    <3> QED BY <1>2, <2>1, <2>3, <3>1
  <2>6. ASSUME cleaner', NEW w \in Values
        PROVE  cleaned'[w] = IF w <= stored' /\ \A m \in Chained' : content'[m] # w
                             THEN 1 ELSE 0
    <3>1. cleaned[w] = IF w <= stored /\ \A m \in Chained : content[m] # w
                       THEN 1 ELSE 0
        BY <2>2, <2>6 DEF CleanInv
    <3>2. CASE w = v
      <4>1. ~(w <= stored) /\ n \in Chained' /\ content'[n] = w
          BY <1>1, <2>1, <2>2, <2>3, <3>2
      <4> QED BY <2>2, <3>1, <4>1
    <3>3. CASE w # v
      <4>1. w <= stored' <=> w <= stored
          BY <1>1, <2>2, <3>3
      <4>2. (\A m \in Chained' : content'[m] # w) <=> (\A m \in Chained : content[m] # w)
          BY <2>1, <2>3, <3>3
      <4> QED BY <2>2, <3>1, <4>1, <4>2
    <3> QED BY <3>2, <3>3
  <2> QED BY <2>4, <2>5, <2>6 DEF CleanInv
<1>5. ASSUME NEW k \in Keys, Erase(k) PROVE CleanInv'
  <2> DEFINE n == Found(k)
  <2>1. /\ n \in Chained /\ Chained' = Chained \ {n}
        /\ content' = [content EXCEPT ![n] = NULL]
      BY <1>1, <1>5, EraseDoes
  <2>2. /\ stored' = stored /\ cleaner' = cleaner
        /\ cleaned' = [w \in Values |->
                          cleaned[w] + IF cleaner /\ w \in {content[n]} THEN 1 ELSE 0]
      BY <1>5 DEF Erase, Clean
  <2> HIDE DEF n
  <2>3. \A m \in Chained' : m \in Chained /\ m # n /\ content'[m] = content[m]
      BY <1>1, <2>1
  <2>4. \A m \in Chained' : content'[m] <= stored'
      BY <1>2, <2>2, <2>3
  <2>5. \A m, l \in Chained' : content'[m] = content'[l] => m = l
      BY <1>2, <2>3
  <2>6. ASSUME cleaner', NEW w \in Values
        PROVE  cleaned'[w] = IF w <= stored' /\ \A m \in Chained' : content'[m] # w
                             THEN 1 ELSE 0
    <3>1. cleaned[w] = IF w <= stored /\ \A m \in Chained : content[m] # w
                       THEN 1 ELSE 0
        BY <2>2, <2>6 DEF CleanInv
    <3>2. CASE w = content[n]
      <4>1. /\ cleaned[w] = 0 /\ w <= stored
            /\ \A m \in Chained' : content'[m] # w
          BY <1>2, <2>1, <2>3, <3>1, <3>2
      <4>2. cleaned'[w] = cleaned[w] + 1
          BY <2>2, <2>6, <3>2
      <4> QED BY <2>2, <4>1, <4>2
    <3>3. CASE w # content[n]
      <4>1. cleaned'[w] = cleaned[w]
          BY <1>1, <2>2, <3>3
      <4>2. (\A m \in Chained' : content'[m] # w) <=> (\A m \in Chained : content[m] # w)
          BY <2>1, <2>3, <3>3
      <4> QED BY <2>2, <3>1, <4>1, <4>2
    <3> QED BY <3>2, <3>3
  <2> QED BY <2>4, <2>5, <2>6 DEF CleanInv
<1>6. CASE hashtbl_free
  <2>1. Chained' = {}
      BY <1>1, <1>6, FreeDoes
  <2>2. /\ stored' = stored /\ cleaner' = cleaner
        /\ cleaned' = [w \in Values |->
                          cleaned[w] + IF cleaner /\ w \in Contents THEN 1 ELSE 0]
      BY <1>6 DEF hashtbl_free, Clean
  <2>3. ASSUME cleaner', NEW w \in Values
        PROVE  cleaned'[w] = IF w <= stored' /\ \A m \in Chained' : content'[m] # w
                             THEN 1 ELSE 0
    <3>1. cleaned[w] = IF w <= stored /\ \A m \in Chained : content[m] # w
                       THEN 1 ELSE 0
        BY <2>2, <2>3 DEF CleanInv
    <3>2. w \in Contents <=> \E m \in Chained : content[m] = w
        BY DEF Contents
    <3>3. w \in Contents => w <= stored
        BY <1>2, <3>2
    <3>4. cleaned'[w] = cleaned[w] + IF w \in Contents THEN 1 ELSE 0
        BY <2>2, <2>3
    <3> QED BY <2>1, <2>2, <3>1, <3>2, <3>3, <3>4
  <2> QED BY <2>1, <2>3 DEF CleanInv
<1>7. CASE UNCHANGED hashVars
    BY <1>7 DEF hashVars, CleanInv, Chained
<1> QED BY <1>3, <1>4, <1>5, <1>6, <1>7 DEF HashNext

\* What items have is what was stored and not erased.
LEMMA CleanInvReleased == HashInv /\ CleanInv => ReleasedWhenGone
<1> SUFFICES ASSUME HashInv, CleanInv, NEW v \in 1 .. stored, cleaner
             PROVE  cleaned[v] = IF \E e \in DOMAIN dict : dict[e] = v THEN 0 ELSE 1
    BY DEF ReleasedWhenGone
<1>1. DictInv /\ stored \in Nat /\ v \in Values /\ v <= stored
    BY HashAssumption DEF HashInv, TypeInv, Values, HashAssumption
<1>2. (\E e \in DOMAIN dict : dict[e] = v) <=> \E n \in Chained : content[n] = v
    BY <1>1, EntryIs DEF DictInv
<1>3. cleaned[v] = IF \A n \in Chained : content[n] # v THEN 1 ELSE 0
    BY <1>1 DEF CleanInv
<1> QED BY <1>2, <1>3

-----------------------------------------------------------------------------
(* The theorems.                                                           *)

\* The variables of a table keep their types (ape_hash.c).
THEOREM HashTypeCorrect ==
    HashInit /\ [][HashNext]_hashVars => []HashTypeOK
<1>1. HashInv => HashTypeOK
    BY DEF HashInv, TypeInv
<1> QED BY <1>1, HashInvInit, HashInvNext, PTL

\* The chains and the list of all items hold the same items, each once, and
\* the list's pointers are inverse; a look-up returns what was stored last
\* under the key, or under one the table can not tell from it, unless that was
\* erased (hashtbl_append, hashtbl_erase, hashtbl_seek).
THEOREM HashCorrect ==
    HashInit /\ [][HashNext]_hashVars => []HashSound
<1>1. HashInv => HashSound
    BY HashInvAgrees, HashInvDictionary DEF HashSound
<1> QED BY <1>1, HashInvInit, HashInvNext, PTL

\* A table with a cleaner releases each value once, when it stops to hold it,
\* if no caller replaces a value in such a table (hashtbl_erase, hashtbl_free).
THEOREM ReleasedCorrect ==
    ASSUME Careful
    PROVE  HashInit /\ [][HashNext]_hashVars => []ReleasedWhenGone
<1>1. HashInit => HashInv /\ CleanInv
  <2>1. ASSUME HashInit PROVE CleanInv
    <3>1. stored = 0 /\ cleaned = [v \in Values |-> 0] /\ table = [b \in Buckets |-> <<>>]
        BY <2>1 DEF HashInit
    <3>2. Chained = {}
        BY <3>1 DEF Chained, ToSet
    <3> QED BY <3>1, <3>2 DEF CleanInv, Values
  <2> QED BY <2>1, HashInvInit
<1>2. HashInv /\ CleanInv /\ [HashNext]_hashVars => HashInv' /\ CleanInv'
    BY HashInvNext, CleanInvNext
<1> QED BY <1>1, <1>2, CleanInvReleased, PTL

-----------------------------------------------------------------------------
(* The array of keys.  What holds of its slots c, the current one p, the   *)
(* texts t, the owned values o, what is held h, and the counts kf, vf of   *)
(* what was freed; so that it can be said between the two halves of an     *)
(* addition, deleting and filling a slot.                                  *)

Cell == [used : BOOLEAN, val_buf : BOOLEAN, item : Adds \union {0}]

CellsTyped(c, p, t) ==
    /\ c \in Seq(Cell) /\ p \in 0 .. Len(c)
    /\ t \in Seq(Names) /\ Len(t) <= MaxAdds

\* A key that is held is that of its addition; each used slot has one, and
\* each of them has one slot.
HeldCells(c, t, o, h) ==
    /\ \A k \in DOMAIN h : k \in Names /\ h[k] \in 1 .. Len(t) /\ t[h[k]] = k
    /\ \A i \in 1 .. Len(c) :
          /\ c[i].used => \E k \in DOMAIN h : c[i].item = h[k]
          /\ c[i].val_buf <=> c[i].used /\ c[i].item \in o
    /\ \A k \in DOMAIN h : \E i \in 1 .. Len(c) : c[i].used /\ c[i].item = h[k]
    /\ \A i, j \in 1 .. Len(c) :
          c[i].used /\ c[j].used /\ c[i].item = c[j].item => i = j

PlaceOf(c, p) ==
    IF p = 0 THEN \A i \in 1 .. Len(c) : c[i].used ELSE ~c[p].used

\* The additions that are held now.
HeldNow(h) == {h[k] : k \in DOMAIN h}

CountsAre(t, o, h, kf, vf) ==
    /\ kf \in [Adds -> Nat] /\ vf \in [Adds -> Nat]
    /\ \A i \in Adds :
          /\ kf[i] = IF i \in 1 .. Len(t) /\ i \notin HeldNow(h) THEN 1 ELSE 0
          /\ vf[i] = IF i \in o /\ i \notin HeldNow(h) THEN 1 ELSE 0
    /\ o \subseteq 1 .. Len(t)

ArrayIs(c, p, t, o, h, kf, vf) ==
    /\ CellsTyped(c, p, t)
    /\ HeldCells(c, t, o, h)
    /\ PlaceOf(c, p)
    /\ CountsAre(t, o, h, kf, vf)

ArrayInv == ArrayIs(cells, place, texts, owned, held, keysFreed, valuesFreed)

\* The first element of a sequence with a property, as SelectInSeq has it.
LEMMA FirstWith ==
    ASSUME NEW c, Len(c) \in Nat, NEW I \in SUBSET (1 .. Len(c)),
           NEW p, p = IF I # {} THEN Min(I) ELSE 0
    PROVE  \/ p = 0 /\ I = {}
           \/ p \in I /\ p \in 1 .. Len(c) /\ p # 0
<1>1. I \in SUBSET Nat
    OBVIOUS
<1>2. CASE I # {}
  <2>1. Min(I) \in I
      BY <1>1, <1>2, LeastOf
  <2>2. p = Min(I)
      BY <1>2
  <2>3. p \in I /\ p \in 1 .. Len(c)
      BY <2>1, <2>2
  <2> QED BY <2>3
<1>3. CASE I = {}
    BY <1>3
<1> QED BY <1>2, <1>3

\* What the two look-ups return.
LEMMA LookUps ==
    ASSUME Len(cells) \in Nat, NEW k
    PROVE  LET p == ape_array_lookup_item(k)
               q == ape_array_lookup(k) IN
           /\ \/ p = 0 /\ \A i \in 1 .. Len(cells) : ~(cells[i].used /\ KeyText(cells[i]) = k)
              \/ p # 0 /\ p \in 1 .. Len(cells) /\ cells[p].used /\ KeyText(cells[p]) = k
           /\ \/ q = 0 /\ \A i \in 1 .. Len(cells) : ~(cells[i].used /\ SameName(KeyText(cells[i]), k))
              \/ q # 0 /\ q \in 1 .. Len(cells) /\ cells[q].used /\ SameName(KeyText(cells[q]), k)
<1> DEFINE I == {i \in 1 .. Len(cells) : cells[i].used /\ KeyText(cells[i]) = k}
           J == {i \in 1 .. Len(cells) : cells[i].used /\ SameName(KeyText(cells[i]), k)}
           p == ape_array_lookup_item(k)
           q == ape_array_lookup(k)
<1>1. p = IF I # {} THEN Min(I) ELSE 0
    BY DEF ape_array_lookup_item, SelectInSeq
<1>2. q = IF J # {} THEN Min(J) ELSE 0
    BY DEF ape_array_lookup, SelectInSeq
<1> HIDE DEF p, q
<1>3. \/ p = 0 /\ I = {}
      \/ p \in I /\ p \in 1 .. Len(cells) /\ p # 0
  <2> HIDE DEF I
  <2>1. I \in SUBSET (1 .. Len(cells))
      BY DEF I
  <2> QED BY <1>1, <2>1, FirstWith
<1>4. \/ q = 0 /\ J = {}
      \/ q \in J /\ q \in 1 .. Len(cells) /\ q # 0
  <2> HIDE DEF J
  <2>1. J \in SUBSET (1 .. Len(cells))
      BY DEF J
  <2> QED BY <1>2, <2>1, FirstWith
<1> QED BY <1>3, <1>4 DEF p, q

\* An exact look-up finds the slot of a key that is held.
LEMMA ExactLookUp ==
    ASSUME ArrayInv, NEW k
    PROVE  LET p == ape_array_lookup_item(k) IN
           /\ k \in DOMAIN held =>
                 /\ p \in 1 .. Len(cells) /\ p # 0
                 /\ cells[p].used /\ cells[p].item = held[k]
                 /\ At(k) = {p}
           /\ k \notin DOMAIN held => p = 0 /\ At(k) = {}
<1> DEFINE p == ape_array_lookup_item(k)
<1>1. Len(cells) \in Nat /\ HeldCells(cells, texts, owned, held)
    BY LenProperties DEF ArrayInv, ArrayIs, CellsTyped
<1>2. \/ p = 0 /\ \A i \in 1 .. Len(cells) : ~(cells[i].used /\ KeyText(cells[i]) = k)
      \/ p # 0 /\ p \in 1 .. Len(cells) /\ cells[p].used /\ KeyText(cells[p]) = k
    BY <1>1, LookUps
<1>3. At(k) = {p} \ {0}
    BY DEF At
<1> HIDE DEF p
<1>4. CASE k \in DOMAIN held
  <2>1. PICK i \in 1 .. Len(cells) : cells[i].used /\ cells[i].item = held[k]
      BY <1>1, <1>4 DEF HeldCells
  <2>2. texts[held[k]] = k
      BY <1>1, <1>4 DEF HeldCells
  <2>3. p # 0 /\ p \in 1 .. Len(cells) /\ cells[p].used /\ texts[cells[p].item] = k
      BY <1>2, <2>1, <2>2 DEF KeyText
  <2>4. PICK l \in DOMAIN held : cells[p].item = held[l]
      BY <1>1, <2>3 DEF HeldCells
  <2>5. l = k
      BY <1>1, <2>3, <2>4 DEF HeldCells
  <2> QED BY <1>3, <1>4, <2>3, <2>4, <2>5 DEF p
<1>5. CASE k \notin DOMAIN held
  <2>1. SUFFICES ASSUME p # 0 PROVE FALSE
      BY <1>3, <1>5 DEF p
  <2>2. PICK l \in DOMAIN held : cells[p].item = held[l]
      BY <1>1, <1>2, <2>1 DEF HeldCells
  <2>3. texts[held[l]] = l /\ texts[cells[p].item] = k
      BY <1>1, <1>2, <2>1 DEF HeldCells, KeyText
  <2> QED BY <1>5, <2>2, <2>3
<1> QED BY <1>4, <1>5

\* The invariant implies what the run checks.
LEMMA ArraySoundOf ==
    ASSUME ArrayInv
    PROVE  ArrayTypeOK /\ ArraySound
<1>1. /\ Len(cells) \in Nat /\ CellsTyped(cells, place, texts)
      /\ DOMAIN cells = 1 .. Len(cells) /\ DOMAIN texts = 1 .. Len(texts)
      /\ Len(texts) \in Nat
    BY LenProperties DEF ArrayInv, ArrayIs, CellsTyped
<1>2. /\ HeldCells(cells, texts, owned, held) /\ PlaceOf(cells, place)
      /\ CountsAre(texts, owned, held, keysFreed, valuesFreed)
    BY DEF ArrayInv, ArrayIs
<1>3. ArrayTypeOK
    BY <1>1 DEF CellsTyped, ArrayTypeOK, Cell
<1>4. PlaceIsFree
    BY <1>1, <1>2 DEF PlaceOf, PlaceIsFree
<1>5. FreedWhenGone
  <2> SUFFICES ASSUME NEW i \in DOMAIN texts
               PROVE  LET gone == IF \E k \in DOMAIN held : held[k] = i THEN 0 ELSE 1 IN
                      /\ keysFreed[i] = gone
                      /\ valuesFreed[i] = IF i \in owned THEN gone ELSE 0
      BY DEF FreedWhenGone
  <2>1. i \in Adds /\ i \in 1 .. Len(texts)
      BY <1>1, ArrayAssumption DEF CellsTyped, Adds, ArrayAssumption
  <2>2. i \in HeldNow(held) <=> \E k \in DOMAIN held : held[k] = i
      BY DEF HeldNow
  <2> QED BY <1>2, <2>1, <2>2 DEF CountsAre
<1>6. FindsWhatIsHeld
  <2> SUFFICES ASSUME NEW k \in Names
               PROVE  LET exact == ape_array_lookup_item(k)
                          any   == ape_array_lookup(k) IN
                      /\ IF k \in DOMAIN held
                         THEN exact # 0 /\ cells[exact].item = held[k] ELSE exact = 0
                      /\ IF \E l \in DOMAIN held : SameName(k, l)
                         THEN \E l \in DOMAIN held :
                                 any # 0 /\ SameName(k, l) /\ cells[any].item = held[l]
                         ELSE any = 0
      BY DEF FindsWhatIsHeld
  <2> DEFINE q == ape_array_lookup(k)
  <2>1. \/ q = 0 /\ \A i \in 1 .. Len(cells) : ~(cells[i].used /\ SameName(KeyText(cells[i]), k))
        \/ q # 0 /\ q \in 1 .. Len(cells) /\ cells[q].used /\ SameName(KeyText(cells[q]), k)
      BY <1>1, LookUps
  <2> HIDE DEF q
  <2>2. ASSUME NEW l \in DOMAIN held, SameName(k, l) PROVE q # 0
    <3>1. PICK i \in 1 .. Len(cells) : cells[i].used /\ cells[i].item = held[l]
        BY <1>2 DEF HeldCells
    <3>2. KeyText(cells[i]) = l /\ l \in Names
        BY <1>2, <3>1 DEF HeldCells, KeyText
    <3>3. SameName(l, k)
        BY <2>2, <3>2, ArrayAssumption DEF ArrayAssumption
    <3> QED BY <2>1, <3>1, <3>2, <3>3
  <2>3. ASSUME q # 0 PROVE \E l \in DOMAIN held : SameName(k, l) /\ cells[q].item = held[l]
    <3>1. PICK l \in DOMAIN held : cells[q].item = held[l]
        BY <1>2, <2>1, <2>3 DEF HeldCells
    <3>2. KeyText(cells[q]) = l /\ l \in Names
        BY <1>2, <3>1 DEF HeldCells, KeyText
    <3>3. SameName(k, l)
        BY <2>1, <2>3, <3>2, ArrayAssumption DEF ArrayAssumption
    <3> QED BY <3>1, <3>3
  <2> QED BY <2>2, <2>3, ExactLookUp DEF q
<1> QED BY <1>3, <1>4, <1>5, <1>6 DEF ArraySound

-----------------------------------------------------------------------------
(* The halves of the operations.                                           *)

\* A sequence of slots is a function, and the reverse.
LEMMA CellSequences ==
    /\ \A c \in Seq(Cell) : /\ Len(c) \in Nat /\ DOMAIN c = 1 .. Len(c)
                            /\ \A i \in 1 .. Len(c) : c[i] \in Cell
    /\ \A n \in Nat : \A c \in [1 .. n -> Cell] : c \in Seq(Cell) /\ Len(c) = n
<1>1. ASSUME NEW c \in Seq(Cell)
      PROVE  /\ Len(c) \in Nat /\ DOMAIN c = 1 .. Len(c)
             /\ \A i \in 1 .. Len(c) : c[i] \in Cell
    BY LenProperties, ElementOfSeq
<1>2. ASSUME NEW n \in Nat, NEW c \in [1 .. n -> Cell]
      PROVE  c \in Seq(Cell) /\ Len(c) = n
    BY LenProperties
<1> QED BY <1>1, <1>2

\* Of what is held some is given up, and freed.
LEMMA CountsAfter ==
    ASSUME NEW t, NEW o, NEW h, NEW kf, NEW vf, NEW g, NEW X,
           CountsAre(t, o, h, kf, vf), Len(t) \in Nat,
           HeldNow(h) \subseteq 1 .. Len(t), X \subseteq HeldNow(h),
           HeldNow(g) = HeldNow(h) \ X
    PROVE  CountsAre(t, o, g, Freed(kf, X), Freed(vf, X \cap o))
<1> DEFINE kg == Freed(kf, X)
           vg == Freed(vf, X \cap o)
           A == 1 .. Len(t)
           H == HeldNow(h)
           G == HeldNow(g)
<1>1. /\ kf \in [Adds -> Nat] /\ vf \in [Adds -> Nat] /\ o \subseteq A
      /\ \A i \in Adds : /\ kf[i] = IF i \in A /\ i \notin H THEN 1 ELSE 0
                         /\ vf[i] = IF i \in o /\ i \notin H THEN 1 ELSE 0
    BY DEF CountsAre
<1>2. /\ DOMAIN kg = Adds /\ kg = [i \in Adds |-> kg[i]]
      /\ DOMAIN vg = Adds /\ vg = [i \in Adds |-> vg[i]]
      /\ \A i \in Adds : /\ i \in X => kg[i] = kf[i] + 1
                         /\ i \notin X => kg[i] = kf[i] + 0
                         /\ i \in X /\ i \in o => vg[i] = vf[i] + 1
                         /\ ~(i \in X /\ i \in o) => vg[i] = vf[i] + 0
    BY DEF Freed
<1> HIDE DEF kg, vg, A, H, G
<1>3. H \subseteq A /\ X \subseteq H /\ G = H \ X
    BY DEF H, A, G
<1>4. ASSUME NEW i \in Adds
      PROVE  /\ kg[i] = IF i \in A /\ i \notin G THEN 1 ELSE 0
             /\ vg[i] = IF i \in o /\ i \notin G THEN 1 ELSE 0
  <2>1. kf[i] \in Nat /\ vf[i] \in Nat
      BY <1>1
  <2>2. CASE i \in X
      BY <1>1, <1>2, <1>3, <2>1, <2>2
  <2>3. CASE i \notin X
      BY <1>1, <1>2, <1>3, <2>1, <2>3
  <2> QED BY <2>2, <2>3
<1>5. \A i \in Adds : kg[i] \in Nat /\ vg[i] \in Nat
    BY <1>4
<1> QED BY <1>1, <1>2, <1>4, <1>5 DEF CountsAre, kg, vg, A, G

\* A used slot is emptied, and its key is held no more.
LEMMA RemoveKeeps ==
    ASSUME NEW c, NEW p, NEW t, NEW o, NEW h, NEW kf, NEW vf,
           ArrayIs(c, p, t, o, h, kf, vf),
           NEW k \in DOMAIN h, NEW j \in 1 .. Len(c), c[j].used, c[j].item = h[k],
           NEW d \in Seq(Cell), Len(d) = Len(c),
           \A i \in 1 .. Len(c) : /\ d[i].used <=> i # j /\ c[i].used
                                  /\ d[i].val_buf <=> i # j /\ c[i].val_buf
                                  /\ d[i].item = c[i].item,
           NEW g, DOMAIN g = DOMAIN h \ {k}, \A l \in DOMAIN g : g[l] = h[l]
    PROVE  ArrayIs(d, j, t, o, g, Freed(kf, {h[k]}), Freed(vf, {h[k]} \cap o))
<1>1. /\ c \in Seq(Cell) /\ Len(c) \in Nat
      /\ t \in Seq(Names) /\ Len(t) <= MaxAdds /\ Len(t) \in Nat
    BY CellSequences, LenProperties DEF ArrayIs, CellsTyped
<1>2. HeldCells(c, t, o, h) /\ CountsAre(t, o, h, kf, vf)
    BY DEF ArrayIs
<1>3. CellsTyped(d, j, t) /\ PlaceOf(d, j)
  <2>1. j \in 0 .. Len(d) /\ j # 0 /\ ~d[j].used
      BY <1>1
  <2> QED BY <1>1, <2>1 DEF CellsTyped, PlaceOf
<1>4. \A l \in DOMAIN h : l \in Names /\ h[l] \in 1 .. Len(t) /\ t[h[l]] = l
    BY <1>2 DEF HeldCells
<1>5. \A l \in DOMAIN g : l \in DOMAIN h /\ g[l] = h[l] /\ g[l] # h[k]
    BY <1>4
<1>6. HeldCells(d, t, o, g)
  <2>1. \A l \in DOMAIN g : l \in Names /\ g[l] \in 1 .. Len(t) /\ t[g[l]] = l
      BY <1>4, <1>5
  <2>2. ASSUME NEW i \in 1 .. Len(d), d[i].used
        PROVE  \E l \in DOMAIN g : d[i].item = g[l]
    <3>1. PICK l \in DOMAIN h : c[i].item = h[l]
        BY <1>2, <2>2 DEF HeldCells
    <3>2. i # j /\ c[i].used
        BY <2>2
    <3>3. c[i].item # c[j].item
        BY <1>2, <3>2 DEF HeldCells
    <3> QED BY <1>5, <3>1, <3>3
  <2>3. ASSUME NEW i \in 1 .. Len(d)
        PROVE  d[i].val_buf <=> d[i].used /\ d[i].item \in o
    <3>1. c[i].val_buf <=> c[i].used /\ c[i].item \in o
        BY <1>2 DEF HeldCells
    <3> QED BY <3>1
  <2>4. ASSUME NEW l \in DOMAIN g
        PROVE  \E i \in 1 .. Len(d) : d[i].used /\ d[i].item = g[l]
    <3>1. PICK i \in 1 .. Len(c) : c[i].used /\ c[i].item = h[l]
        BY <1>2, <1>5 DEF HeldCells
    <3>2. i # j
        BY <1>5, <3>1
    <3> QED BY <1>5, <3>1, <3>2
  <2>5. ASSUME NEW i \in 1 .. Len(d), NEW i2 \in 1 .. Len(d),
               d[i].used, d[i2].used, d[i].item = d[i2].item
        PROVE  i = i2
    <3>1. c[i].used /\ c[i2].used /\ c[i].item = c[i2].item
        BY <2>5
    <3> QED BY <1>2, <3>1 DEF HeldCells
  <2> QED BY <2>1, <2>2, <2>3, <2>4, <2>5 DEF HeldCells
<1>7. CountsAre(t, o, g, Freed(kf, {h[k]}), Freed(vf, {h[k]} \cap o))
  <2>1. /\ HeldNow(h) \subseteq 1 .. Len(t) /\ {h[k]} \subseteq HeldNow(h)
        /\ HeldNow(g) = HeldNow(h) \ {h[k]}
      BY <1>4, <1>5 DEF HeldNow
  <2> HIDE DEF CountsAre
  <2> QED BY <1>1, <1>2, <2>1, CountsAfter
<1> QED BY <1>3, <1>6, <1>7 DEF ArrayIs

\* A full array grows by unused slots.
LEMMA GrowKeeps ==
    ASSUME NEW c, NEW t, NEW o, NEW h, NEW kf, NEW vf,
           ArrayIs(c, 0, t, o, h, kf, vf)
    PROVE  ArrayIs(c \o NewCells(MoreSlots), Len(c) + 1, t, o, h, kf, vf)
<1> DEFINE m == NewCells(MoreSlots)
           d == c \o m
           n == MoreSlots
<1>1. /\ c \in Seq(Cell) /\ Len(c) \in Nat /\ t \in Seq(Names) /\ Len(t) <= MaxAdds
      /\ \A i \in 1 .. Len(c) : c[i] \in Cell
    BY CellSequences DEF ArrayIs, CellsTyped
<1>2. HeldCells(c, t, o, h) /\ CountsAre(t, o, h, kf, vf)
    BY DEF ArrayIs
<1>3. n \in Nat /\ n > 0
    BY ArrayAssumption DEF ArrayAssumption
<1>4. Empty \in Cell /\ Empty.used = FALSE /\ Empty.val_buf = FALSE
    BY DEF Empty, Cell
<1>5. m \in Seq(Cell) /\ Len(m) = n /\ \A i \in 1 .. n : m[i] = Empty
  <2>1. m = [i \in 1 .. n |-> Empty]
      BY DEF NewCells
  <2> HIDE DEF m, n
  <2>2. m \in [1 .. n -> Cell] /\ \A i \in 1 .. n : m[i] = Empty
      BY <1>4, <2>1
  <2> QED BY <1>3, <2>2, CellSequences
<1> HIDE DEF m, n
<1>6. /\ d \in Seq(Cell) /\ Len(d) = Len(c) + n
      /\ \A i \in 1 .. Len(c) : d[i] = c[i]
      /\ \A i \in 1 .. Len(d) : i > Len(c) => d[i] = Empty
  <2>1. /\ d \in Seq(Cell) /\ Len(d) = Len(c) + Len(m)
        /\ \A i \in 1 .. Len(c) + Len(m) :
              d[i] = IF i <= Len(c) THEN c[i] ELSE m[i - Len(c)]
      BY <1>1, <1>5, ConcatProperties
  <2> HIDE DEF d
  <2>2. Len(d) = Len(c) + n
      BY <1>5, <2>1
  <2>3. \A i \in 1 .. Len(c) : d[i] = c[i]
      BY <1>1, <1>3, <1>5, <2>1
  <2>4. ASSUME NEW i \in 1 .. Len(d), i > Len(c) PROVE d[i] = Empty
    <3>1. i - Len(c) \in 1 .. n /\ ~(i <= Len(c)) /\ i \in 1 .. Len(c) + Len(m)
        BY <1>1, <1>3, <1>5, <2>2, <2>4
    <3> QED BY <1>5, <2>1, <3>1
  <2> QED BY <2>1, <2>2, <2>3, <2>4
<1> HIDE DEF d
<1>7. CellsTyped(d, Len(c) + 1, t) /\ PlaceOf(d, Len(c) + 1)
    BY <1>1, <1>3, <1>4, <1>6 DEF CellsTyped, PlaceOf
<1>8. \A i \in 1 .. Len(d) : d[i].used => i \in 1 .. Len(c)
    BY <1>1, <1>3, <1>4, <1>6
<1>9. HeldCells(d, t, o, h)
  <2>1. \A k \in DOMAIN h : k \in Names /\ h[k] \in 1 .. Len(t) /\ t[h[k]] = k
      BY <1>2 DEF HeldCells
  <2>2. ASSUME NEW i \in 1 .. Len(d)
        PROVE  /\ d[i].used => \E k \in DOMAIN h : d[i].item = h[k]
               /\ d[i].val_buf <=> d[i].used /\ d[i].item \in o
    <3>1. CASE i \in 1 .. Len(c)
        BY <1>2, <1>6, <3>1 DEF HeldCells
    <3>2. CASE i \notin 1 .. Len(c)
        BY <1>1, <1>4, <1>6, <3>2
    <3> QED BY <3>1, <3>2
  <2>3. ASSUME NEW k \in DOMAIN h
        PROVE  \E i \in 1 .. Len(d) : d[i].used /\ d[i].item = h[k]
    <3>1. PICK i \in 1 .. Len(c) : c[i].used /\ c[i].item = h[k]
        BY <1>2 DEF HeldCells
    <3>2. i \in 1 .. Len(d)
        BY <1>1, <1>3, <1>6
    <3> QED BY <1>6, <3>1, <3>2
  <2>4. \A i, j \in 1 .. Len(d) : d[i].used /\ d[j].used /\ d[i].item = d[j].item => i = j
      BY <1>2, <1>6, <1>8 DEF HeldCells
  <2> QED BY <2>1, <2>2, <2>3, <2>4 DEF HeldCells
<1> QED BY <1>2, <1>7, <1>9 DEF ArrayIs, d, m

\* The slot that is current next is free, if any is.
LEMMA NextFreeIs ==
    ASSUME NEW c \in Seq(Cell), NEW p \in 1 .. Len(c)
    PROVE  NextFree(c, p) \in 0 .. Len(c) /\ PlaceOf(c, NextFree(c, p))
<1> DEFINE I == {i \in 1 .. Len(c) : ~c[i].used}
           s == SelectInSeq(c, LAMBDA x : ~x.used)
<1>1. Len(c) \in Nat
    BY LenProperties
<1>2. s = IF I # {} THEN Min(I) ELSE 0
    BY DEF SelectInSeq
<1>3. NextFree(c, p) = IF p < Len(c) /\ ~c[p + 1].used THEN p + 1 ELSE s
    BY DEF NextFree
<1> HIDE DEF s
<1>4. \/ s = 0 /\ I = {}
      \/ s \in I /\ s \in 1 .. Len(c) /\ s # 0
  <2> HIDE DEF I
  <2>1. I \in SUBSET (1 .. Len(c))
      BY DEF I
  <2> QED BY <1>1, <1>2, <2>1, FirstWith
<1>5. CASE p < Len(c) /\ ~c[p + 1].used
    BY <1>1, <1>3, <1>5 DEF PlaceOf
<1>6. CASE ~(p < Len(c) /\ ~c[p + 1].used)
  <2>1. NextFree(c, p) = s
      BY <1>3, <1>6
  <2>2. CASE s = 0 /\ I = {}
      BY <1>1, <2>1, <2>2 DEF PlaceOf
  <2>3. CASE s \in I /\ s \in 1 .. Len(c) /\ s # 0
      BY <1>1, <2>1, <2>3 DEF PlaceOf
  <2> QED BY <1>4, <2>2, <2>3
<1> QED BY <1>5, <1>6

\* The current slot is filled with an addition of a key that is not held.
LEMMA FillKeeps ==
    ASSUME NEW c, NEW p, NEW t, NEW o, NEW h, NEW kf, NEW vf,
           ArrayIs(c, p, t, o, h, kf, vf), p # 0, Len(t) < MaxAdds,
           NEW k \in Names, k \notin DOMAIN h,
           NEW q, \A i : i # Len(t) + 1 => (i \in q <=> i \in o),
           NEW d \in Seq(Cell), Len(d) = Len(c),
           d[p].used, d[p].val_buf <=> Len(t) + 1 \in q, d[p].item = Len(t) + 1,
           \A i \in 1 .. Len(c) : i # p => d[i] = c[i],
           NEW g, DOMAIN g = DOMAIN h \union {k},
           g[k] = Len(t) + 1, \A l \in DOMAIN h : g[l] = h[l]
    PROVE  ArrayIs(d, NextFree(d, p), Append(t, k), q, g, kf, vf)
<1> DEFINE x == Len(t) + 1
           u == Append(t, k)
<1>1. /\ c \in Seq(Cell) /\ Len(c) \in Nat /\ p \in 1 .. Len(c)
      /\ DOMAIN c = 1 .. Len(c) /\ \A i \in 1 .. Len(c) : c[i] \in Cell
      /\ t \in Seq(Names) /\ Len(t) \in Nat /\ ~c[p].used
    BY CellSequences, LenProperties DEF ArrayIs, CellsTyped, PlaceOf
<1>2. HeldCells(c, t, o, h) /\ CountsAre(t, o, h, kf, vf)
    BY DEF ArrayIs
<1>3. x \in Adds /\ MaxAdds \in Nat /\ \A i \in 1 .. Len(t) : i # x
    BY <1>1, ArrayAssumption DEF Adds, ArrayAssumption
<1>4. /\ u \in Seq(Names) /\ Len(u) = x /\ u[x] = k
      /\ \A i \in 1 .. Len(t) : u[i] = t[i]
    BY <1>1, AppendProperties
<1>5. ~c[p].val_buf
    BY <1>1, <1>2 DEF HeldCells
<1>6. /\ d \in Seq(Cell) /\ Len(d) = Len(c)
      /\ d[p].used /\ (d[p].val_buf <=> x \in q) /\ d[p].item = x
      /\ \A i \in 1 .. Len(c) : i # p => d[i] = c[i]
    OBVIOUS
<1>7. CellsTyped(d, NextFree(d, p), u) /\ PlaceOf(d, NextFree(d, p))
  <2>1. NextFree(d, p) \in 0 .. Len(d) /\ PlaceOf(d, NextFree(d, p))
      BY <1>1, NextFreeIs
  <2>2. Len(u) <= MaxAdds
      BY <1>1, <1>3, <1>4
  <2> QED BY <1>4, <2>1, <2>2 DEF CellsTyped
<1>8. /\ DOMAIN g = DOMAIN h \union {k} /\ g[k] = x
      /\ \A l \in DOMAIN h : l \in DOMAIN g /\ l # k /\ g[l] = h[l]
      /\ \A l \in DOMAIN g : l = k \/ l \in DOMAIN h
    OBVIOUS
<1>9. \A l \in DOMAIN h : l \in Names /\ h[l] \in 1 .. Len(t) /\ t[h[l]] = l
    BY <1>2 DEF HeldCells
<1>a. \A i : i # x => (i \in q <=> i \in o)
    OBVIOUS
<1> HIDE DEF x, u
<1>10. HeldCells(d, u, q, g)
  <2>1. ASSUME NEW l \in DOMAIN g PROVE l \in Names /\ g[l] \in 1 .. Len(u) /\ u[g[l]] = l
    <3>1. CASE l = k
        BY <1>1, <1>4, <1>8, <3>1 DEF x
    <3>2. CASE l \in DOMAIN h
        BY <1>1, <1>4, <1>8, <1>9, <3>2 DEF x
    <3> QED BY <1>8, <3>1, <3>2
  <2>2. \A i \in 1 .. Len(c) : c[i].used => c[i].item \in 1 .. Len(t)
      BY <1>2, <1>9 DEF HeldCells
  <2>3. \A i \in 1 .. Len(t) : i \in q <=> i \in o
      BY <1>3, <1>a
  <2>4. ASSUME NEW i \in 1 .. Len(d)
        PROVE  /\ d[i].used => \E l \in DOMAIN g : d[i].item = g[l]
               /\ d[i].val_buf <=> d[i].used /\ d[i].item \in q
    <3>1. CASE i = p
        BY <1>6, <1>8, <3>1
    <3>2. CASE i # p
      <4>1. d[i] = c[i] /\ i \in 1 .. Len(c)
          BY <1>6, <3>2
      <4>2. /\ c[i].used => \E l \in DOMAIN h : c[i].item = h[l]
            /\ c[i].val_buf <=> c[i].used /\ c[i].item \in o
          BY <1>2, <4>1 DEF HeldCells
      <4>3. c[i].used => (c[i].item \in o <=> c[i].item \in q)
          BY <2>2, <2>3, <4>1
      <4> QED BY <1>8, <4>1, <4>2, <4>3
    <3> QED BY <3>1, <3>2
  <2>5. ASSUME NEW l \in DOMAIN g
        PROVE  \E i \in 1 .. Len(d) : d[i].used /\ d[i].item = g[l]
    <3>1. CASE l = k
        BY <1>1, <1>6, <1>8, <3>1
    <3>2. CASE l \in DOMAIN h
      <4>1. PICK i \in 1 .. Len(c) : c[i].used /\ c[i].item = h[l]
          BY <1>2, <3>2 DEF HeldCells
      <4>2. i # p
          BY <1>1, <4>1
      <4> QED BY <1>6, <1>8, <3>2, <4>1, <4>2
    <3> QED BY <1>8, <3>1, <3>2
  <2>6. ASSUME NEW i \in 1 .. Len(d), NEW j \in 1 .. Len(d),
               d[i].used, d[j].used, d[i].item = d[j].item
        PROVE  i = j
    <3>1. CASE i = p \/ j = p
        BY <1>3, <1>6, <2>2, <2>6, <3>1
    <3>2. CASE i # p /\ j # p
      <4>1. c[i].used /\ c[j].used /\ c[i].item = c[j].item
          BY <1>6, <2>6, <3>2
      <4> QED BY <1>2, <1>6, <4>1 DEF HeldCells
    <3> QED BY <3>1, <3>2
  <2> QED BY <2>1, <2>4, <2>5, <2>6 DEF HeldCells
<1>11. CountsAre(u, q, g, kf, vf)
  <2>1. \A i : i \in HeldNow(g) <=> i \in HeldNow(h) \/ i = x
      BY <1>8 DEF HeldNow
  <2>2. /\ kf \in [Adds -> Nat] /\ vf \in [Adds -> Nat] /\ o \subseteq 1 .. Len(t)
        /\ \A i \in Adds :
              /\ kf[i] = IF i \in 1 .. Len(t) /\ i \notin HeldNow(h) THEN 1 ELSE 0
              /\ vf[i] = IF i \in o /\ i \notin HeldNow(h) THEN 1 ELSE 0
      BY <1>2 DEF CountsAre
  <2>3. \A i : i \in 1 .. Len(u) <=> i \in 1 .. Len(t) \/ i = x
      BY <1>1, <1>4 DEF x
  <2>4. q \subseteq 1 .. Len(u) /\ \A i : i # x => (i \in q <=> i \in o)
      BY <2>2, <2>3, <1>a
  <2>5. x \notin 1 .. Len(t) /\ x \notin o
      BY <1>3, <2>2
  <2>6. ASSUME NEW i \in Adds
        PROVE  /\ kf[i] = IF i \in 1 .. Len(u) /\ i \notin HeldNow(g) THEN 1 ELSE 0
               /\ vf[i] = IF i \in q /\ i \notin HeldNow(g) THEN 1 ELSE 0
    <3>1. CASE i = x
        BY <2>1, <2>2, <2>5, <3>1
    <3>2. CASE i # x
        BY <2>1, <2>2, <2>3, <2>4, <3>2
    <3> QED BY <3>1, <3>2
  <2> QED BY <2>2, <2>4, <2>6 DEF CountsAre
<1> QED BY <1>7, <1>10, <1>11 DEF ArrayIs, x, u

-----------------------------------------------------------------------------
(* The steps.                                                              *)

\* The invariant depends on what is held only.
LEMMA SameHeld ==
    ASSUME NEW c, NEW p, NEW t, NEW o, NEW h, NEW kf, NEW vf,
           ArrayIs(c, p, t, o, h, kf, vf),
           NEW g, DOMAIN g = DOMAIN h, \A l \in DOMAIN g : g[l] = h[l]
    PROVE  ArrayIs(c, p, t, o, g, kf, vf)
<1>1. HeldNow(g) = HeldNow(h)
    BY DEF HeldNow
<1>2. HeldCells(c, t, o, h) => HeldCells(c, t, o, g)
    BY DEF HeldCells
<1>3. CountsAre(t, o, h, kf, vf) => CountsAre(t, o, g, kf, vf)
    BY <1>1 DEF CountsAre
<1> QED BY <1>2, <1>3 DEF ArrayIs

\* Deleting a key that may be there.
LEMMA DeletedIs ==
    ASSUME ArrayInv, NEW k,
           NEW g, g = [l \in DOMAIN held \ {k} |-> held[l]]
    PROVE  ArrayIs(Deleted(k).cells, Deleted(k).place, texts, owned, g,
                   Freed(keysFreed, Keyed(At(k))), Freed(valuesFreed, Valued(At(k))))
<1> DEFINE p == ape_array_lookup_item(k)
           d == Deleted(k).cells
<1>1. /\ cells \in Seq(Cell) /\ Len(cells) \in Nat /\ DOMAIN cells = 1 .. Len(cells)
      /\ \A i \in 1 .. Len(cells) : cells[i] \in Cell
      /\ Len(texts) \in Nat
    BY CellSequences, LenProperties DEF ArrayInv, ArrayIs, CellsTyped
<1>2. /\ HeldCells(cells, texts, owned, held)
      /\ CountsAre(texts, owned, held, keysFreed, valuesFreed)
    BY DEF ArrayInv, ArrayIs
<1>3. DOMAIN g = DOMAIN held \ {k} /\ \A l \in DOMAIN g : g[l] = held[l]
    OBVIOUS
<1>4. d = [i \in DOMAIN cells |->
              IF i \in At(k)
              THEN [cells[i] EXCEPT !.used = FALSE, !.val_buf = FALSE] ELSE cells[i]]
    BY DEF Deleted
<1>5. Deleted(k).place = IF At(k) = {} THEN place ELSE p
    BY DEF Deleted, PlaceAfter
<1> HIDE DEF p, d
<1>6. CASE k \in DOMAIN held
  <2>1. p \in 1 .. Len(cells) /\ cells[p].used /\ cells[p].item = held[k] /\ At(k) = {p}
      BY <1>6, ExactLookUp DEF p
  <2>2. \A i \in 1 .. Len(cells) : /\ d[i] \in Cell
                                   /\ d[i].used <=> i # p /\ cells[i].used
                                   /\ d[i].val_buf <=> i # p /\ cells[i].val_buf
                                   /\ d[i].item = cells[i].item
    <3> SUFFICES ASSUME NEW i \in 1 .. Len(cells)
                 PROVE  /\ d[i] \in Cell
                        /\ d[i].used <=> i # p /\ cells[i].used
                        /\ d[i].val_buf <=> i # p /\ cells[i].val_buf
                        /\ d[i].item = cells[i].item
        OBVIOUS
    <3> DEFINE z == cells[i]
    <3>1. z \in Cell
        BY <1>1
    <3>2. i = p => d[i] = [z EXCEPT !.used = FALSE, !.val_buf = FALSE]
        BY <1>1, <1>4, <2>1
    <3>3. i # p => d[i] = z
        BY <1>1, <1>4, <2>1
    <3> HIDE DEF z
    <3>4. CASE i = p
        BY <3>1, <3>2, <3>4 DEF Cell, z
    <3>5. CASE i # p
        BY <3>1, <3>3, <3>5 DEF z
    <3> QED BY <3>4, <3>5
  <2>3. d \in Seq(Cell) /\ Len(d) = Len(cells)
    <3>1. d \in [1 .. Len(cells) -> Cell]
        BY <1>1, <1>4, <2>2
    <3> QED BY <1>1, <3>1, CellSequences
  <2>4. Keyed(At(k)) = {held[k]}
      BY <2>1 DEF Keyed
  <2>5. Valued(At(k)) = {held[k]} \cap owned
    <3>1. cells[p].val_buf <=> held[k] \in owned
        BY <1>2, <2>1 DEF HeldCells
    <3> QED BY <2>1, <3>1 DEF Valued
  <2>6. Deleted(k).place = p
      BY <1>5, <2>1
  <2>7. ArrayIs(d, p, texts, owned, g, Freed(keysFreed, {held[k]}),
                Freed(valuesFreed, {held[k]} \cap owned))
    <3> HIDE DEF ArrayIs
    <3>1. ArrayIs(cells, place, texts, owned, held, keysFreed, valuesFreed)
        BY DEF ArrayInv
    <3>2. \A i \in 1 .. Len(cells) : /\ d[i].used <=> i # p /\ cells[i].used
                                     /\ d[i].val_buf <=> i # p /\ cells[i].val_buf
                                     /\ d[i].item = cells[i].item
        BY <2>2
    <3> QED BY <1>3, <1>6, <2>1, <2>3, <3>1, <3>2, RemoveKeeps, Zenon
  <2> QED BY <2>4, <2>5, <2>6, <2>7 DEF d
<1>7. CASE k \notin DOMAIN held
  <2>1. At(k) = {} /\ Deleted(k).place = place
      BY <1>5, <1>7, ExactLookUp
  <2>2. d = cells
      BY <1>1, <1>4, <2>1
  <2>3. Keyed(At(k)) = {} /\ Valued(At(k)) = {} \cap owned
      BY <2>1 DEF Keyed, Valued
  <2>4. HeldNow(held) \subseteq 1 .. Len(texts)
      BY <1>2 DEF HeldCells, HeldNow
  <2>5. CountsAre(texts, owned, held, Freed(keysFreed, {}), Freed(valuesFreed, {} \cap owned))
    <3>1. HeldNow(held) = HeldNow(held) \ {} /\ {} \subseteq HeldNow(held)
        OBVIOUS
    <3> QED BY <1>1, <1>2, <2>4, <3>1, CountsAfter
  <2>6. ArrayIs(d, place, texts, owned, held, Freed(keysFreed, {}),
                Freed(valuesFreed, {} \cap owned))
      BY <2>2, <2>5 DEF ArrayInv, ArrayIs
  <2>7. DOMAIN g = DOMAIN held
      BY <1>3, <1>7
  <2> QED BY <1>3, <2>1, <2>3, <2>6, <2>7, SameHeld DEF d
<1> QED BY <1>6, <1>7

\* A new array.
LEMMA ArrayStarts == ArrayInit => ArrayInv
<1> SUFFICES ASSUME ArrayInit PROVE ArrayInv
    OBVIOUS
<1> USE ArrayAssumption DEF ArrayAssumption
<1>1. Empty \in Cell /\ Empty.used = FALSE /\ Empty.val_buf = FALSE
    BY DEF Empty, Cell
<1>2. /\ cells \in Seq(Cell) /\ Len(cells) = Slots
      /\ \A i \in 1 .. Slots : cells[i] = Empty
  <2>1. cells = [i \in 1 .. Slots |-> Empty]
      BY DEF ArrayInit, NewCells
  <2>2. cells \in [1 .. Slots -> Cell] /\ \A i \in 1 .. Slots : cells[i] = Empty
      BY <1>1, <2>1
  <2> QED BY <2>2, CellSequences
<1>3. /\ place = 1 /\ texts = <<>> /\ owned = {} /\ DOMAIN held = {}
      /\ keysFreed = [i \in Adds |-> 0] /\ valuesFreed = [i \in Adds |-> 0]
    BY DEF ArrayInit
<1>4. texts \in Seq(Names) /\ Len(texts) = 0
    BY <1>3, EmptySeq
<1>5. CellsTyped(cells, place, texts) /\ PlaceOf(cells, place)
    BY <1>1, <1>2, <1>3, <1>4 DEF CellsTyped, PlaceOf
<1>6. HeldCells(cells, texts, owned, held)
    BY <1>1, <1>2, <1>3 DEF HeldCells
<1>7. CountsAre(texts, owned, held, keysFreed, valuesFreed)
  <2>1. /\ keysFreed \in [Adds -> Nat] /\ valuesFreed \in [Adds -> Nat]
        /\ \A i \in Adds : keysFreed[i] = 0 /\ valuesFreed[i] = 0
      BY <1>3
  <2>2. owned \subseteq 1 .. Len(texts) /\ \A i : i \notin owned /\ i \notin 1 .. Len(texts)
      BY <1>3, <1>4
  <2> QED BY <2>1, <2>2 DEF CountsAre
<1> QED BY <1>5, <1>6, <1>7 DEF ArrayInv, ArrayIs

\* An addition.
LEMMA AddKeeps ==
    ASSUME ArrayInv, NEW k \in Names, NEW buf \in BOOLEAN, Add(k, buf)
    PROVE  ArrayInv'
<1> DEFINE d == Deleted(k)
           full == d.place = 0 \/ d.cells[d.place].used
           ss == IF full THEN d.cells \o NewCells(MoreSlots) ELSE d.cells
           i == IF full THEN Len(d.cells) + 1 ELSE d.place
           g == [l \in DOMAIN held \ {k} |-> held[l]]
           n == Len(texts) + 1
           c == [ss EXCEPT ![i].used = TRUE, ![i].item = n, ![i].val_buf = @ \/ buf]
           kf == Freed(keysFreed, Keyed(At(k)))
           vf == Freed(valuesFreed, Valued(At(k)))
<1>1. /\ Len(texts) < MaxAdds
      /\ keysFreed' = kf /\ valuesFreed' = vf
      /\ cells' = c /\ place' = NextFree(c, i)
      /\ owned' = IF buf THEN owned \union {n} ELSE owned
      /\ held' = [l \in DOMAIN held \union {k} |-> IF l = k THEN n ELSE held[l]]
      /\ texts' = Append(texts, k)
    BY Zenon DEF Add, Release
<1>2. ArrayIs(d.cells, d.place, texts, owned, g, kf, vf)
    BY DeletedIs
<1>3. k \notin DOMAIN g
    OBVIOUS
<1>4. held' = [l \in DOMAIN g \union {k} |-> IF l = k THEN n ELSE g[l]]
    BY <1>1
<1> HIDE DEF d, g, kf, vf
<1>5. PlaceOf(d.cells, d.place) /\ (full <=> d.place = 0)
  <2>1. PlaceOf(d.cells, d.place)
      BY <1>2 DEF ArrayIs
  <2> QED BY <2>1 DEF PlaceOf
<1>6. ArrayIs(ss, i, texts, owned, g, kf, vf) /\ i # 0
  <2>1. CASE full
    <3>1. ArrayIs(d.cells, 0, texts, owned, g, kf, vf) /\ Len(d.cells) \in Nat
        BY <1>2, <1>5, <2>1, LenProperties DEF ArrayIs, CellsTyped
    <3>2. ss = d.cells \o NewCells(MoreSlots) /\ i = Len(d.cells) + 1
        BY <2>1
    <3>3. i # 0
        BY <3>1, <3>2
    <3> HIDE DEF ss, i
    <3> QED BY <3>1, <3>2, <3>3, GrowKeeps
  <2>2. CASE ~full
    <3>1. ss = d.cells /\ i = d.place
        BY <2>2
    <3> HIDE DEF ss, i, full
    <3> QED BY <1>2, <1>5, <2>2, <3>1
  <2> QED BY <2>1, <2>2
<1> HIDE DEF full, ss, i
<1>7. /\ ss \in Seq(Cell) /\ Len(ss) \in Nat /\ i \in 1 .. Len(ss) /\ ~ss[i].val_buf
      /\ Len(texts) \in Nat
  <2>1. /\ CellsTyped(ss, i, texts) /\ HeldCells(ss, texts, owned, g) /\ PlaceOf(ss, i)
      BY <1>6 DEF ArrayIs
  <2>2. ss \in Seq(Cell) /\ Len(ss) \in Nat /\ i \in 1 .. Len(ss) /\ Len(texts) \in Nat
      BY <1>6, <2>1, LenProperties DEF CellsTyped
  <2> QED BY <1>6, <2>1, <2>2 DEF HeldCells, PlaceOf
<1>8. n \in Adds
    BY <1>1, <1>7, ArrayAssumption DEF Adds, ArrayAssumption
<1>9. /\ c \in Seq(Cell) /\ Len(c) = Len(ss)
      /\ c[i].used /\ (c[i].val_buf <=> buf) /\ c[i].item = n
      /\ \A j \in 1 .. Len(ss) : j # i => c[j] = ss[j]
  <2> DEFINE z == ss[i]
             y == [z EXCEPT !.used = TRUE, !.item = n, !.val_buf = @ \/ buf]
  <2>1. DOMAIN ss = 1 .. Len(ss) /\ \A j \in 1 .. Len(ss) : ss[j] \in Cell
      BY <1>7, CellSequences
  <2>2. c = [ss EXCEPT ![i] = y]
      BY <1>7, <2>1
  <2>3. y \in Cell /\ y.used /\ (y.val_buf <=> buf) /\ y.item = n
    <3>1. z \in Cell /\ ~z.val_buf
        BY <1>7, <2>1
    <3> HIDE DEF z, n
    <3> QED BY <1>8, <3>1 DEF Cell
  <2> HIDE DEF y, z, c, n
  <2>4. c \in [1 .. Len(ss) -> Cell] /\ c[i] = y /\ \A j \in 1 .. Len(ss) : j # i => c[j] = ss[j]
      BY <1>7, <2>1, <2>2, <2>3
  <2>5. c \in Seq(Cell) /\ Len(c) = Len(ss)
      BY <1>7, <2>4, CellSequences
  <2> QED BY <2>3, <2>4, <2>5
<1> HIDE DEF c
<1>10. ArrayIs(c, NextFree(c, i), Append(texts, k), owned', held', kf, vf)
  <2>1. /\ c[i].item = Len(texts) + 1
        /\ DOMAIN held' = DOMAIN g \union {k}
        /\ held'[k] = Len(texts) + 1 /\ \A l \in DOMAIN g : held'[l] = g[l]
      BY <1>3, <1>4, <1>9
  <2>2. n \notin owned
    <3>1. owned \subseteq 1 .. Len(texts)
        BY <1>6 DEF ArrayIs, CountsAre
    <3> QED BY <1>7, <3>1
  <2>3. /\ \A j : j # Len(texts) + 1 => (j \in owned' <=> j \in owned)
        /\ c[i].val_buf <=> Len(texts) + 1 \in owned'
      BY <1>1, <1>9, <2>2
  <2>4. Len(texts) < MaxAdds /\ k \notin DOMAIN g /\ i # 0 /\ k \in Names
      BY <1>1, <1>3, <1>6
  <2>5. ArrayIs(ss, i, texts, owned, g, kf, vf)
      BY <1>6
  <2>6. /\ c \in Seq(Cell) /\ Len(c) = Len(ss) /\ c[i].used
        /\ \A j \in 1 .. Len(ss) : j # i => c[j] = ss[j]
      BY <1>9
  <2> QED BY <2>1, <2>3, <2>4, <2>5, <2>6, FillKeeps, ZenonT(60)
<1>11. ArrayIs(cells', place', texts', owned', held', keysFreed', valuesFreed')
    BY <1>1, <1>10
<1> QED BY <1>11 DEF ArrayInv

\* A deletion.
LEMMA DeleteKeeps ==
    ASSUME ArrayInv, NEW k \in Names, ape_array_delete(k)
    PROVE  ArrayInv'
<1>1. /\ keysFreed' = Freed(keysFreed, Keyed(At(k)))
      /\ valuesFreed' = Freed(valuesFreed, Valued(At(k)))
      /\ cells' = Deleted(k).cells /\ place' = Deleted(k).place
      /\ held' = [l \in DOMAIN held \ {k} |-> held[l]]
      /\ texts' = texts /\ owned' = owned
    BY DEF ape_array_delete, Release
<1>2. ArrayIs(Deleted(k).cells, Deleted(k).place, texts, owned, held',
              Freed(keysFreed, Keyed(At(k))), Freed(valuesFreed, Valued(At(k))))
    BY <1>1, DeletedIs
<1>3. ArrayIs(cells', place', texts', owned', held', keysFreed', valuesFreed')
    BY <1>1, <1>2
<1> QED BY <1>3 DEF ArrayInv

\* The destruction.
LEMMA DestroyKeeps ==
    ASSUME ArrayInv, ape_array_destroy
    PROVE  ArrayInv'
<1>1. /\ keysFreed' = Freed(keysFreed, Keyed(DOMAIN cells))
      /\ valuesFreed' = Freed(valuesFreed, Valued(DOMAIN cells))
      /\ cells' = <<>> /\ place' = 0 /\ DOMAIN held' = {}
      /\ texts' = texts /\ owned' = owned
    BY DEF ape_array_destroy, Release
<1>2. /\ Len(cells) \in Nat /\ DOMAIN cells = 1 .. Len(cells) /\ Len(texts) \in Nat
      /\ CellsTyped(cells, place, texts) /\ HeldCells(cells, texts, owned, held)
      /\ CountsAre(texts, owned, held, keysFreed, valuesFreed)
    BY CellSequences, LenProperties DEF ArrayInv, ArrayIs, CellsTyped
<1>3. Keyed(DOMAIN cells) = HeldNow(held)
  <2>1. ASSUME NEW i \in 1 .. Len(cells), cells[i].used PROVE cells[i].item \in HeldNow(held)
      BY <1>2, <2>1 DEF HeldCells, HeldNow
  <2>2. ASSUME NEW l \in DOMAIN held
        PROVE  \E i \in 1 .. Len(cells) : cells[i].used /\ cells[i].item = held[l]
      BY <1>2 DEF HeldCells
  <2> QED BY <1>2, <2>1, <2>2 DEF Keyed, HeldNow
<1>4. Valued(DOMAIN cells) = HeldNow(held) \cap owned
  <2>1. \A i \in 1 .. Len(cells) : cells[i].val_buf <=> cells[i].used /\ cells[i].item \in owned
      BY <1>2 DEF HeldCells
  <2>2. Valued(DOMAIN cells) = Keyed(DOMAIN cells) \cap owned
      BY <1>2, <2>1 DEF Valued, Keyed
  <2> QED BY <1>3, <2>2
<1>5. HeldNow(held') = {}
    BY <1>1 DEF HeldNow
<1>6. CountsAre(texts, owned, held', keysFreed', valuesFreed')
  <2>1. HeldNow(held) \subseteq 1 .. Len(texts)
      BY <1>2 DEF HeldCells, HeldNow
  <2>2. HeldNow(held') = HeldNow(held) \ HeldNow(held) /\ HeldNow(held) \subseteq HeldNow(held)
      BY <1>5
  <2> QED BY <1>1, <1>2, <1>3, <1>4, <2>1, <2>2, CountsAfter
<1>7. Len(cells') = 0 /\ cells' \in Seq(Cell)
    BY <1>1, EmptySeq
<1>8. CellsTyped(cells', place', texts) /\ PlaceOf(cells', place')
    BY <1>1, <1>2, <1>7 DEF CellsTyped, PlaceOf
<1>9. HeldCells(cells', texts, owned, held')
    BY <1>1, <1>7 DEF HeldCells
<1>10. ArrayIs(cells', place', texts', owned', held', keysFreed', valuesFreed')
    BY <1>1, <1>6, <1>8, <1>9 DEF ArrayIs
<1> QED BY <1>10 DEF ArrayInv

\* Every step of the array keeps its invariant.
LEMMA ArrayInvStep == ArrayInv /\ [ArrayNext]_arrayVars => ArrayInv'
<1> SUFFICES ASSUME ArrayInv, [ArrayNext]_arrayVars PROVE ArrayInv'
    OBVIOUS
<1>1. ASSUME NEW k \in Names, NEW buf \in BOOLEAN, Add(k, buf) PROVE ArrayInv'
    BY <1>1, AddKeeps
<1>2. ASSUME NEW k \in Names, ape_array_delete(k) PROVE ArrayInv'
    BY <1>2, DeleteKeeps
<1>3. CASE ape_array_destroy
    BY <1>3, DestroyKeeps
<1>4. CASE UNCHANGED arrayVars
    BY <1>4 DEF arrayVars, ArrayInv
<1> QED BY <1>1, <1>2, <1>3, <1>4 DEF ArrayNext

\* Every variable of KeyArray keeps its type.
THEOREM ArrayTypeCorrect == ArraySpec => []ArrayTypeOK
<1>1. ArrayInv => ArrayTypeOK
    BY ArraySoundOf
<1> QED BY <1>1, ArrayStarts, ArrayInvStep, PTL DEF ArraySpec

\* Whatever is added, replaced and deleted, in whatever slots: a look-up finds
\* the last value added under the key, the slot the next addition goes to is
\* free, and the buffers of an addition are freed once, when it is held no more
\* (ape_array_lookup, ape_array_add_s, ape_array_delete, ape_array_destroy).
THEOREM ArrayCorrect == ArraySpec => []ArraySound
<1>1. ArrayInv => ArraySound
    BY ArraySoundOf
<1> QED BY <1>1, ArrayStarts, ArrayInvStep, PTL DEF ArraySpec

-----------------------------------------------------------------------------
(* The pool.  What it is like is said of an order of its slots, ord, which *)
(* the pointers follow.                                                    *)

\* ord has each of the m slots once.
Ordering(ord, m) ==
    /\ ord \in [1 .. m -> 1 .. m]
    /\ \A i, j \in 1 .. m : ord[i] = ord[j] => i = j
    /\ \A n \in 1 .. m : \E i \in 1 .. m : ord[i] = n

\* From its i-th slot on the pointers follow it.
Follows(ord, nx, m, i) ==
    \A j \in i .. m : nx[ord[j]] = IF j < m THEN ord[j + 1] ELSE NoSlot

IsList(ord, nx, m, h, q) ==
    Ordering(ord, m) /\ Follows(ord, nx, m, 1) /\ ord[1] = h /\ ord[m] = q

\* The list is whole, and untouched by a destruction.
InUse ==
    /\ \E ord : /\ IsList(ord, next, made, head, queue)
                /\ sorted => \A i \in 1 .. made : ord[i] = i
    /\ \A n \in SlotNos : visits[n] = 0 /\ freed[n] = 0
    /\ pool = NoSlot /\ tPool = NoSlot /\ fPool = NoSlot

\* How far ape_destroy_pool_ordered is.
Reached == IF pool = NoSlot THEN made + 1 ELSE pool

OrderedAt ==
    /\ \A n \in 1 .. made : next[n] = IF n < made THEN n + 1 ELSE NoSlot
    /\ tPool = IF Reached = 1 THEN NoSlot ELSE Block(Reached - 1)
    /\ tPool # NoSlot => Alloc(tPool)
    /\ \A n \in 1 .. Reached - 1 : Alloc(n) => n <= tPool
    /\ \A n \in SlotNos :
          /\ visits[n] = IF n < Reached THEN 1 ELSE 0
          /\ freed[n] = IF Alloc(n) /\ n < tPool THEN 1 ELSE 0

\* The blocks ape_destroy_pool_with_cleaner has met among the first q - 1
\* slots, by their place.
Marks(ord, q) == {i \in 1 .. q - 1 : Alloc(ord[i])}

\* tPool is the last of them, fPool the first, and each but that points to
\* the one met before.
Stacked(ord, nx, q) ==
    /\ IF Marks(ord, q) = {} THEN tPool = NoSlot /\ fPool = NoSlot
       ELSE /\ \E i \in Marks(ord, q) :
                  tPool = ord[i] /\ \A k \in Marks(ord, q) : k <= i
            /\ \E i \in Marks(ord, q) :
                  fPool = ord[i] /\ \A k \in Marks(ord, q) : i <= k
    /\ \A i \in Marks(ord, q) : ord[i] # fPool =>
          \E j \in Marks(ord, q) :
             /\ j < i /\ nx[ord[i]] = ord[j]
             /\ \A k \in Marks(ord, q) : k < i => k <= j

CleanerAt(ord, q) ==
    /\ Ordering(ord, made) /\ q \in 1 .. made + 1
    /\ pool = IF q <= made THEN ord[q] ELSE NoSlot
    /\ Follows(ord, next, made, q)
    /\ \A i \in 1 .. made : visits[ord[i]] = IF i < q THEN 1 ELSE 0
    /\ Stacked(ord, next, q)

FreeingAt(ord, j) ==
    /\ Ordering(ord, made)
    /\ j \in Marks(ord, made + 1) \union {0}
    /\ pool = IF j = 0 THEN NoSlot ELSE ord[j]
    /\ \A i \in 1 .. made :
          /\ visits[ord[i]] = 1
          /\ freed[ord[i]] = IF i \in Marks(ord, made + 1) /\ j < i THEN 1 ELSE 0
    /\ \A i \in Marks(ord, made + 1) :
          IF ord[i] = fPool
          THEN next[fPool] = NoSlot /\ \A k \in Marks(ord, made + 1) : i <= k
          ELSE \E k \in Marks(ord, made + 1) :
                  /\ k < i /\ next[ord[i]] = ord[k]
                  /\ \A l \in Marks(ord, made + 1) : l < i => l <= k

PoolInv ==
    /\ PoolTypeOK /\ ~misused
    /\ doing = "nothing" => InUse
    /\ doing = "ordered" => OrderedAt
    /\ doing = "cleaner" => /\ \E ord : \E q \in 1 .. made + 1 : CleanerAt(ord, q)
                            /\ \A n \in SlotNos : freed[n] = 0
    /\ doing = "freeing" => \E ord : \E j \in 0 .. made : FreeingAt(ord, j)
    /\ doing = "destroyed" =>
          \A n \in 1 .. made : visits[n] = 1 /\ freed[n] = IF Alloc(n) THEN 1 ELSE 0

-----------------------------------------------------------------------------
(* The blocks.                                                             *)

\* The slot behind another is the first of its block or in the same one.
LEMMA Blocks ==
    /\ Block(1) = 1
    /\ \A n \in Nat \ {0} : /\ Block(n) \in 1 .. n
                            /\ ~Alloc(n) => n # 1 /\ Block(n) = Block(n - 1)
<1> USE PoolAssumption DEF PoolAssumption
<1>1. \A a \in Nat : a % Growth \in 0 .. Growth - 1 /\ a % Growth <= a
    OBVIOUS
<1>2. ASSUME NEW a \in Nat \ {0}, a % Growth # 0
      PROVE  (a - 1) % Growth = (a % Growth) - 1
  <2> DEFINE p == a \div Growth
             q == (a - 1) \div Growth
             r == a % Growth
             s == (a - 1) % Growth
  <2>1. /\ p \in Int /\ q \in Int /\ r \in 1 .. Growth - 1 /\ s \in 0 .. Growth - 1
        /\ a = Growth * p + r /\ a - 1 = Growth * q + s
      BY <1>2
  <2> HIDE DEF p, q, r, s
  <2>2. Growth * (p - q) = s + 1 - r
      BY <2>1
  <2>3. CASE p - q >= 1
    <3>1. Growth * (p - q) >= Growth
        BY <2>1, <2>3
    <3> QED BY <2>1, <2>2, <3>1
  <2>4. CASE p - q <= -1
    <3>1. Growth * (p - q) <= - Growth
        BY <2>1, <2>4
    <3> QED BY <2>1, <2>2, <3>1
  <2>5. CASE p - q = 0
    <3>1. Growth * (p - q) = 0
        BY <2>5
    <3> QED BY <2>1, <2>2, <3>1 DEF r, s
  <2> QED BY <2>1, <2>3, <2>4, <2>5
<1>3. \A n \in Nat : n <= First => Block(n) = 1
    BY DEF Block
<1>4. \A n \in Nat : ~(n <= First) => Block(n) = n - ((n - First - 1) % Growth)
    BY DEF Block
<1>5. ASSUME NEW n \in Nat \ {0}
      PROVE  /\ Block(n) \in 1 .. n
             /\ ~Alloc(n) => n # 1 /\ Block(n) = Block(n - 1)
  <2>1. CASE n <= First
      BY <1>3, <2>1 DEF Alloc
  <2>2. CASE ~(n <= First)
    <3> DEFINE a == n - First - 1
    <3>1. a \in Nat /\ Block(n) = n - (a % Growth) /\ a % Growth \in Nat /\ a % Growth <= a
        BY <1>1, <1>4, <2>2
    <3>2. ASSUME ~Alloc(n) PROVE n # 1 /\ Block(n) = Block(n - 1)
      <4>1. a % Growth # 0 /\ a # 0 /\ n - 1 \in Nat /\ ~(n - 1 <= First)
          BY <1>1, <2>2, <3>1, <3>2 DEF Alloc
      <4>2. Block(n - 1) = (n - 1) - ((n - 1 - First - 1) % Growth) /\ n - 1 - First - 1 = a - 1
          BY <1>4, <4>1
      <4>3. (a - 1) % Growth = (a % Growth) - 1
          BY <1>2, <3>1, <4>1
      <4> QED BY <3>1, <4>1, <4>2, <4>3
    <3> HIDE DEF a
    <3>3. Block(n) \in 1 .. n
        BY <2>2, <3>1 DEF a
    <3> QED BY <3>2, <3>3
  <2> QED BY <2>1, <2>2
<1> QED BY <1>3, <1>5

-----------------------------------------------------------------------------
(* The list.                                                               *)

\* The pointers of a list, by their places.
LEMMA Pointers ==
    ASSUME NEW m \in Nat \ {0}, NEW ord, NEW nx, NEW h, NEW q,
           IsList(ord, nx, m, h, q)
    PROVE  /\ h \in 1 .. m /\ q \in 1 .. m /\ ord[1] = h /\ ord[m] = q
           /\ nx[q] = NoSlot
           /\ \A i \in 1 .. m : ord[i] \in 1 .. m
           /\ \A i \in 1 .. m : i < m => nx[ord[i]] = ord[i + 1]
           /\ \A i \in 1 .. m : ord[i] = h <=> i = 1
           /\ \A i \in 1 .. m : ord[i] = q <=> i = m
           /\ \A i, j \in 1 .. m : ord[i] = ord[j] => i = j
           /\ \A n \in 1 .. m : \E i \in 1 .. m : ord[i] = n
<1>1. /\ ord \in [1 .. m -> 1 .. m] /\ \A i, j \in 1 .. m : ord[i] = ord[j] => i = j
      /\ \A n \in 1 .. m : \E i \in 1 .. m : ord[i] = n
    BY DEF IsList, Ordering
<1>2. /\ ord[1] = h /\ ord[m] = q
      /\ \A j \in 1 .. m : nx[ord[j]] = IF j < m THEN ord[j + 1] ELSE NoSlot
    BY DEF IsList, Follows
<1>3. 1 \in 1 .. m /\ m \in 1 .. m
    OBVIOUS
<1>4. \A i \in 1 .. m : ord[i] \in 1 .. m
    BY <1>1
<1>5. h \in 1 .. m /\ q \in 1 .. m
    BY <1>2, <1>3, <1>4
<1>6. nx[q] = NoSlot /\ \A i \in 1 .. m : i < m => nx[ord[i]] = ord[i + 1]
    BY <1>2, <1>3
<1>7. \A i \in 1 .. m : (ord[i] = h <=> i = 1) /\ (ord[i] = q <=> i = m)
    BY <1>1, <1>2, <1>3
<1> QED BY <1>1, <1>2, <1>4, <1>5, <1>6, <1>7

\* A list as its places have it.
LEMMA MakeList ==
    ASSUME NEW m \in Nat \ {0}, NEW ord, NEW nx, NEW h, NEW q,
           Ordering(ord, m), ord[1] = h, ord[m] = q, nx[q] = NoSlot,
           \A i \in 1 .. m : i < m => nx[ord[i]] = ord[i + 1]
    PROVE  IsList(ord, nx, m, h, q)
    BY DEF IsList, Follows

\* The orders the operations make of an order of m slots: n slots are added;
\* the head goes to the end; the head goes behind the slot at place c.
Longer(ord, m, n) == [i \in 1 .. m + n |-> IF i <= m THEN ord[i] ELSE i]
HeadLast(ord, m) == [i \in 1 .. m |-> IF i < m THEN ord[i + 1] ELSE ord[1]]
HeadAfter(ord, m, c) ==
    [i \in 1 .. m |-> IF i < c THEN ord[i + 1] ELSE IF i = c THEN ord[1] ELSE ord[i]]

\* The list grows at its end.
LEMMA GrowList ==
    ASSUME PoolTypeOK, NEW ord, IsList(ord, next, made, head, queue), Grow
    PROVE  LET new == Longer(ord, made, Growth)
           IN  /\ IsList(new, next', made', head, queue')
               /\ (\A i \in 1 .. made : ord[i] = i) => \A i \in 1 .. made' : new[i] = i
               /\ made' = made + Growth /\ next'[queue] = made + 1
<1> USE PoolAssumption DEF PoolAssumption
<1> DEFINE m == made + Growth
           new == Longer(ord, made, Growth)
<1>1. made \in Nat \ {0} /\ m <= MaxPool /\ m \in Nat \ {0} /\ made' = m /\ queue' = m
    BY DEF PoolTypeOK, Grow, GrownList
<1>2. \A n \in 1 .. m : n \in SlotNos
    BY <1>1 DEF SlotNos
<1>3. /\ next \in [SlotNos -> 0 .. MaxPool]
      /\ next' = [Linked(next, made + 1, m) EXCEPT ![queue] = made + 1]
    BY DEF PoolTypeOK, Grow, GrownList
<1>4. /\ queue \in 1 .. made
      /\ \A i \in 1 .. made : ord[i] \in 1 .. made
      /\ \A i \in 1 .. made : i < made => next[ord[i]] = ord[i + 1]
      /\ \A i \in 1 .. made : ord[i] = queue <=> i = made
      /\ \A i, j \in 1 .. made : ord[i] = ord[j] => i = j
      /\ \A n \in 1 .. made : \E i \in 1 .. made : ord[i] = n
      /\ ord[1] = head
    BY <1>1, Pointers
<1>5. \A n \in 1 .. m :
         next'[n] = IF n = queue THEN made + 1
                    ELSE IF n <= made THEN next[n]
                    ELSE IF n < m THEN n + 1 ELSE NoSlot
  <2> SUFFICES ASSUME NEW n \in 1 .. m
               PROVE  next'[n] = IF n = queue THEN made + 1
                                 ELSE IF n <= made THEN next[n]
                                 ELSE IF n < m THEN n + 1 ELSE NoSlot
      OBVIOUS
  <2>1. DOMAIN Linked(next, made + 1, m) = SlotNos
      BY DEF Linked
  <2>2. next'[n] = IF n = queue THEN made + 1 ELSE Linked(next, made + 1, m)[n]
      BY <1>2, <1>3, <2>1
  <2>3. Linked(next, made + 1, m)[n] = IF made + 1 <= n /\ n < m THEN n + 1
                                       ELSE IF n = m THEN NoSlot ELSE next[n]
    <3>1. made + 1 \in Nat /\ m \in Nat /\ n \in SlotNos
        BY <1>1, <1>2
    <3> HIDE DEF m
    <3>2. n \in made + 1 .. m - 1 <=> made + 1 <= n /\ n < m
        BY <3>1
    <3> QED BY <3>1, <3>2 DEF Linked
  <2> QED BY <1>1, <2>2, <2>3
<1> HIDE DEF m
<1>6. \A i \in 1 .. m : new[i] = IF i <= made THEN ord[i] ELSE i
    BY DEF Longer, m
<1> HIDE DEF new
<1>7. made < m /\ 1 <= made
    BY <1>1 DEF m
<1>8. Ordering(new, m)
  <2>1. new \in [1 .. m -> 1 .. m]
    <3>1. new = [i \in 1 .. m |-> IF i <= made THEN ord[i] ELSE i]
        BY DEF new, Longer, m
    <3>2. \A i \in 1 .. m : new[i] \in 1 .. m
        BY <1>1, <1>4, <1>6, <1>7
    <3> QED BY <3>1, <3>2
  <2>2. \A i, j \in 1 .. m : new[i] = new[j] => i = j
      BY <1>1, <1>4, <1>6, <1>7
  <2>3. \A n \in 1 .. m : \E i \in 1 .. m : new[i] = n
    <3> SUFFICES ASSUME NEW n \in 1 .. m PROVE \E i \in 1 .. m : new[i] = n
        OBVIOUS
    <3>1. CASE n <= made
      <4>1. PICK i \in 1 .. made : ord[i] = n
          BY <1>1, <1>4, <3>1
      <4> QED BY <1>1, <1>6, <1>7, <4>1
    <3>2. CASE ~(n <= made)
        BY <1>6, <3>2
    <3> QED BY <3>1, <3>2
  <2> QED BY <2>1, <2>2, <2>3 DEF Ordering
<1>9. ASSUME NEW i \in 1 .. m, i < m PROVE next'[new[i]] = new[i + 1]
  <2>1. CASE i < made
    <3>1. /\ i \in 1 .. made /\ i + 1 \in 1 .. m /\ i + 1 <= made
          /\ new[i] = ord[i] /\ new[i + 1] = ord[i + 1]
        BY <1>1, <1>6, <1>7, <2>1
    <3>2. ord[i] # queue /\ ord[i] <= made /\ ord[i] \in 1 .. m
        BY <1>1, <1>4, <1>7, <2>1, <3>1
    <3> QED BY <1>4, <1>5, <2>1, <3>1, <3>2
  <2>2. CASE i = made
    <3>1. new[i] = queue /\ new[i + 1] = made + 1 /\ queue \in 1 .. m
        BY <1>1, <1>4, <1>6, <1>7, <2>2
    <3> QED BY <1>5, <3>1
  <2>3. CASE i > made
    <3>1. new[i] = i /\ new[i + 1] = i + 1 /\ i # queue /\ ~(i <= made)
        BY <1>1, <1>4, <1>6, <1>9, <2>3
    <3> QED BY <1>5, <1>9, <3>1
  <2> QED BY <1>1, <2>1, <2>2, <2>3
<1>10. new[1] = head /\ new[m] = m /\ next'[m] = NoSlot
    BY <1>1, <1>4, <1>5, <1>6, <1>7
<1>11. IsList(new, next', m, head, m)
    BY <1>1, <1>8, <1>9, <1>10, MakeList
<1>12. next'[queue] = made + 1
    BY <1>1, <1>4, <1>5, <1>7
<1>13. (\A i \in 1 .. made : ord[i] = i) => \A i \in 1 .. made' : new[i] = i
    BY <1>1, <1>6
<1> QED BY <1>1, <1>11, <1>12, <1>13 DEF m, new

\* The head goes behind the queue.
LEMMA HeadToQueue ==
    ASSUME PoolTypeOK, NEW ord, IsList(ord, next, made, head, queue),
           pool_head_to_queue
    PROVE  IsList(HeadLast(ord, made), next', made, head', queue')
<1> DEFINE m == made
           new == HeadLast(ord, m)
<1>1. made \in Nat \ {0} /\ made <= MaxPool
    BY PoolAssumption DEF PoolTypeOK, PoolAssumption
<1>2. /\ head # queue /\ head' = next[head] /\ queue' = head
      /\ next' = [next EXCEPT ![queue] = head, ![head] = NoSlot]
      /\ next \in [SlotNos -> 0 .. MaxPool]
    BY DEF pool_head_to_queue, PoolTypeOK
<1>3. /\ queue \in 1 .. made /\ head \in 1 .. made
      /\ \A i \in 1 .. made : ord[i] \in 1 .. made
      /\ \A i \in 1 .. made : i < made => next[ord[i]] = ord[i + 1]
      /\ \A i \in 1 .. made : ord[i] = queue <=> i = made
      /\ \A i \in 1 .. made : ord[i] = head <=> i = 1
      /\ \A i, j \in 1 .. made : ord[i] = ord[j] => i = j
      /\ \A n \in 1 .. made : \E i \in 1 .. made : ord[i] = n
      /\ ord[1] = head /\ ord[made] = queue
    BY <1>1, Pointers
<1>4. \A n \in 1 .. made : next'[n] = IF n = head THEN NoSlot
                                      ELSE IF n = queue THEN head ELSE next[n]
  <2>1. \A n \in 1 .. made : n \in SlotNos
      BY <1>1, PoolAssumption DEF SlotNos, PoolAssumption
  <2> QED BY <1>2, <1>3, <2>1
<1>5. made > 1
    BY <1>1, <1>2, <1>3
<1>6. \A i \in 1 .. m : new[i] = IF i < m THEN ord[i + 1] ELSE ord[1]
    BY DEF HeadLast
<1> HIDE DEF new
<1>7. Ordering(new, m)
  <2>1. new \in [1 .. m -> 1 .. m]
    <3>1. new = [i \in 1 .. m |-> IF i < m THEN ord[i + 1] ELSE ord[1]]
        BY DEF new, HeadLast
    <3> QED BY <1>1, <1>3, <3>1
  <2>2. \A i, j \in 1 .. m : new[i] = new[j] => i = j
      BY <1>1, <1>3, <1>6
  <2>3. \A n \in 1 .. m : \E i \in 1 .. m : new[i] = n
    <3> SUFFICES ASSUME NEW n \in 1 .. m PROVE \E i \in 1 .. m : new[i] = n
        OBVIOUS
    <3>1. PICK i \in 1 .. m : ord[i] = n
        BY <1>3
    <3>2. CASE i = 1
        BY <1>1, <1>6, <3>1, <3>2
    <3>3. CASE i # 1
      <4>1. i - 1 \in 1 .. m /\ i - 1 < m /\ (i - 1) + 1 = i
          BY <1>1, <3>3
      <4> QED BY <1>6, <3>1, <4>1
    <3> QED BY <3>2, <3>3
  <2> QED BY <2>1, <2>2, <2>3 DEF Ordering
<1>8. ASSUME NEW i \in 1 .. m, i < m PROVE next'[new[i]] = new[i + 1]
  <2>1. i + 1 \in 1 .. m /\ new[i] = ord[i + 1] /\ ord[i + 1] \in 1 .. m /\ ord[i + 1] # head
      BY <1>1, <1>3, <1>6, <1>8
  <2>2. CASE i + 1 = m
      BY <1>3, <1>4, <1>6, <2>1, <2>2
  <2>3. CASE i + 1 < m
    <3>1. ord[i + 1] # queue /\ next[ord[i + 1]] = ord[i + 1 + 1] /\ new[i + 1] = ord[i + 1 + 1]
        BY <1>3, <1>6, <2>1, <2>3
    <3> QED BY <1>4, <2>1, <3>1
  <2> QED BY <1>1, <2>1, <2>2, <2>3
<1>9. new[1] = next[head] /\ new[m] = head /\ next'[head] = NoSlot
    BY <1>1, <1>3, <1>4, <1>5, <1>6
<1>10. IsList(new, next', m, head', queue')
    BY <1>1, <1>2, <1>7, <1>8, <1>9, MakeList
<1> QED BY <1>10 DEF new

\* The head goes behind the current slot.
LEMMA HeadToCurrent ==
    ASSUME PoolTypeOK, NEW ord, IsList(ord, next, made, head, queue),
           pool_head_to_current
    PROVE  \E c \in 2 .. made :
              ord[c] = cursor /\ IsList(HeadAfter(ord, made, c), next', made, head', queue')
<1>1. made \in Nat \ {0} /\ made <= MaxPool /\ cursor \in 1 .. made
    BY PoolAssumption DEF PoolTypeOK, PoolAssumption, Made
<1>2. /\ head # cursor /\ head' = next[head]
      /\ next' = [next EXCEPT ![cursor] = head, ![head] = next[cursor]]
      /\ queue' = IF next[cursor] = NoSlot THEN head ELSE queue
      /\ next \in [SlotNos -> 0 .. MaxPool]
    BY DEF pool_head_to_current, PoolTypeOK
<1>3. /\ queue \in 1 .. made /\ head \in 1 .. made
      /\ \A i \in 1 .. made : ord[i] \in 1 .. made
      /\ \A i \in 1 .. made : i < made => next[ord[i]] = ord[i + 1]
      /\ \A i \in 1 .. made : ord[i] = queue <=> i = made
      /\ \A i \in 1 .. made : ord[i] = head <=> i = 1
      /\ \A i, j \in 1 .. made : ord[i] = ord[j] => i = j
      /\ \A n \in 1 .. made : \E i \in 1 .. made : ord[i] = n
      /\ ord[1] = head /\ ord[made] = queue /\ next[queue] = NoSlot
    BY <1>1, Pointers
<1>4. PICK c \in 1 .. made : ord[c] = cursor
    BY <1>1, <1>3
<1> DEFINE m == made
           new == HeadAfter(ord, m, c)
<1>5. c # 1 /\ made > 1
    BY <1>1, <1>2, <1>3, <1>4
<1>6. \A n \in 1 .. made : next'[n] = IF n = head THEN next[cursor]
                                      ELSE IF n = cursor THEN head ELSE next[n]
  <2>1. \A n \in 1 .. made : n \in SlotNos
      BY <1>1, PoolAssumption DEF SlotNos, PoolAssumption
  <2> QED BY <1>1, <1>2, <1>3, <2>1
<1>7. \A i \in 1 .. m : new[i] = IF i < c THEN ord[i + 1]
                                 ELSE IF i = c THEN ord[1] ELSE ord[i]
    BY DEF HeadAfter
<1> HIDE DEF new
<1>8. Ordering(new, m)
  <2>1. new \in [1 .. m -> 1 .. m]
    <3>1. new = [i \in 1 .. m |-> IF i < c THEN ord[i + 1]
                                  ELSE IF i = c THEN ord[1] ELSE ord[i]]
        BY DEF new, HeadAfter
    <3>2. \A i \in 1 .. m : new[i] \in 1 .. m
      <4>1. 1 \in 1 .. m /\ \A i \in 1 .. m : i < c => i + 1 \in 1 .. m
          BY <1>1
      <4>2. \A i \in 1 .. m : ord[i] \in 1 .. m
          BY <1>3
      <4> QED BY <1>7, <4>1, <4>2
    <3> QED BY <3>1, <3>2
  <2> DEFINE Old(i) == IF i < c THEN i + 1 ELSE IF i = c THEN 1 ELSE i
  <2>2. \A i \in 1 .. m : Old(i) \in 1 .. m /\ new[i] = ord[Old(i)]
      BY <1>1, <1>7
  <2>3. \A i, j \in 1 .. m : Old(i) = Old(j) => i = j
      BY <1>1
  <2> HIDE DEF Old
  <2>4. \A i, j \in 1 .. m : new[i] = new[j] => i = j
    <3> SUFFICES ASSUME NEW i \in 1 .. m, NEW j \in 1 .. m, new[i] = new[j] PROVE i = j
        OBVIOUS
    <3>1. ord[Old(i)] = ord[Old(j)] /\ Old(i) \in 1 .. m /\ Old(j) \in 1 .. m
        BY <2>2
    <3>2. Old(i) = Old(j)
        BY <1>3, <3>1
    <3> QED BY <2>3, <3>2
  <2>5. \A n \in 1 .. m : \E i \in 1 .. m : new[i] = n
    <3> SUFFICES ASSUME NEW n \in 1 .. m PROVE \E i \in 1 .. m : new[i] = n
        OBVIOUS
    <3>1. PICK i \in 1 .. m : ord[i] = n
        BY <1>3
    <3>2. CASE i = 1
        BY <1>1, <1>7, <3>1, <3>2
    <3>3. CASE i # 1 /\ i <= c
      <4>1. i - 1 \in 1 .. m /\ i - 1 < c /\ (i - 1) + 1 = i
          BY <1>1, <3>3
      <4> QED BY <1>7, <3>1, <4>1
    <3>4. CASE i > c
        BY <1>1, <1>7, <3>1, <3>4
    <3> QED BY <1>1, <3>2, <3>3, <3>4
  <2> QED BY <2>1, <2>4, <2>5 DEF Ordering
<1>9. next[cursor] = IF c < m THEN ord[c + 1] ELSE NoSlot
    BY <1>1, <1>3, <1>4
<1>10. ASSUME NEW i \in 1 .. m, i < m PROVE next'[new[i]] = new[i + 1]
  <2>1. i + 1 \in 1 .. m
      BY <1>1, <1>10
  <2>2. CASE i < c /\ i + 1 # c
    <3>1. /\ i + 1 < c /\ i + 1 < m /\ new[i] = ord[i + 1] /\ new[i + 1] = ord[i + 1 + 1]
          /\ i + 1 # 1
        BY <1>1, <1>7, <2>1, <2>2
    <3>2. ord[i + 1] # head /\ ord[i + 1] # cursor /\ ord[i + 1] \in 1 .. m
        BY <1>3, <1>4, <2>1, <2>2, <3>1
    <3>3. next[ord[i + 1]] = ord[i + 1 + 1]
        BY <1>3, <2>1, <3>1
    <3> QED BY <1>6, <3>1, <3>2, <3>3
  <2>3. CASE i + 1 = c
    <3>1. new[i] = cursor /\ new[i + 1] = head
        BY <1>1, <1>3, <1>4, <1>7, <2>1, <2>3
    <3> QED BY <1>1, <1>2, <1>6, <3>1
  <2>4. CASE i = c
    <3>1. new[i] = head /\ new[i + 1] = ord[c + 1]
        BY <1>1, <1>3, <1>7, <2>1, <2>4
    <3> QED BY <1>3, <1>6, <1>9, <1>10, <2>4, <3>1
  <2>5. CASE i > c
    <3>1. new[i] = ord[i] /\ new[i + 1] = ord[i + 1] /\ i # 1
        BY <1>1, <1>5, <1>7, <2>1, <2>5
    <3>2. ord[i] # head /\ ord[i] # cursor /\ ord[i] \in 1 .. m
        BY <1>3, <1>4, <2>5, <3>1
    <3>3. next'[ord[i]] = next[ord[i]]
        BY <1>6, <3>2
    <3>4. next[ord[i]] = ord[i + 1]
        BY <1>3, <1>10
    <3> QED BY <3>1, <3>3, <3>4
  <2> QED BY <1>1, <2>2, <2>3, <2>4, <2>5
<1>11. new[1] = next[head]
    BY <1>1, <1>3, <1>5, <1>7
<1>12. new[m] = queue' /\ next'[queue'] = NoSlot
  <2>1. CASE c = m
    <3>1. next[cursor] = NoSlot /\ queue' = head /\ new[m] = head
        BY <1>1, <1>2, <1>3, <1>7, <1>9, <2>1
    <3> QED BY <1>3, <1>6, <3>1
  <2>2. CASE c # m
    <3>1. c < m /\ c + 1 \in 1 .. m
        BY <1>1, <2>2
    <3>2. next[cursor] # NoSlot
        BY <1>3, <1>9, <3>1 DEF NoSlot
    <3>3. queue' = queue /\ new[m] = ord[m] /\ queue # head /\ queue # cursor
        BY <1>1, <1>2, <1>3, <1>4, <1>5, <1>7, <2>2, <3>1, <3>2
    <3> QED BY <1>3, <1>6, <3>3
  <2> QED BY <2>1, <2>2
<1>13. IsList(new, next', m, head', queue')
    BY <1>1, <1>2, <1>8, <1>10, <1>11, <1>12, MakeList
<1> QED BY <1>1, <1>4, <1>5, <1>13 DEF new

-----------------------------------------------------------------------------
(* What is so of the list in use.                                          *)

\* Walked from the head on, a list shows its order.
LEMMA WalkIs ==
    ASSUME PoolTypeOK, NEW ord, IsList(ord, next, made, head, queue)
    PROVE  \A k \in 1 .. made + 1 : Walk[k] = IF k <= made THEN ord[k] ELSE NoSlot
<1> DEFINE Nth(k) == IF k <= made THEN ord[k] ELSE NoSlot
           IsWalk(f) == f = [k \in 1 .. made + 1 |->
                                IF k = 1 THEN head
                                ELSE IF f[k - 1] = NoSlot THEN NoSlot ELSE next[f[k - 1]]]
           w == [k \in 1 .. made + 1 |-> Nth(k)]
<1>1. made \in Nat \ {0}
    BY PoolAssumption DEF PoolTypeOK, PoolAssumption
<1>2. /\ ord[1] = head /\ next[ord[made]] = NoSlot
      /\ \A i \in 1 .. made : ord[i] \in 1 .. made
      /\ \A i \in 1 .. made : i < made => next[ord[i]] = ord[i + 1]
    BY <1>1, Pointers
<1>3. \A k \in 1 .. made + 1 :
         Nth(k) = IF k = 1 THEN head
                 ELSE IF Nth(k - 1) = NoSlot THEN NoSlot ELSE next[Nth(k - 1)]
  <2> SUFFICES ASSUME NEW k \in 1 .. made + 1
               PROVE  Nth(k) = IF k = 1 THEN head
                              ELSE IF Nth(k - 1) = NoSlot THEN NoSlot ELSE next[Nth(k - 1)]
      OBVIOUS
  <2>1. CASE k = 1
      BY <1>1, <1>2, <2>1
  <2>2. CASE k # 1
    <3>1. k - 1 \in 1 .. made /\ (k - 1) + 1 = k /\ Nth(k - 1) = ord[k - 1]
        BY <1>1, <2>2
    <3>2. ord[k - 1] # NoSlot
        BY <1>2, <3>1 DEF NoSlot
    <3>3. Nth(k) = next[ord[k - 1]]
        BY <1>1, <1>2, <3>1
    <3> QED BY <2>2, <3>1, <3>2, <3>3
  <2> QED BY <2>1, <2>2
<1>4. IsWalk(w)
  <2>1. \A k \in 1 .. made + 1 : w[k] = Nth(k)
      OBVIOUS
  <2>2. \A k \in 1 .. made + 1 : k # 1 => k - 1 \in 1 .. made + 1
      BY <1>1
  <2> HIDE DEF Nth
  <2> QED BY <1>3, <2>1, <2>2
<1>5. Walk = CHOOSE f : IsWalk(f)
    BY Zenon DEF Walk, IsWalk
<1> HIDE DEF w
<1>6. IsWalk(Walk)
  <2> HIDE DEF IsWalk
  <2> QED BY <1>4, <1>5, Zenon
<1>7. \A k \in 1 .. made + 1 :
         Walk[k] = IF k = 1 THEN head
                   ELSE IF Walk[k - 1] = NoSlot THEN NoSlot ELSE next[Walk[k - 1]]
    BY <1>6, Zenon
<1> HIDE DEF Nth, IsWalk
<1> DEFINE Wrong == {k \in 1 .. made + 1 : Walk[k] # Nth(k)}
<1>8. Wrong = {}
  <2> SUFFICES ASSUME Wrong # {} PROVE FALSE
      OBVIOUS
  <2>1. Wrong \in SUBSET Nat
      BY <1>1
  <2>2. PICK k \in Wrong : \A i \in Wrong : k <= i
    <3> HIDE DEF Wrong
    <3> QED BY <2>1, LeastOf
  <2>3. k \in 1 .. made + 1 /\ Walk[k] # Nth(k)
      OBVIOUS
  <2>4. k # 1
      BY <1>3, <1>7, <2>3
  <2>5. k - 1 \in 1 .. made + 1 /\ ~(k <= k - 1)
      BY <1>1, <2>3, <2>4
  <2>6. Walk[k - 1] = Nth(k - 1)
      BY <2>2, <2>5
  <2> QED BY <1>3, <1>7, <2>3, <2>4, <2>6
<1> QED BY <1>8 DEF Nth

\* The list in use is whole.
LEMMA InUseIsWhole ==
    ASSUME PoolTypeOK, InUse
    PROVE  ListWhole
<1>1. PICK ord : IsList(ord, next, made, head, queue)
    BY DEF InUse
<1>2. made \in Nat \ {0}
    BY PoolAssumption DEF PoolTypeOK, PoolAssumption
<1>3. \A k \in 1 .. made + 1 : Walk[k] = IF k <= made THEN ord[k] ELSE NoSlot
    BY <1>1, WalkIs
<1>4. /\ ord[made] = queue /\ \A i \in 1 .. made : ord[i] \in 1 .. made
      /\ \A n \in 1 .. made : \E i \in 1 .. made : ord[i] = n
    BY <1>1, <1>2, Pointers
<1>5. (\A k \in 1 .. made : Walk[k] = ord[k]) /\ Walk[made + 1] = NoSlot
    BY <1>2, <1>3
<1>6. {Walk[k] : k \in 1 .. made} = 1 .. made
    BY <1>4, <1>5
<1>7. Walk[made] = queue
    BY <1>2, <1>4, <1>5
<1> QED BY <1>5, <1>6, <1>7 DEF ListWhole, Made

-----------------------------------------------------------------------------
(* The steps.                                                              *)

\* A new list is whole.
LEMMA PoolStarts == PoolInit => PoolInv
<1> SUFFICES ASSUME PoolInit PROVE PoolInv
    OBVIOUS
<1> USE PoolAssumption DEF PoolAssumption
<1> DEFINE ord == [i \in 1 .. First |-> i]
<1>1. \A n \in 1 .. First : n \in SlotNos
    BY DEF SlotNos
<1>2. \A n \in SlotNos : next[n] = IF n < First THEN n + 1 ELSE NoSlot
  <2>1. next = [n \in SlotNos |-> IF n \in 1 .. First - 1 THEN n + 1
                                  ELSE IF n = First THEN NoSlot ELSE NoSlot]
      BY DEF PoolInit, Linked
  <2>2. \A n \in SlotNos : n \in 1 .. First - 1 <=> n < First
      BY DEF SlotNos
  <2> QED BY <2>1, <2>2
<1>3. PoolTypeOK
  <2>1. next \in [SlotNos -> 0 .. MaxPool]
    <3>1. \A n \in SlotNos : next[n] \in 0 .. MaxPool
        BY <1>2 DEF NoSlot, SlotNos
    <3>2. next = [n \in SlotNos |-> next[n]]
        BY DEF PoolInit, Linked
    <3> QED BY <3>1, <3>2
  <2>2. /\ made \in First .. MaxPool /\ head \in Made /\ cursor \in Made /\ queue \in Made
      BY DEF PoolInit, Made
  <2>3. {pool, tPool, fPool} \subseteq 0 .. made
      BY DEF PoolInit, NoSlot
  <2>4. visits \in [SlotNos -> Nat] /\ freed \in [SlotNos -> Nat]
      BY DEF PoolInit
  <2>5. sorted \in BOOLEAN /\ misused \in BOOLEAN /\ doing = "nothing"
      BY Zenon DEF PoolInit
  <2> QED BY <2>1, <2>2, <2>3, <2>4, <2>5 DEF PoolTypeOK
<1>4. IsList(ord, next, made, head, queue)
  <2>1. Ordering(ord, First)
      BY DEF Ordering
  <2>2. ord[1] = 1 /\ ord[First] = First /\ next[First] = NoSlot
      BY <1>1, <1>2
  <2>3. \A i \in 1 .. First : i < First => next[ord[i]] = ord[i + 1]
      BY <1>1, <1>2
  <2> HIDE DEF ord
  <2>4. IsList(ord, next, First, 1, First)
      BY <2>1, <2>2, <2>3, MakeList
  <2> QED BY <2>4 DEF PoolInit
<1>5. \A i \in 1 .. made : ord[i] = i
    BY DEF PoolInit
<1> HIDE DEF ord
<1>6. InUse
    BY <1>4, <1>5 DEF InUse, PoolInit
<1> QED BY <1>3, <1>6 DEF PoolInv, PoolInit

\* What a list in use has to be given to stay one.
LEMMA StaysInUse ==
    ASSUME PoolInv, Using,
           made' \in made .. MaxPool, next' \in [SlotNos -> 0 .. MaxPool],
           cursor' \in 1 .. made', sorted' \in BOOLEAN,
           NEW new, IsList(new, next', made', head', queue'),
           sorted' => \A i \in 1 .. made' : new[i] = i
    PROVE  PoolInv'
<1> USE PoolAssumption DEF PoolAssumption
<1>1. /\ PoolTypeOK /\ InUse /\ ~misused /\ doing' = "nothing" /\ UNCHANGED destroyVars
    BY DEF PoolInv, Using, destroyVars
<1>2. made \in Nat \ {0} /\ made' \in Nat \ {0} /\ made' \in First .. MaxPool
    BY <1>1 DEF PoolTypeOK
<1>3. head' \in 1 .. made' /\ queue' \in 1 .. made'
    BY <1>2, Pointers
<1>4. PoolTypeOK'
  <2>1. ({pool, tPool, fPool} \subseteq 0 .. made)'
      BY <1>1, <1>2 DEF PoolTypeOK, destroyVars
  <2> QED BY <1>1, <1>2, <1>3, <2>1 DEF PoolTypeOK, Made, destroyVars
<1>5. InUse'
    BY <1>1 DEF InUse, destroyVars
<1> QED BY <1>1, <1>4, <1>5 DEF PoolInv, destroyVars

\* Growing gives a list a type allows.
LEMMA GrowsTyped ==
    ASSUME PoolTypeOK, Grow
    PROVE  made' \in made .. MaxPool /\ made < made' /\ next' \in [SlotNos -> 0 .. MaxPool]
<1> USE PoolAssumption DEF PoolAssumption
<1> DEFINE m == made + Growth
           l == Linked(next, made + 1, m)
<1>1. /\ made \in Nat \ {0} /\ m <= MaxPool /\ m \in Nat /\ made < m /\ made' = m
      /\ next' = [l EXCEPT ![queue] = made + 1]
      /\ next \in [SlotNos -> 0 .. MaxPool]
    BY DEF PoolTypeOK, Grow, GrownList
<1> HIDE DEF m
<1>2. \A n \in SlotNos : l[n] \in 0 .. MaxPool
  <2> SUFFICES ASSUME NEW n \in SlotNos PROVE l[n] \in 0 .. MaxPool
      OBVIOUS
  <2>1. l[n] = IF n \in made + 1 .. m - 1 THEN n + 1
               ELSE IF n = m THEN NoSlot ELSE next[n]
      BY DEF Linked
  <2>2. next[n] \in 0 .. MaxPool
      BY <1>1
  <2>3. n \in made + 1 .. m - 1 => n + 1 \in 0 .. MaxPool
      BY <1>1 DEF SlotNos
  <2> QED BY <2>1, <2>2, <2>3 DEF NoSlot
<1>3. l \in [SlotNos -> 0 .. MaxPool]
  <2>1. l = [n \in SlotNos |-> l[n]]
      BY DEF Linked
  <2> HIDE DEF l
  <2> QED BY <1>2, <2>1
<1> HIDE DEF l
<1>4. made + 1 \in 0 .. MaxPool
    BY <1>1
<1>5. next' \in [SlotNos -> 0 .. MaxPool]
    BY <1>1, <1>3, <1>4
<1> QED BY <1>1, <1>5

\* The list is used: grown, moved on, rewound, its head put elsewhere.
LEMMA UseKeeps ==
    ASSUME PoolInv,
           \/ grow_pool \/ pool_push \/ pool_rewind
           \/ pool_head_to_queue \/ pool_head_to_current
    PROVE  PoolInv'
<1>1. Using
    BY DEF grow_pool, pool_push, pool_rewind, pool_head_to_queue, pool_head_to_current
<1>2. PoolTypeOK /\ InUse
    BY <1>1 DEF PoolInv, Using
<1>3. PICK ord : /\ IsList(ord, next, made, head, queue)
                 /\ sorted => \A i \in 1 .. made : ord[i] = i
    BY <1>2 DEF InUse
<1>4. /\ made \in Nat \ {0} /\ made \in made .. MaxPool /\ made <= MaxPool
      /\ next \in [SlotNos -> 0 .. MaxPool]
      /\ cursor \in 1 .. made /\ head \in 1 .. made /\ sorted \in BOOLEAN
    BY <1>2, PoolAssumption DEF PoolTypeOK, PoolAssumption, Made
<1>5. /\ queue \in 1 .. made
      /\ \A i \in 1 .. made : ord[i] \in 1 .. made
      /\ \A i \in 1 .. made : i < made => next[ord[i]] = ord[i + 1]
      /\ \A n \in 1 .. made : \E i \in 1 .. made : ord[i] = n
      /\ ord[made] = queue /\ ord[1] = head
    BY <1>3, <1>4, Pointers
<1>6. \A n \in 1 .. made : n \in SlotNos
    BY <1>4, PoolAssumption DEF SlotNos, PoolAssumption
<1>7. ASSUME NEW n \in 1 .. made, next[n] # NoSlot PROVE next[n] \in 1 .. made
  <2>1. PICK i \in 1 .. made : ord[i] = n
      BY <1>5
  <2>2. CASE i < made
    <3>1. i + 1 \in 1 .. made
        BY <1>4, <2>2
    <3> QED BY <1>5, <2>1, <2>2, <3>1
  <2>3. CASE i = made
    <3>1. next[ord[made]] = NoSlot
        BY <1>3, <1>4, Pointers
    <3> QED BY <1>7, <2>1, <2>3, <3>1
  <2> QED BY <1>4, <2>2, <2>3
<1>8. CASE grow_pool
  <2>1. Grow /\ UNCHANGED <<head, cursor, sorted>>
      BY <1>8 DEF grow_pool
  <2>2. made' \in made .. MaxPool /\ next' \in [SlotNos -> 0 .. MaxPool]
      BY <1>2, <2>1, GrowsTyped
  <2> DEFINE new == Longer(ord, made, Growth)
  <2>3. /\ IsList(new, next', made', head, queue')
        /\ (\A i \in 1 .. made : ord[i] = i) => \A i \in 1 .. made' : new[i] = i
      BY <1>2, <1>3, <2>1, GrowList
  <2>4. cursor' \in 1 .. made' /\ sorted' \in BOOLEAN /\ head' = head
      BY <1>4, <2>1, <2>2
  <2>5. sorted' => \A i \in 1 .. made' : new[i] = i
      BY <1>3, <2>1, <2>3
  <2>6. IsList(new, next', made', head', queue')
      BY <2>3, <2>4
  <2> QED BY <1>1, <2>2, <2>4, <2>5, <2>6, StaysInUse
<1>9. CASE pool_push
  <2>1. CASE next[cursor] = NoSlot
    <3>1. Grow /\ cursor' = next'[cursor] /\ UNCHANGED <<head, sorted>>
        BY <1>9, <2>1 DEF pool_push
    <3>2. made' \in made .. MaxPool /\ made < made' /\ next' \in [SlotNos -> 0 .. MaxPool]
        BY <1>2, <3>1, GrowsTyped
    <3> DEFINE new == Longer(ord, made, Growth)
    <3>3. /\ IsList(new, next', made', head, queue')
          /\ (\A i \in 1 .. made : ord[i] = i) => \A i \in 1 .. made' : new[i] = i
          /\ next'[queue] = made + 1
        BY <1>2, <1>3, <3>1, GrowList
    <3>4. cursor = queue
      <4>1. PICK i \in 1 .. made : ord[i] = cursor
          BY <1>4, <1>5
      <4>2. CASE i < made
        <5>1. i + 1 \in 1 .. made
            BY <1>4, <4>2
        <5> QED BY <1>5, <2>1, <4>1, <4>2, <5>1 DEF NoSlot
      <4> QED BY <1>4, <1>5, <4>1, <4>2
    <3>5. cursor' \in 1 .. made' /\ sorted' \in BOOLEAN /\ head' = head
        BY <1>4, <3>1, <3>2, <3>3, <3>4
    <3>6. sorted' => \A i \in 1 .. made' : new[i] = i
        BY <1>3, <3>1, <3>3
    <3>7. IsList(new, next', made', head', queue')
        BY <3>3, <3>5
    <3> QED BY <1>1, <3>2, <3>5, <3>6, <3>7, StaysInUse
  <2>2. CASE next[cursor] # NoSlot
    <3>1. cursor' = next[cursor] /\ UNCHANGED <<made, next, head, queue, sorted>>
        BY <1>9, <2>2 DEF pool_push
    <3>2. cursor' \in 1 .. made'
        BY <1>4, <1>7, <2>2, <3>1
    <3>3. IsList(ord, next', made', head', queue')
        BY <1>3, <3>1
    <3> QED BY <1>1, <1>3, <1>4, <3>1, <3>2, <3>3, StaysInUse
  <2> QED BY <2>1, <2>2
<1>10. CASE pool_rewind
  <2>1. cursor' = head /\ UNCHANGED <<made, next, head, queue, sorted>>
      BY <1>10 DEF pool_rewind
  <2>2. IsList(ord, next', made', head', queue')
      BY <1>3, <2>1
  <2> QED BY <1>1, <1>3, <1>4, <2>1, <2>2, StaysInUse
<1>11. CASE pool_head_to_queue
  <2>1. /\ next' = [next EXCEPT ![queue] = head, ![head] = NoSlot]
        /\ sorted' = FALSE /\ UNCHANGED <<made, cursor>>
      BY <1>11 DEF pool_head_to_queue
  <2>2. PICK new : IsList(new, next', made', head', queue')
    <3>1. IsList(HeadLast(ord, made), next', made, head', queue')
        BY <1>2, <1>3, <1>11, HeadToQueue
    <3> QED BY <2>1, <3>1
  <2>3. next' \in [SlotNos -> 0 .. MaxPool]
    <3>1. head \in 0 .. MaxPool /\ NoSlot \in 0 .. MaxPool
        BY <1>4, PoolAssumption DEF NoSlot, PoolAssumption
    <3> QED BY <1>4, <2>1, <3>1
  <2> QED BY <1>1, <1>4, <2>1, <2>2, <2>3, StaysInUse
<1>12. CASE pool_head_to_current
  <2>1. /\ next' = [next EXCEPT ![cursor] = head, ![head] = next[cursor]]
        /\ cursor' = head /\ sorted' = FALSE /\ UNCHANGED made
      BY <1>12 DEF pool_head_to_current
  <2>2. PICK new : IsList(new, next', made', head', queue')
    <3>1. \E c \in 2 .. made : IsList(HeadAfter(ord, made, c), next', made, head', queue')
        BY <1>2, <1>3, <1>12, HeadToCurrent
    <3> QED BY <2>1, <3>1
  <2>3. next' \in [SlotNos -> 0 .. MaxPool]
    <3>1. head \in 0 .. MaxPool /\ next[cursor] \in 0 .. MaxPool
        BY <1>4, <1>6, PoolAssumption DEF PoolAssumption
    <3> QED BY <1>4, <2>1, <3>1
  <2> QED BY <1>1, <1>4, <2>1, <2>2, <2>3, StaysInUse
<1> QED BY <1>8, <1>9, <1>10, <1>11, <1>12

\* A destruction begins.
LEMMA DestroyBegins ==
    ASSUME PoolInv, NEW how \in {"ordered", "cleaner"}, Destroy(how)
    PROVE  PoolInv'
<1> USE PoolAssumption DEF PoolAssumption
<1>1. /\ PoolTypeOK /\ ~misused /\ InUse /\ doing' = how /\ pool' = head
      /\ (how = "ordered" => sorted)
      /\ UNCHANGED <<listVars, tPool, fPool, visits, freed, misused>>
    BY DEF PoolInv, Destroy
<1>2. PICK ord : /\ IsList(ord, next, made, head, queue)
                 /\ sorted => \A i \in 1 .. made : ord[i] = i
    BY <1>1 DEF InUse
<1>3. made \in Nat \ {0} /\ made <= MaxPool
    BY <1>1 DEF PoolTypeOK
<1>4. /\ Ordering(ord, made) /\ Follows(ord, next, made, 1)
      /\ head = ord[1] /\ head \in 1 .. made
    BY <1>1, <1>2 DEF IsList, PoolTypeOK, Made
<1>5. /\ tPool = NoSlot /\ fPool = NoSlot
      /\ \A n \in SlotNos : visits[n] = 0 /\ freed[n] = 0
    BY <1>1 DEF InUse
<1>6. /\ made' = made /\ next' = next /\ tPool' = tPool /\ fPool' = fPool
      /\ visits' = visits /\ freed' = freed /\ misused' = misused /\ pool' = head
    BY <1>1 DEF listVars
<1>7. PoolTypeOK'
  <2>1. ({pool, tPool, fPool} \subseteq 0 .. made)'
      BY <1>3, <1>4, <1>5, <1>6 DEF NoSlot
  <2>2. doing' \in {"nothing", "ordered", "cleaner", "freeing", "destroyed"}
      BY <1>1
  <2> QED BY <1>1, <2>1, <2>2 DEF PoolTypeOK, listVars, Made
<1>8. CASE how = "ordered"
  <2>1. OrderedAt'
    <3>1. \A n \in 1 .. made : next[n] = IF n < made THEN n + 1 ELSE NoSlot
      <4>1. \A n \in 1 .. made : ord[n] = n
          BY <1>1, <1>2, <1>8
      <4>2. \A n \in 1 .. made : n < made => n + 1 \in 1 .. made
          BY <1>3
      <4> QED BY <1>4, <4>1, <4>2 DEF Follows
    <3>2. Reached' = 1
      <4>1. head = 1
          BY <1>1, <1>2, <1>3, <1>4, <1>8
      <4> QED BY <1>6, <4>1 DEF Reached, NoSlot
    <3>3. \A n \in SlotNos : ~(n < 1) /\ ~(n < tPool)
        BY <1>5 DEF SlotNos, NoSlot
    <3> QED BY <1>5, <1>6, <3>1, <3>2, <3>3 DEF OrderedAt
  <2> QED BY <1>1, <1>6, <1>7, <1>8, <2>1 DEF PoolInv
<1>9. CASE how = "cleaner"
  <2>1. CleanerAt(ord, 1)'
    <3>1. Marks(ord, 1) = {}
        BY DEF Marks
    <3>2. Stacked(ord, next, 1)'
        BY <1>5, <1>6, <3>1 DEF Stacked
    <3>3. \A i \in 1 .. made : visits[ord[i]] = 0 /\ ~(i < 1)
      <4>1. \A i \in 1 .. made : ord[i] \in 1 .. made
          BY <1>4 DEF Ordering
      <4>2. \A i \in 1 .. made : ord[i] \in SlotNos
          BY <1>3, <4>1 DEF SlotNos
      <4> QED BY <1>5, <4>2
    <3>4. 1 \in 1 .. made + 1 /\ 1 <= made
        BY <1>3
    <3> QED BY <1>4, <1>6, <3>2, <3>3, <3>4 DEF CleanerAt
  <2>2. \E o : \E q \in 1 .. made' + 1 : CleanerAt(o, q)'
      BY <1>3, <1>6, <2>1
  <2> QED BY <1>1, <1>5, <1>6, <1>7, <1>9, <2>2 DEF PoolInv
<1> QED BY <1>8, <1>9

\* The blocks are freed in the order in which they were made.
LEMMA OrderedKeeps ==
    ASSUME PoolInv, Ordered
    PROVE  PoolInv'
<1> USE PoolAssumption DEF PoolAssumption
<1>1. /\ PoolTypeOK /\ ~misused /\ OrderedAt /\ doing = "ordered" /\ doing' = "ordered"
      /\ pool # NoSlot
      /\ visits' = [visits EXCEPT ![pool] = @ + 1]
      /\ freed' = IF Alloc(pool) /\ tPool # NoSlot THEN [freed EXCEPT ![tPool] = @ + 1]
                  ELSE freed
      /\ misused' = (misused \/ freed'[Block(pool)] > 0)
      /\ tPool' = IF Alloc(pool) THEN pool ELSE tPool
      /\ pool' = next[pool]
      /\ UNCHANGED <<listVars, fPool>>
    BY DEF PoolInv, Ordered, CleanSlot, Freeing, Uses
<1>2. /\ made \in Nat \ {0} /\ made <= MaxPool /\ pool \in 1 .. made /\ tPool \in 0 .. made
      /\ visits \in [SlotNos -> Nat] /\ freed \in [SlotNos -> Nat] /\ fPool \in 0 .. made
    BY <1>1 DEF PoolTypeOK, NoSlot
<1>3. made' = made /\ next' = next /\ fPool' = fPool
    BY <1>1 DEF listVars
<1>4. /\ \A n \in 1 .. made : next[n] = IF n < made THEN n + 1 ELSE NoSlot
      /\ tPool = IF pool = 1 THEN NoSlot ELSE Block(pool - 1)
      /\ tPool # NoSlot => Alloc(tPool)
      /\ \A n \in 1 .. pool - 1 : Alloc(n) => n <= tPool
      /\ \A n \in SlotNos : /\ visits[n] = IF n < pool THEN 1 ELSE 0
                            /\ freed[n] = IF Alloc(n) /\ n < tPool THEN 1 ELSE 0
    BY <1>1 DEF OrderedAt, Reached
<1>5. Reached' = pool + 1
  <2>1. pool' = IF pool < made THEN pool + 1 ELSE NoSlot
      BY <1>1, <1>2, <1>4
  <2>2. Reached' = IF pool' = NoSlot THEN made + 1 ELSE pool'
      BY <1>3 DEF Reached
  <2> QED BY <1>2, <2>1, <2>2 DEF NoSlot
<1>6. pool' \in 0 .. made /\ tPool' \in 0 .. made
  <2>1. pool' = IF pool < made THEN pool + 1 ELSE NoSlot
      BY <1>1, <1>2, <1>4
  <2> QED BY <1>1, <1>2, <2>1 DEF NoSlot
<1>7. /\ Block(pool) \in 1 .. pool
      /\ ~Alloc(pool) => pool # 1 /\ Block(pool) = Block(pool - 1)
      /\ tPool < pool
      /\ Block(1) = 1
  <2>1. \A n \in 1 .. made : Block(n) \in 1 .. n
      BY <1>2, Blocks
  <2>2. pool # 1 => pool - 1 \in 1 .. made
      BY <1>2
  <2>3. tPool < pool
      BY <1>2, <1>4, <2>1, <2>2 DEF NoSlot
  <2>4. ~Alloc(pool) => pool # 1 /\ Block(pool) = Block(pool - 1)
      BY <1>2, Blocks
  <2> QED BY <1>2, <2>1, <2>3, <2>4, Blocks
<1>8. tPool' = Block(pool) /\ Alloc(tPool')
  <2>1. CASE Alloc(pool)
      BY <1>1, <2>1 DEF Alloc
  <2>2. CASE ~Alloc(pool)
    <3>1. tPool' = tPool /\ tPool = Block(pool) /\ tPool # NoSlot
        BY <1>1, <1>2, <1>4, <1>7, <2>2 DEF NoSlot
    <3> QED BY <1>4, <3>1
  <2> QED BY <2>1, <2>2
<1>9. \A n \in 1 .. pool : Alloc(n) => n <= tPool'
  <2> SUFFICES ASSUME NEW n \in 1 .. pool, Alloc(n) PROVE n <= tPool'
      OBVIOUS
  <2>1. CASE n = pool
      BY <1>1, <1>2, <2>1
  <2>2. CASE n # pool
    <3>1. n <= tPool
        BY <1>2, <1>4, <2>2
    <3> QED BY <1>1, <1>2, <1>7, <3>1
  <2> QED BY <2>1, <2>2
<1>10. \A n \in SlotNos : visits'[n] = IF n < pool + 1 THEN 1 ELSE 0
  <2> SUFFICES ASSUME NEW n \in SlotNos PROVE visits'[n] = IF n < pool + 1 THEN 1 ELSE 0
      OBVIOUS
  <2>1. pool \in SlotNos /\ n \in Nat
      BY <1>2 DEF SlotNos
  <2>2. visits'[n] = IF n = pool THEN visits[n] + 1 ELSE visits[n]
      BY <1>1, <1>2, <2>1
  <2> QED BY <1>2, <1>4, <2>1, <2>2
<1>11. ASSUME NEW n \in SlotNos
       PROVE  freed'[n] = IF Alloc(n) /\ n < tPool' THEN 1 ELSE 0
  <2>1. n \in Nat \ {0} /\ freed[n] = IF Alloc(n) /\ n < tPool THEN 1 ELSE 0
      BY <1>4 DEF SlotNos
  <2>2. CASE Alloc(pool) /\ tPool # NoSlot
    <3>1. tPool \in SlotNos /\ Alloc(tPool) /\ tPool' = pool
        BY <1>1, <1>2, <1>4, <2>2 DEF SlotNos, NoSlot
    <3>2. freed'[n] = IF n = tPool THEN freed[n] + 1 ELSE freed[n]
        BY <1>1, <1>2, <2>2, <3>1
    <3>3. CASE n = tPool
        BY <1>2, <1>7, <2>1, <3>1, <3>2, <3>3
    <3>4. CASE n # tPool
      <4>1. Alloc(n) => (n < pool <=> n < tPool)
          BY <1>2, <1>4, <1>7, <2>1, <3>4
      <4> QED BY <2>1, <3>1, <3>2, <3>4, <4>1
    <3> QED BY <3>3, <3>4
  <2>3. CASE ~(Alloc(pool) /\ tPool # NoSlot)
    <3>1. freed'[n] = freed[n]
        BY <1>1, <2>3
    <3>2. CASE tPool' = tPool
        BY <2>1, <3>1, <3>2
    <3>3. CASE tPool' # tPool
      <4>1. tPool = NoSlot /\ tPool' = pool
          BY <1>1, <2>3, <3>3
      <4>2. pool = 1
        <5>1. pool # 1 => pool - 1 \in Nat \ {0}
            BY <1>2
        <5>2. pool # 1 => Block(pool - 1) \in 1 .. pool - 1
            BY <5>1, Blocks
        <5> QED BY <1>2, <1>4, <4>1, <5>2 DEF NoSlot
      <4> QED BY <2>1, <3>1, <4>1, <4>2 DEF NoSlot
    <3> QED BY <3>2, <3>3
  <2> QED BY <2>2, <2>3
<1>12. misused' = FALSE
  <2>1. Block(pool) \in SlotNos
      BY <1>2, <1>7 DEF SlotNos
  <2>2. ~(Block(pool) < tPool')
      BY <1>2, <1>7, <1>8
  <2>3. freed'[Block(pool)] = 0
      BY <1>11, <2>1, <2>2
  <2>4. ~(freed'[Block(pool)] > 0)
      BY <2>3
  <2> QED BY <1>1, <2>4, Zenon
<1>13. PoolTypeOK'
  <2>1. visits' \in [SlotNos -> Nat] /\ freed' \in [SlotNos -> Nat]
    <3>1. pool \in SlotNos /\ (tPool # NoSlot => tPool \in SlotNos)
        BY <1>2 DEF SlotNos, NoSlot
    <3>2. visits[pool] + 1 \in Nat /\ (tPool # NoSlot => freed[tPool] + 1 \in Nat)
        BY <1>2, <3>1
    <3> QED BY <1>1, <1>2, <3>1, <3>2
  <2>2. ({pool, tPool, fPool} \subseteq 0 .. made)'
      BY <1>2, <1>3, <1>6
  <2>3. doing' \in {"nothing", "ordered", "cleaner", "freeing", "destroyed"}
      BY <1>1
  <2> QED BY <1>1, <1>12, <2>1, <2>2, <2>3 DEF PoolTypeOK, listVars, Made
<1>14. OrderedAt'
  <2>1. tPool' = IF pool + 1 = 1 THEN NoSlot ELSE Block((pool + 1) - 1)
      BY <1>2, <1>8
  <2>2. \A n \in 1 .. (pool + 1) - 1 : Alloc(n) => n <= tPool'
      BY <1>2, <1>9
  <2> QED BY <1>3, <1>4, <1>5, <1>8, <1>10, <1>11, <2>1, <2>2 DEF OrderedAt
<1> QED BY <1>1, <1>12, <1>13, <1>14 DEF PoolInv

\* The last block is freed behind the walk.
LEMMA OrderedEnds ==
    ASSUME PoolInv, OrderedEnd
    PROVE  PoolInv'
<1> USE PoolAssumption DEF PoolAssumption
<1>1. /\ PoolTypeOK /\ ~misused /\ OrderedAt /\ doing' = "destroyed" /\ pool = NoSlot
      /\ freed' = IF tPool # NoSlot THEN [freed EXCEPT ![tPool] = @ + 1] ELSE freed
      /\ UNCHANGED <<listVars, pool, tPool, fPool, visits, misused>>
    BY DEF PoolInv, OrderedEnd, Freeing
<1>2. /\ made \in Nat \ {0} /\ made <= MaxPool /\ tPool \in 0 .. made
      /\ freed \in [SlotNos -> Nat]
    BY <1>1 DEF PoolTypeOK
<1>3. /\ tPool # NoSlot => Alloc(tPool)
      /\ tPool = Block(made)
      /\ \A n \in 1 .. made : Alloc(n) => n <= tPool
      /\ \A n \in SlotNos : /\ visits[n] = IF n < made + 1 THEN 1 ELSE 0
                            /\ freed[n] = IF Alloc(n) /\ n < tPool THEN 1 ELSE 0
  <2>1. Reached = made + 1 /\ made + 1 # 1 /\ (made + 1) - 1 = made
      BY <1>1, <1>2 DEF Reached
  <2> QED BY <1>1, <2>1 DEF OrderedAt
<1>4. tPool # NoSlot /\ tPool \in SlotNos
  <2>1. Block(made) \in 1 .. made
      BY <1>2, Blocks
  <2> QED BY <1>2, <1>3, <2>1 DEF SlotNos, NoSlot
<1>5. \A n \in 1 .. made : visits'[n] = 1 /\ freed'[n] = IF Alloc(n) THEN 1 ELSE 0
  <2> SUFFICES ASSUME NEW n \in 1 .. made
               PROVE  visits'[n] = 1 /\ freed'[n] = IF Alloc(n) THEN 1 ELSE 0
      OBVIOUS
  <2>1. n \in SlotNos /\ visits'[n] = visits[n] /\ n < made + 1
      BY <1>1, <1>2 DEF SlotNos
  <2>2. freed'[n] = IF n = tPool THEN freed[n] + 1 ELSE freed[n]
      BY <1>1, <1>2, <1>4, <2>1
  <2>3. Alloc(n) => n < tPool \/ n = tPool
      BY <1>2, <1>3
  <2>4. Alloc(tPool)
      BY <1>3, <1>4
  <2> QED BY <1>2, <1>3, <2>1, <2>2, <2>3, <2>4
<1>6. PoolTypeOK'
  <2>1. freed' \in [SlotNos -> Nat]
    <3>1. freed[tPool] + 1 \in Nat
        BY <1>2, <1>4
    <3> QED BY <1>1, <1>2, <1>4, <3>1
  <2>2. doing' \in {"nothing", "ordered", "cleaner", "freeing", "destroyed"}
      BY <1>1
  <2> QED BY <1>1, <2>1, <2>2 DEF PoolTypeOK, listVars, Made
<1>7. made' = made
    BY <1>1 DEF listVars
<1> QED BY <1>1, <1>5, <1>6, <1>7 DEF PoolInv

\* Another place walked marks the first slot of a block there.
LEMMA MarksGrow ==
    ASSUME NEW ord, NEW q \in Nat \ {0}
    PROVE  /\ \A i \in Marks(ord, q) : i \in 1 .. q - 1 /\ Alloc(ord[i])
           /\ Alloc(ord[q]) => Marks(ord, q + 1) = Marks(ord, q) \union {q}
           /\ ~Alloc(ord[q]) => Marks(ord, q + 1) = Marks(ord, q)
<1>1. 1 .. (q + 1) - 1 = (1 .. q - 1) \union {q}
    OBVIOUS
<1>2. Marks(ord, q + 1) = {i \in (1 .. q - 1) \union {q} : Alloc(ord[i])}
    BY <1>1 DEF Marks
<1> QED BY <1>2, Zenon DEF Marks

\* The walk of the cleaner puts aside the first slots of the blocks.
LEMMA CleanerKeeps ==
    ASSUME PoolInv, WithCleaner
    PROVE  PoolInv'
<1> USE PoolAssumption DEF PoolAssumption
<1>1. /\ PoolTypeOK /\ ~misused /\ doing = "cleaner" /\ doing' = "cleaner" /\ pool # NoSlot
      /\ \A n \in SlotNos : freed[n] = 0
      /\ visits' = [visits EXCEPT ![pool] = @ + 1]
      /\ fPool' = IF Alloc(pool) /\ fPool = NoSlot THEN pool ELSE fPool
      /\ next' = IF Alloc(pool) /\ tPool # NoSlot
                 THEN [next EXCEPT ![fPool'] = next[pool], ![pool] = tPool]
                 ELSE next
      /\ tPool' = IF Alloc(pool) THEN pool ELSE tPool
      /\ pool' = next[pool]
      /\ UNCHANGED <<made, head, cursor, queue, sorted, freed, misused>>
    BY DEF PoolInv, WithCleaner, CleanSlot
<1>2. PICK ord : \E q \in 1 .. made + 1 : CleanerAt(ord, q)
    BY <1>1 DEF PoolInv
<1>3. PICK q \in 1 .. made + 1 : CleanerAt(ord, q)
    BY <1>2
<1>4. /\ made \in Nat \ {0} /\ made <= MaxPool /\ pool \in 1 .. made
      /\ tPool \in 0 .. made /\ fPool \in 0 .. made
      /\ next \in [SlotNos -> 0 .. MaxPool] /\ visits \in [SlotNos -> Nat]
    BY <1>1 DEF PoolTypeOK, NoSlot
<1>5. /\ q <= made /\ q \in 1 .. made /\ pool = ord[q]
      /\ \A i \in 1 .. made : ord[i] \in 1 .. made
      /\ \A i, j \in 1 .. made : ord[i] = ord[j] => i = j
      /\ \A j \in q .. made : next[ord[j]] = IF j < made THEN ord[j + 1] ELSE NoSlot
      /\ \A i \in 1 .. made : visits[ord[i]] = IF i < q THEN 1 ELSE 0
  <2>1. q <= made /\ pool = ord[q]
      BY <1>1, <1>3 DEF CleanerAt
  <2>2. Ordering(ord, made) /\ Follows(ord, next, made, q)
      BY <1>3 DEF CleanerAt
  <2>3. \A i \in 1 .. made : visits[ord[i]] = IF i < q THEN 1 ELSE 0
      BY <1>3 DEF CleanerAt
  <2>4. /\ \A i \in 1 .. made : ord[i] \in 1 .. made
        /\ \A i, j \in 1 .. made : ord[i] = ord[j] => i = j
      BY <2>2 DEF Ordering
  <2>5. \A j \in q .. made : next[ord[j]] = IF j < made THEN ord[j + 1] ELSE NoSlot
      BY <2>2 DEF Follows
  <2>6. q \in 1 .. made
      BY <1>4, <2>1
  <2> QED BY <2>1, <2>3, <2>4, <2>5, <2>6
<1>6. \A n \in 1 .. made : n \in SlotNos
    BY <1>4 DEF SlotNos
<1>7. pool' = IF q + 1 <= made THEN ord[q + 1] ELSE NoSlot
    BY <1>1, <1>4, <1>5
<1>8. pool' \in 0 .. made
  <2>1. q + 1 <= made => q + 1 \in 1 .. made
      BY <1>4, <1>5
  <2> QED BY <1>4, <1>5, <1>7, <2>1 DEF NoSlot
<1>9. \A i \in 1 .. made : visits'[ord[i]] = IF i < q + 1 THEN 1 ELSE 0
  <2> SUFFICES ASSUME NEW i \in 1 .. made
               PROVE  visits'[ord[i]] = IF i < q + 1 THEN 1 ELSE 0
      OBVIOUS
  <2>1. visits'[ord[i]] = IF ord[i] = pool THEN visits[ord[i]] + 1 ELSE visits[ord[i]]
      BY <1>1, <1>4, <1>5, <1>6
  <2>2. ord[i] = pool <=> i = q
      BY <1>5
  <2> QED BY <1>4, <1>5, <2>1, <2>2
<1>10. /\ IF Marks(ord, q) = {} THEN tPool = NoSlot /\ fPool = NoSlot
          ELSE /\ \E i \in Marks(ord, q) :
                     tPool = ord[i] /\ \A k \in Marks(ord, q) : k <= i
               /\ \E i \in Marks(ord, q) :
                     fPool = ord[i] /\ \A k \in Marks(ord, q) : i <= k
       /\ \A i \in Marks(ord, q) : ord[i] # fPool =>
             \E j \in Marks(ord, q) :
                /\ j < i /\ next[ord[i]] = ord[j]
                /\ \A k \in Marks(ord, q) : k < i => k <= j
    BY <1>3 DEF CleanerAt, Stacked
<1>11. \A i \in Marks(ord, q) : i \in 1 .. q - 1 /\ i \in 1 .. made /\ ord[i] # pool /\ i < q
  <2>1. \A i \in Marks(ord, q) : i \in 1 .. q - 1
      BY <1>5, MarksGrow
  <2>2. \A i \in 1 .. q - 1 : i \in 1 .. made /\ i # q /\ i < q
      BY <1>4, <1>5
  <2> QED BY <1>5, <2>1, <2>2
<1>12. Stacked(ord, next, q + 1)' /\ Follows(ord, next', made, q + 1)
  <2>1. CASE ~Alloc(pool)
    <3>1. Marks(ord, q + 1) = Marks(ord, q)
        BY <1>5, <2>1, MarksGrow
    <3>2. next' = next /\ tPool' = tPool /\ fPool' = fPool
        BY <1>1, <2>1
    <3>3. Stacked(ord, next, q + 1)'
        BY <1>10, <3>1, <3>2 DEF Stacked
    <3>4. Follows(ord, next', made, q + 1)
        BY <1>4, <1>5, <3>2 DEF Follows
    <3> QED BY <3>3, <3>4
  <2>2. CASE Alloc(pool) /\ Marks(ord, q) = {}
    <3>1. Marks(ord, q + 1) = {q}
        BY <1>5, <2>2, MarksGrow
    <3>2. tPool = NoSlot /\ fPool = NoSlot
        BY <1>10, <2>2
    <3>3. next' = next /\ tPool' = pool /\ fPool' = pool
        BY <1>1, <2>2, <3>2
    <3>4. Stacked(ord, next, q + 1)'
      <4>1. q <= q
          BY <1>5
      <4> QED BY <1>5, <3>1, <3>3, <4>1 DEF Stacked
    <3>5. Follows(ord, next', made, q + 1)
        BY <1>4, <1>5, <3>3 DEF Follows
    <3> QED BY <3>4, <3>5
  <2>3. CASE Alloc(pool) /\ Marks(ord, q) # {}
    <3> DEFINE M == Marks(ord, q)
               N == Marks(ord, q + 1)
    <3>1. N = M \union {q}
        BY <1>5, <2>3, MarksGrow
    <3>2. PICK b \in M : tPool = ord[b] /\ \A k \in M : k <= b
        BY <1>10, <2>3
    <3>3. PICK a \in M : fPool = ord[a] /\ \A k \in M : a <= k
        BY <1>10, <2>3
    <3>4. /\ a \in 1 .. made /\ b \in 1 .. made /\ a < q /\ b < q
          /\ fPool # NoSlot /\ tPool # NoSlot /\ fPool # pool
        BY <1>5, <1>11, <3>2, <3>3 DEF NoSlot
    <3>5. /\ fPool' = fPool /\ tPool' = pool
          /\ next' = [next EXCEPT ![fPool] = next[pool], ![pool] = tPool]
        BY <1>1, <2>3, <3>4
    <3>6. /\ next'[pool] = tPool
          /\ \A n \in 1 .. made : n # pool /\ n # fPool => next'[n] = next[n]
        BY <1>4, <1>5, <1>6, <3>3, <3>4, <3>5
    <3>7. \A i \in M : i \in 1 .. made /\ ord[i] \in 1 .. made /\ ord[i] # pool /\ i < q
        BY <1>5, <1>11
    <3> HIDE DEF M, N
    <3>8. \A i \in M : ord[i] # fPool =>
             \E j \in M : /\ j < i /\ next[ord[i]] = ord[j]
                          /\ \A k \in M : k < i => k <= j
        BY <1>10 DEF M
    <3>9. ASSUME NEW i \in N, ord[i] # fPool
          PROVE  \E j \in N : /\ j < i /\ next'[ord[i]] = ord[j]
                              /\ \A k \in N : k < i => k <= j
      <4>1. CASE i = q
        <5>1. next'[ord[i]] = ord[b] /\ b \in N /\ b < i
            BY <1>5, <3>1, <3>2, <3>4, <3>6, <4>1
        <5>2. \A k \in N : k < i => k <= b
            BY <1>5, <3>1, <3>2, <4>1
        <5> QED BY <5>1, <5>2
      <4>2. CASE i # q
        <5>1. i \in M
            BY <3>1, <4>2
        <5>2. PICK j \in M : /\ j < i /\ next[ord[i]] = ord[j]
                             /\ \A k \in M : k < i => k <= j
            BY <3>8, <3>9, <5>1
        <5>3. next'[ord[i]] = next[ord[i]]
            BY <3>6, <3>7, <3>9, <5>1
        <5>4. \A k \in N : k < i => k <= j
            BY <1>5, <3>1, <3>7, <5>1, <5>2
        <5> QED BY <3>1, <5>2, <5>3, <5>4
      <4> QED BY <4>1, <4>2
    <3>10. \E i \in N : tPool' = ord[i] /\ \A k \in N : k <= i
      <4>1. \A k \in N : k <= q
          BY <1>5, <3>1, <3>7
      <4> QED BY <1>5, <3>1, <3>5, <4>1
    <3>11. \E i \in N : fPool' = ord[i] /\ \A k \in N : i <= k
      <4>1. \A k \in N : a <= k
          BY <1>5, <3>1, <3>3, <3>4
      <4> QED BY <3>1, <3>3, <3>5, <4>1
    <3>12. \A i \in N : ord[i] # fPool' =>
              \E j \in N : /\ j < i /\ next'[ord[i]] = ord[j]
                           /\ \A k \in N : k < i => k <= j
        BY <3>5, <3>9
    <3>13. Stacked(ord, next, q + 1)'
      <4>1. N # {}
          BY <3>1
      <4> QED BY <3>10, <3>11, <3>12, <4>1 DEF Stacked, N
    <3>14. Follows(ord, next', made, q + 1)
      <4> SUFFICES ASSUME NEW j \in q + 1 .. made
                   PROVE  next'[ord[j]] = IF j < made THEN ord[j + 1] ELSE NoSlot
          BY DEF Follows
      <4>1. j \in 1 .. made /\ j \in q .. made /\ j # q /\ j # a
          BY <1>4, <1>5, <3>4
      <4>2. ord[j] # pool /\ ord[j] # fPool /\ ord[j] \in 1 .. made
          BY <1>5, <3>3, <3>4, <4>1
      <4> QED BY <1>5, <3>6, <4>1, <4>2
    <3> QED BY <3>13, <3>14
  <2> QED BY <2>1, <2>2, <2>3
<1>13. PoolTypeOK'
  <2>1. next' \in [SlotNos -> 0 .. MaxPool]
    <3>1. next[pool] \in 0 .. MaxPool /\ tPool \in 0 .. MaxPool
        BY <1>4, <1>6
    <3> QED BY <1>1, <1>4, <3>1
  <2>2. visits' \in [SlotNos -> Nat]
    <3>1. visits[pool] + 1 \in Nat /\ pool \in SlotNos
        BY <1>4, <1>6
    <3> QED BY <1>1, <1>4, <3>1
  <2>3. ({pool, tPool, fPool} \subseteq 0 .. made)'
      BY <1>1, <1>4, <1>8
  <2>4. doing' \in {"nothing", "ordered", "cleaner", "freeing", "destroyed"}
      BY <1>1
  <2> QED BY <1>1, <2>1, <2>2, <2>3, <2>4 DEF PoolTypeOK, Made
<1>14. CleanerAt(ord, q + 1)'
  <2>1. q + 1 \in 1 .. made + 1 /\ Ordering(ord, made)
      BY <1>3, <1>4, <1>5 DEF CleanerAt
  <2> QED BY <1>1, <1>7, <1>9, <1>12, <2>1 DEF CleanerAt
<1>15. \E o : \E k \in 1 .. made' + 1 : CleanerAt(o, k)'
  <2>1. q + 1 \in 1 .. made' + 1
      BY <1>1, <1>4, <1>5
  <2> QED BY <1>14, <2>1
<1> QED BY <1>1, <1>13, <1>15 DEF PoolInv

\* Behind the walk, the first slots of the blocks are a list that ends.
LEMMA CleanerEnds ==
    ASSUME PoolInv, WithCleanerEnd
    PROVE  PoolInv'
<1> USE PoolAssumption DEF PoolAssumption
<1>1. /\ PoolTypeOK /\ ~misused /\ doing = "cleaner" /\ doing' = "freeing" /\ pool = NoSlot
      /\ \A n \in SlotNos : freed[n] = 0
      /\ next' = IF fPool # NoSlot THEN [next EXCEPT ![fPool] = NoSlot] ELSE next
      /\ pool' = tPool
      /\ UNCHANGED <<made, head, cursor, queue, sorted, tPool, fPool, visits,
                     freed, misused>>
    BY DEF PoolInv, WithCleanerEnd
<1>2. PICK ord : \E q \in 1 .. made + 1 : CleanerAt(ord, q)
    BY <1>1 DEF PoolInv
<1>3. PICK q \in 1 .. made + 1 : CleanerAt(ord, q)
    BY <1>2
<1>4. /\ made \in Nat \ {0} /\ made <= MaxPool
      /\ tPool \in 0 .. made /\ fPool \in 0 .. made
      /\ next \in [SlotNos -> 0 .. MaxPool]
    BY <1>1 DEF PoolTypeOK
<1>5. Ordering(ord, made)
    BY <1>3 DEF CleanerAt
<1>6. /\ \A i \in 1 .. made : ord[i] \in 1 .. made
      /\ \A i, j \in 1 .. made : ord[i] = ord[j] => i = j
    BY <1>5 DEF Ordering
<1>7. \A n \in 1 .. made : n \in SlotNos
    BY <1>4 DEF SlotNos
<1>8. q = made + 1
  <2>1. pool = IF q <= made THEN ord[q] ELSE NoSlot
      BY <1>3 DEF CleanerAt
  <2>2. q <= made => q \in 1 .. made
      BY <1>4
  <2> QED BY <1>1, <1>4, <1>6, <2>1, <2>2 DEF NoSlot
<1> DEFINE M == Marks(ord, made + 1)
<1>9. \A i \in 1 .. made : visits[ord[i]] = 1
  <2>1. \A i \in 1 .. made : visits[ord[i]] = IF i < q THEN 1 ELSE 0
      BY <1>3 DEF CleanerAt
  <2> QED BY <1>4, <1>8, <2>1
<1>10. Stacked(ord, next, made + 1)
    BY <1>3, <1>8 DEF CleanerAt
<1>11. /\ IF M = {} THEN tPool = NoSlot /\ fPool = NoSlot
          ELSE /\ \E i \in M : tPool = ord[i] /\ \A k \in M : k <= i
               /\ \E i \in M : fPool = ord[i] /\ \A k \in M : i <= k
       /\ \A i \in M : ord[i] # fPool =>
             \E j \in M : /\ j < i /\ next[ord[i]] = ord[j]
                          /\ \A k \in M : k < i => k <= j
    BY <1>10 DEF Stacked
<1>12. \A i \in M : i \in 1 .. made
  <2>1. M = {i \in 1 .. (made + 1) - 1 : Alloc(ord[i])}
      BY DEF Marks
  <2>2. (made + 1) - 1 = made
      BY <1>4
  <2> QED BY <2>1, <2>2
<1> HIDE DEF M
<1>13. /\ fPool # NoSlot => next'[fPool] = NoSlot
       /\ \A n \in 1 .. made : n # fPool => next'[n] = next[n]
  <2>1. fPool # NoSlot => fPool \in SlotNos
      BY <1>4 DEF SlotNos, NoSlot
  <2> QED BY <1>1, <1>4, <1>7, <2>1
<1>14. \A i \in M :
          IF ord[i] = fPool THEN next'[fPool] = NoSlot /\ \A k \in M : i <= k
          ELSE \E k \in M : /\ k < i /\ next'[ord[i]] = ord[k]
                            /\ \A l \in M : l < i => l <= k
  <2> SUFFICES ASSUME NEW i \in M
               PROVE  IF ord[i] = fPool THEN next'[fPool] = NoSlot /\ \A k \in M : i <= k
                      ELSE \E k \in M : /\ k < i /\ next'[ord[i]] = ord[k]
                                        /\ \A l \in M : l < i => l <= k
      OBVIOUS
  <2>1. i \in 1 .. made /\ ord[i] \in 1 .. made
      BY <1>6, <1>12
  <2>2. CASE ord[i] = fPool
    <3>1. PICK a \in M : fPool = ord[a] /\ \A k \in M : a <= k
        BY <1>11
    <3>2. a = i
        BY <1>6, <1>12, <2>1, <2>2, <3>1
    <3>3. fPool # NoSlot
        BY <2>1, <2>2 DEF NoSlot
    <3> QED BY <1>13, <2>2, <3>1, <3>2, <3>3
  <2>3. CASE ord[i] # fPool
    <3>1. next'[ord[i]] = next[ord[i]]
        BY <1>13, <2>1, <2>3
    <3> QED BY <1>11, <2>3, <3>1
  <2> QED BY <2>2, <2>3
<1>15. \E j \in 0 .. made : FreeingAt(ord, j)'
  <2>1. PICK j \in 0 .. made : /\ j \in M \union {0}
                               /\ tPool = IF j = 0 THEN NoSlot ELSE ord[j]
                               /\ \A k \in M : ~(j < k)
    <3>1. CASE M = {}
      <4>1. tPool = NoSlot /\ 0 \in 0 .. made
          BY <1>4, <1>11, <3>1
      <4> QED BY <3>1, <4>1
    <3>2. CASE M # {}
      <4>1. PICK b \in M : tPool = ord[b] /\ \A k \in M : k <= b
          BY <1>11, <3>2
      <4>2. b \in 0 .. made /\ b # 0 /\ \A k \in M : ~(b < k)
          BY <1>4, <1>12, <4>1
      <4> QED BY <4>1, <4>2
    <3> QED BY <3>1, <3>2
  <2>2. \A i \in 1 .. made : freed[ord[i]] = 0
      BY <1>1, <1>6, <1>7
  <2>3. \A i \in 1 .. made : freed[ord[i]] = IF i \in M /\ j < i THEN 1 ELSE 0
      BY <2>1, <2>2
  <2>4. made' = made /\ pool' = tPool /\ fPool' = fPool /\ visits' = visits /\ freed' = freed
      BY <1>1
  <2>5. FreeingAt(ord, j)'
      BY <1>5, <1>9, <1>14, <2>1, <2>3, <2>4 DEF FreeingAt, M
  <2> QED BY <2>5
<1>16. PoolTypeOK'
  <2>1. next' \in [SlotNos -> 0 .. MaxPool]
    <3>1. NoSlot \in 0 .. MaxPool
        BY DEF NoSlot
    <3> QED BY <1>1, <1>4, <3>1
  <2>2. ({pool, tPool, fPool} \subseteq 0 .. made)'
      BY <1>1, <1>4
  <2>3. doing' \in {"nothing", "ordered", "cleaner", "freeing", "destroyed"}
      BY <1>1
  <2> QED BY <1>1, <2>1, <2>2, <2>3 DEF PoolTypeOK, Made
<1>17. \E o : \E j \in 0 .. made' : FreeingAt(o, j)'
    BY <1>1, <1>15
<1> QED BY <1>1, <1>16, <1>17 DEF PoolInv

\* A block is freed: the last that was put aside and is still there.
LEMMA FreeingKeeps ==
    ASSUME PoolInv, FreeBlocks
    PROVE  PoolInv'
<1> USE PoolAssumption DEF PoolAssumption
<1>1. /\ PoolTypeOK /\ ~misused /\ doing = "freeing" /\ doing' = "freeing"
      /\ pool # NoSlot /\ Alloc(pool)
      /\ misused' = (misused \/ freed[Block(pool)] > 0)
      /\ freed' = [freed EXCEPT ![pool] = @ + 1]
      /\ pool' = next[pool] /\ tPool' = next[pool]
      /\ UNCHANGED <<listVars, fPool, visits>>
    BY DEF PoolInv, FreeBlocks, Uses, Freeing
<1>2. PICK ord : \E j \in 0 .. made : FreeingAt(ord, j)
    BY <1>1 DEF PoolInv
<1>3. PICK j \in 0 .. made : FreeingAt(ord, j)
    BY <1>2
<1>4. /\ made \in Nat \ {0} /\ made <= MaxPool /\ pool \in 1 .. made
      /\ fPool \in 0 .. made /\ freed \in [SlotNos -> Nat]
    BY <1>1 DEF PoolTypeOK, NoSlot
<1>5. made' = made /\ next' = next /\ fPool' = fPool /\ visits' = visits
    BY <1>1 DEF listVars
<1> DEFINE M == Marks(ord, made + 1)
<1>6. /\ Ordering(ord, made)
      /\ j \in M \union {0}
      /\ pool = IF j = 0 THEN NoSlot ELSE ord[j]
      /\ \A i \in 1 .. made :
            /\ visits[ord[i]] = 1
            /\ freed[ord[i]] = IF i \in M /\ j < i THEN 1 ELSE 0
      /\ \A i \in M :
            IF ord[i] = fPool THEN next[fPool] = NoSlot /\ \A k \in M : i <= k
            ELSE \E k \in M : /\ k < i /\ next[ord[i]] = ord[k]
                              /\ \A l \in M : l < i => l <= k
    BY <1>3 DEF FreeingAt
<1>7. \A i \in M : i \in 1 .. made
  <2>1. M = {i \in 1 .. (made + 1) - 1 : Alloc(ord[i])}
      BY DEF Marks
  <2>2. (made + 1) - 1 = made
      BY <1>4
  <2> QED BY <2>1, <2>2
<1> HIDE DEF M
<1>8. /\ \A i \in 1 .. made : ord[i] \in 1 .. made
      /\ \A i, k \in 1 .. made : ord[i] = ord[k] => i = k
    BY <1>6 DEF Ordering
<1>9. j \in M /\ j \in 1 .. made /\ pool = ord[j] /\ freed[pool] = 0
  <2>1. j # 0
      BY <1>1, <1>6
  <2>2. j \in M /\ pool = ord[j]
      BY <1>6, <2>1
  <2>3. j \in 1 .. made /\ ~(j < j)
      BY <1>7, <2>2
  <2> QED BY <1>6, <2>2, <2>3
<1>10. \A n \in 1 .. made : n \in SlotNos
    BY <1>4 DEF SlotNos
<1>11. PICK k \in 0 .. made : /\ k \in M \union {0} /\ k < j
                              /\ next[pool] = IF k = 0 THEN NoSlot ELSE ord[k]
                              /\ \A l \in M : l < j => l <= k
  <2>1. CASE pool = fPool
    <3>1. next[pool] = NoSlot /\ \A l \in M : j <= l
        BY <1>6, <1>9, <2>1
    <3>2. \A l \in M : ~(l < j)
        BY <1>4, <1>7, <1>9, <3>1
    <3>3. 0 \in 0 .. made /\ 0 < j
        BY <1>4, <1>9
    <3> QED BY <3>1, <3>2, <3>3
  <2>2. CASE pool # fPool
    <3>1. PICK k \in M : /\ k < j /\ next[pool] = ord[k]
                         /\ \A l \in M : l < j => l <= k
        BY <1>6, <1>9, <2>2
    <3>2. k \in 0 .. made /\ k # 0
        BY <1>4, <1>7, <3>1
    <3> QED BY <3>1, <3>2
  <2> QED BY <2>1, <2>2
<1>12. \A i \in 1 .. made : freed'[ord[i]] = IF i \in M /\ k < i THEN 1 ELSE 0
  <2> SUFFICES ASSUME NEW i \in 1 .. made
               PROVE  freed'[ord[i]] = IF i \in M /\ k < i THEN 1 ELSE 0
      OBVIOUS
  <2>1. freed'[ord[i]] = IF ord[i] = pool THEN freed[ord[i]] + 1 ELSE freed[ord[i]]
      BY <1>1, <1>4, <1>8, <1>10
  <2>2. ord[i] = pool <=> i = j
      BY <1>8, <1>9
  <2>3. freed[ord[i]] = IF i \in M /\ j < i THEN 1 ELSE 0
      BY <1>6
  <2>4. CASE i = j
      BY <1>9, <1>11, <2>1, <2>2, <2>3, <2>4
  <2>5. CASE i # j
    <3>1. i \in M => (k < i <=> j < i)
        BY <1>9, <1>11, <2>5
    <3> QED BY <2>1, <2>2, <2>3, <2>5, <3>1
  <2> QED BY <2>4, <2>5
<1>13. pool' \in 0 .. made /\ tPool' \in 0 .. made
  <2>1. k # 0 => k \in 1 .. made
      BY <1>4
  <2>2. next[pool] \in 0 .. made
      BY <1>4, <1>8, <1>11, <2>1 DEF NoSlot
  <2> QED BY <1>1, <2>2
<1>14. misused' = FALSE
  <2>1. Block(pool) = pool
      BY <1>1 DEF Alloc
  <2>2. ~(freed[Block(pool)] > 0)
      BY <1>9, <2>1
  <2> QED BY <1>1, <2>2, Zenon
<1>15. PoolTypeOK'
  <2>1. freed' \in [SlotNos -> Nat]
    <3>1. freed[pool] + 1 \in Nat
        BY <1>9
    <3> QED BY <1>1, <1>4, <3>1
  <2>2. ({pool, tPool, fPool} \subseteq 0 .. made)'
      BY <1>4, <1>5, <1>13
  <2>3. doing' \in {"nothing", "ordered", "cleaner", "freeing", "destroyed"}
      BY <1>1
  <2> QED BY <1>1, <1>14, <2>1, <2>2, <2>3 DEF PoolTypeOK, listVars, Made
<1>16. FreeingAt(ord, k)'
    BY <1>1, <1>5, <1>6, <1>11, <1>12 DEF FreeingAt, M
<1>17. \E o : \E i \in 0 .. made' : FreeingAt(o, i)'
    BY <1>5, <1>16
<1> QED BY <1>1, <1>14, <1>15, <1>17 DEF PoolInv

\* None is left.
LEMMA FreeingEnds ==
    ASSUME PoolInv, FreeBlocksEnd
    PROVE  PoolInv'
<1>1. /\ PoolTypeOK /\ ~misused /\ doing = "freeing" /\ doing' = "destroyed"
      /\ pool = NoSlot \/ ~Alloc(pool)
      /\ UNCHANGED <<listVars, pool, tPool, fPool, visits, freed, misused>>
    BY DEF PoolInv, FreeBlocksEnd
<1>2. PICK ord : \E j \in 0 .. made : FreeingAt(ord, j)
    BY <1>1 DEF PoolInv
<1>3. PICK j \in 0 .. made : FreeingAt(ord, j)
    BY <1>2
<1>4. made \in Nat \ {0}
    BY <1>1, PoolAssumption DEF PoolTypeOK, PoolAssumption
<1> DEFINE M == Marks(ord, made + 1)
<1>5. /\ Ordering(ord, made) /\ j \in M \union {0}
      /\ pool = IF j = 0 THEN NoSlot ELSE ord[j]
      /\ \A i \in 1 .. made :
            /\ visits[ord[i]] = 1
            /\ freed[ord[i]] = IF i \in M /\ j < i THEN 1 ELSE 0
    BY <1>3 DEF FreeingAt
<1>6. \A i : i \in M <=> i \in 1 .. made /\ Alloc(ord[i])
  <2>1. M = {i \in 1 .. (made + 1) - 1 : Alloc(ord[i])}
      BY DEF Marks
  <2>2. (made + 1) - 1 = made
      BY <1>4
  <2> QED BY <2>1, <2>2
<1> HIDE DEF M
<1>7. j = 0
  <2> SUFFICES ASSUME j # 0 PROVE FALSE
      OBVIOUS
  <2>1. j \in 1 .. made /\ Alloc(ord[j]) /\ pool = ord[j]
      BY <1>5, <1>6
  <2>2. ord[j] \in 1 .. made
      BY <1>5, <2>1 DEF Ordering
  <2> QED BY <1>1, <2>1, <2>2 DEF NoSlot
<1>8. \A n \in 1 .. made : visits[n] = 1 /\ freed[n] = IF Alloc(n) THEN 1 ELSE 0
  <2> SUFFICES ASSUME NEW n \in 1 .. made
               PROVE  visits[n] = 1 /\ freed[n] = IF Alloc(n) THEN 1 ELSE 0
      OBVIOUS
  <2>1. PICK i \in 1 .. made : ord[i] = n
      BY <1>5 DEF Ordering
  <2>2. 0 < i
      BY <1>4
  <2> QED BY <1>5, <1>6, <1>7, <2>1, <2>2
<1>9. PoolTypeOK'
  <2>1. doing' \in {"nothing", "ordered", "cleaner", "freeing", "destroyed"}
      BY <1>1
  <2> QED BY <1>1, <2>1 DEF PoolTypeOK, listVars, Made
<1>10. made' = made /\ visits' = visits /\ freed' = freed
    BY <1>1 DEF listVars
<1> QED BY <1>1, <1>8, <1>9, <1>10 DEF PoolInv

\* Every step keeps what a pool is like.
LEMMA PoolInvStep == PoolInv /\ [PoolNext]_poolVars => PoolInv'
<1> SUFFICES ASSUME PoolInv, [PoolNext]_poolVars PROVE PoolInv'
    OBVIOUS
<1>1. CASE \/ grow_pool \/ pool_push \/ pool_rewind
           \/ pool_head_to_queue \/ pool_head_to_current
    BY <1>1, UseKeeps
<1>2. CASE Destroy("ordered") \/ Destroy("cleaner")
    BY <1>2, DestroyBegins
<1>3. CASE Ordered
    BY <1>3, OrderedKeeps
<1>4. CASE OrderedEnd
    BY <1>4, OrderedEnds
<1>5. CASE WithCleaner
    BY <1>5, CleanerKeeps
<1>6. CASE WithCleanerEnd
    BY <1>6, CleanerEnds
<1>7. CASE FreeBlocks
    BY <1>7, FreeingKeeps
<1>8. CASE FreeBlocksEnd
    BY <1>8, FreeingEnds
<1>9. CASE UNCHANGED poolVars
  <2>1. /\ UNCHANGED <<made, next, head, cursor, queue, sorted>>
        /\ UNCHANGED <<doing, pool, tPool, fPool, visits, freed, misused>>
      BY <1>9 DEF poolVars, listVars, destroyVars
  <2>2. PoolTypeOK'
      BY <2>1 DEF PoolInv, PoolTypeOK, Made
  <2>3. (doing = "nothing" => InUse)'
      BY <2>1 DEF PoolInv, InUse
  <2>4. (doing = "ordered" => OrderedAt)'
      BY <2>1 DEF PoolInv, OrderedAt, Reached
  <2>5. (doing = "cleaner" => /\ \E ord : \E q \in 1 .. made + 1 : CleanerAt(ord, q)
                              /\ \A n \in SlotNos : freed[n] = 0)'
      BY <2>1 DEF PoolInv, CleanerAt, Stacked
  <2>6. (doing = "freeing" => \E ord : \E j \in 0 .. made : FreeingAt(ord, j))'
      BY <2>1 DEF PoolInv, FreeingAt
  <2> QED BY <2>1, <2>2, <2>3, <2>4, <2>5, <2>6 DEF PoolInv
<1> QED BY <1>1, <1>2, <1>3, <1>4, <1>5, <1>6, <1>7, <1>8, <1>9 DEF PoolNext

\* The variables of a pool keep their types (ape_pool.c).
THEOREM PoolTypeCorrect == PoolSpec => []PoolTypeOK
<1>1. PoolInv => PoolTypeOK
    BY DEF PoolInv
<1> QED BY <1>1, PoolStarts, PoolInvStep, PTL DEF PoolSpec

\* However a list of slots is grown and reordered, it goes through every slot
\* once and ends with its queue; destroyed in either way, it hands each slot to
\* the cleaner once, frees each block once and touches no slot of a block that
\* it has freed (ape_pool_head_to_current, ape_pool_head_to_queue,
\* ape_grow_pool, ape_destroy_pool_ordered, ape_destroy_pool_with_cleaner).
THEOREM PoolCorrect == PoolSpec => []PoolSound
<1>1. PoolInv => PoolSound
  <2> SUFFICES ASSUME PoolInv PROVE PoolSound
      OBVIOUS
  <2>1. ListWhole
    <3>1. CASE doing = "nothing"
        BY <3>1, InUseIsWhole DEF PoolInv
    <3>2. CASE doing # "nothing"
        BY <3>2 DEF ListWhole
    <3> QED BY <3>1, <3>2
  <2>2. BlocksFreedOnce
      BY DEF PoolInv, BlocksFreedOnce, Made
  <2> QED BY <2>1, <2>2 DEF PoolSound
<1> QED BY <1>1, PoolStarts, PoolInvStep, PTL DEF PoolSpec

-----------------------------------------------------------------------------
(* The pool implements SlotList.  First what SlotList does to a sequence,  *)
(* said of the orders above.                                               *)

\* An order of slots is a sequence.
LEMMA OrderIsSequence ==
    ASSUME NEW m \in Nat \ {0}, NEW s, \A i \in 1 .. m : s[i] \in Nat,
           s = [i \in 1 .. m |-> s[i]]
    PROVE  s \in Seq(Nat) /\ Len(s) = m /\ s # <<>>
<1>1. s \in [1 .. m -> Nat]
    OBVIOUS
<1>2. s \in Seq(Nat) /\ Len(s) = m
    BY <1>1, LenProperties
<1> QED BY <1>2, EmptySeq

\* Sequences with the same elements are the same.
LEMMA SameOrder ==
    ASSUME NEW m \in Nat \ {0}, NEW s \in Seq(Nat), NEW t, Len(s) = m,
           t = [i \in 1 .. m |-> t[i]], \A i \in 1 .. m : s[i] = t[i]
    PROVE  s = t
<1>1. \A i \in 1 .. m : t[i] \in Nat
    BY ElementOfSeq
<1>2. t \in Seq(Nat) /\ Len(t) = m
    BY <1>1, OrderIsSequence
<1> QED BY <1>2, SeqEqual

LEMMA AsLonger ==
    ASSUME NEW m \in Nat \ {0}, NEW n \in Nat \ {0}, NEW s \in [1 .. m -> 1 .. m]
    PROVE  s \o AsList!New(m, n) = Longer(s, m, n)
<1> DEFINE u == AsList!New(m, n)
           t == Longer(s, m, n)
<1>1. s \in Seq(Nat) /\ Len(s) = m
    BY OrderIsSequence
<1>2. u = [k \in 1 .. n |-> m + k]
    BY DEF AsList!New
<1> HIDE DEF u
<1>3. \A k \in 1 .. n : u[k] = m + k
    BY <1>2
<1>4. u = [k \in 1 .. n |-> u[k]] /\ \A k \in 1 .. n : u[k] \in Nat
    BY <1>2
<1>5. u \in Seq(Nat) /\ Len(u) = n
    BY <1>4, OrderIsSequence
<1>6. /\ s \o u \in Seq(Nat) /\ Len(s \o u) = m + n
      /\ \A i \in 1 .. m + n : (s \o u)[i] = IF i <= m THEN s[i] ELSE u[i - m]
    BY <1>1, <1>5, ConcatProperties
<1>7. t = [i \in 1 .. m + n |-> t[i]]
    BY DEF Longer
<1>8. \A i \in 1 .. m + n : t[i] = IF i <= m THEN s[i] ELSE i
    BY DEF Longer
<1> HIDE DEF t
<1>9. ASSUME NEW i \in 1 .. m + n PROVE (s \o u)[i] = t[i]
  <2>1. CASE i <= m
      BY <1>6, <1>8, <2>1
  <2>2. CASE ~(i <= m)
    <3>1. i - m \in 1 .. n /\ m + (i - m) = i
        BY <2>2
    <3> QED BY <1>3, <1>6, <1>8, <2>2, <3>1
  <2> QED BY <2>1, <2>2
<1>10. m + n \in Nat \ {0}
    OBVIOUS
<1>11. s \o u = t
    BY <1>6, <1>7, <1>9, <1>10, SameOrder
<1> QED BY <1>11 DEF u, t

LEMMA AsHeadLast ==
    ASSUME NEW m \in Nat, m > 1, NEW s \in [1 .. m -> 1 .. m]
    PROVE  Tail(s) \o <<Head(s)>> = HeadLast(s, m)
<1> DEFINE u == Tail(s)
           v == <<Head(s)>>
           t == HeadLast(s, m)
<1>1. s \in Seq(Nat) /\ Len(s) = m /\ s # <<>>
    BY OrderIsSequence
<1>2. Head(s) = s[1] /\ s[1] \in Nat
    BY <1>1
<1>3. /\ u \in Seq(Nat) /\ Len(u) = m - 1
      /\ \A i \in 1 .. m - 1 : u[i] = s[i + 1]
    BY <1>1, HeadTailProperties
<1>4. v \in Seq(Nat) /\ Len(v) = 1 /\ v[1] = s[1]
    BY <1>2
<1> HIDE DEF u, v
<1>5. /\ u \o v \in Seq(Nat) /\ Len(u \o v) = m
      /\ \A i \in 1 .. m : (u \o v)[i] = IF i <= m - 1 THEN u[i] ELSE v[i - (m - 1)]
  <2>1. /\ u \o v \in Seq(Nat) /\ Len(u \o v) = Len(u) + Len(v)
        /\ \A i \in 1 .. Len(u) + Len(v) :
              (u \o v)[i] = IF i <= Len(u) THEN u[i] ELSE v[i - Len(u)]
      BY <1>3, <1>4, ConcatProperties
  <2>2. Len(u) = m - 1 /\ Len(u) + Len(v) = m
      BY <1>3, <1>4
  <2> QED BY <2>1, <2>2
<1>6. t = [i \in 1 .. m |-> t[i]]
    BY DEF HeadLast
<1>7. \A i \in 1 .. m : t[i] = IF i < m THEN s[i + 1] ELSE s[1]
    BY DEF HeadLast
<1> HIDE DEF t
<1>8. ASSUME NEW i \in 1 .. m PROVE (u \o v)[i] = t[i]
  <2>1. CASE i < m
    <3>1. i \in 1 .. m - 1 /\ i <= m - 1
        BY <2>1
    <3> QED BY <1>3, <1>5, <1>7, <2>1, <3>1
  <2>2. CASE i = m
    <3>1. ~(m <= m - 1) /\ m - (m - 1) = 1 /\ ~(m < m)
        OBVIOUS
    <3>2. (u \o v)[m] = v[1] /\ t[m] = s[1]
        BY <1>5, <1>7, <2>2, <3>1
    <3> QED BY <1>4, <2>2, <3>2
  <2>3. i < m \/ i = m
      OBVIOUS
  <2> QED BY <2>1, <2>2, <2>3
<1>9. u \o v = t
  <2>1. m \in Nat \ {0}
      OBVIOUS
  <2> QED BY <1>5, <1>6, <1>8, <2>1, SameOrder
<1> QED BY <1>9 DEF u, v, t

LEMMA AsHeadAfter ==
    ASSUME NEW m \in Nat, NEW s \in [1 .. m -> 1 .. m], NEW c \in 2 .. m
    PROVE  SubSeq(s, 2, c) \o <<Head(s)>> \o SubSeq(s, c + 1, m) = HeadAfter(s, m, c)
<1> DEFINE u == SubSeq(s, 2, c)
           v == <<Head(s)>>
           w == SubSeq(s, c + 1, m)
           t == HeadAfter(s, m, c)
<1>1. s \in Seq(Nat) /\ Len(s) = m /\ s # <<>>
    BY OrderIsSequence
<1>2. Head(s) = s[1] /\ s[1] \in Nat /\ c \in Nat /\ c > 1 /\ c <= m
    BY <1>1
<1>3. /\ u \in Seq(Nat) /\ Len(u) = c - 1
      /\ \A i \in 1 .. c - 1 : u[i] = s[i + 1]
  <2>1. \A i \in 2 .. c : s[i] \in Nat
      OBVIOUS
  <2>2. /\ u \in Seq(Nat) /\ Len(u) = IF 2 <= c THEN c - 2 + 1 ELSE 0
        /\ \A i \in 1 .. c - 2 + 1 : u[i] = s[2 + i - 1]
      BY <2>1, SubSeqProperties
  <2>3. c - 2 + 1 = c - 1 /\ 2 <= c /\ \A i \in 1 .. c - 1 : 2 + i - 1 = i + 1
      OBVIOUS
  <2> HIDE DEF u
  <2> QED BY <2>2, <2>3
<1>4. v \in Seq(Nat) /\ Len(v) = 1 /\ v[1] = s[1]
    BY <1>2
<1>5. /\ w \in Seq(Nat) /\ Len(w) = m - c
      /\ \A i \in 1 .. m - c : w[i] = s[c + i]
  <2>1. c + 1 \in Int /\ m \in Int /\ \A i \in c + 1 .. m : s[i] \in Nat
      OBVIOUS
  <2>2. /\ w \in Seq(Nat) /\ Len(w) = IF c + 1 <= m THEN m - (c + 1) + 1 ELSE 0
        /\ \A i \in 1 .. m - (c + 1) + 1 : w[i] = s[(c + 1) + i - 1]
      BY <2>1, SubSeqProperties
  <2>3. /\ m - (c + 1) + 1 = m - c /\ (~(c + 1 <= m) => m - c = 0)
        /\ \A i \in 1 .. m - c : (c + 1) + i - 1 = c + i
      OBVIOUS
  <2> HIDE DEF w
  <2> QED BY <2>2, <2>3
<1> HIDE DEF u, v, w
<1>6. /\ u \o v \in Seq(Nat) /\ Len(u \o v) = c
      /\ \A i \in 1 .. c : (u \o v)[i] = IF i <= c - 1 THEN u[i] ELSE v[i - (c - 1)]
  <2>1. /\ u \o v \in Seq(Nat) /\ Len(u \o v) = Len(u) + Len(v)
        /\ \A i \in 1 .. Len(u) + Len(v) :
              (u \o v)[i] = IF i <= Len(u) THEN u[i] ELSE v[i - Len(u)]
      BY <1>3, <1>4, ConcatProperties
  <2>2. Len(u) = c - 1 /\ Len(u) + Len(v) = c
      BY <1>2, <1>3, <1>4
  <2> QED BY <2>1, <2>2
<1>7. /\ u \o v \o w \in Seq(Nat) /\ Len(u \o v \o w) = m
      /\ \A i \in 1 .. m : (u \o v \o w)[i] = IF i <= c THEN (u \o v)[i] ELSE w[i - c]
  <2> DEFINE x == u \o v
  <2>1. x \in Seq(Nat) /\ Len(x) = c
      BY <1>6
  <2> HIDE DEF x
  <2>2. /\ x \o w \in Seq(Nat) /\ Len(x \o w) = Len(x) + Len(w)
        /\ \A i \in 1 .. Len(x) + Len(w) :
              (x \o w)[i] = IF i <= Len(x) THEN x[i] ELSE w[i - Len(x)]
      BY <1>5, <2>1, ConcatProperties
  <2>3. Len(x) = c /\ Len(x) + Len(w) = m
      BY <1>2, <1>5, <2>1
  <2>4. /\ x \o w \in Seq(Nat) /\ Len(x \o w) = m
        /\ \A i \in 1 .. m : (x \o w)[i] = IF i <= c THEN x[i] ELSE w[i - c]
      BY <2>2, <2>3
  <2> QED BY <2>4 DEF x
<1>8. t = [i \in 1 .. m |-> t[i]]
    BY DEF HeadAfter
<1>9. \A i \in 1 .. m : t[i] = IF i < c THEN s[i + 1] ELSE IF i = c THEN s[1] ELSE s[i]
    BY DEF HeadAfter
<1> HIDE DEF t
<1>10. ASSUME NEW i \in 1 .. m PROVE (u \o v \o w)[i] = t[i]
  <2>1. CASE i < c
    <3>1. i \in 1 .. c - 1 /\ i \in 1 .. c /\ i <= c - 1 /\ i <= c
        BY <2>1
    <3> QED BY <1>3, <1>6, <1>7, <1>9, <2>1, <3>1
  <2>2. CASE i = c
    <3>1. i \in 1 .. c /\ ~(i <= c - 1) /\ i - (c - 1) = 1 /\ i <= c /\ ~(i < c)
        BY <2>2
    <3> QED BY <1>4, <1>6, <1>7, <1>9, <2>2, <3>1
  <2>3. CASE i > c
    <3>1. i - c \in 1 .. m - c /\ c + (i - c) = i /\ ~(i <= c) /\ ~(i < c) /\ i # c
        BY <2>3
    <3>2. (u \o v \o w)[i] = w[i - c] /\ w[i - c] = s[i]
        BY <1>5, <1>7, <3>1
    <3> QED BY <1>9, <3>1, <3>2
  <2>4. i < c \/ i = c \/ i > c
      BY <1>2
  <2> QED BY <2>1, <2>2, <2>3, <2>4
<1>11. m \in Nat \ {0}
    OBVIOUS
<1>12. u \o v \o w = t
    BY <1>7, <1>8, <1>10, <1>11, SameOrder
<1> QED BY <1>12 DEF u, v, w, t

\* The walk shows the order of the list, and the cursor has its place in it.
LEMMA ListShows ==
    PoolTypeOK /\ doing = "nothing" =>
        \A ord : IsList(ord, next, made, head, queue) =>
                     /\ SlotsNow = ord /\ CurrentNow \in 1 .. made
                     /\ \A k \in 1 .. made : ord[k] = cursor <=> k = CurrentNow
<1> SUFFICES ASSUME PoolTypeOK, doing = "nothing", NEW ord,
                    IsList(ord, next, made, head, queue)
             PROVE  /\ SlotsNow = ord /\ CurrentNow \in 1 .. made
                    /\ \A k \in 1 .. made : ord[k] = cursor <=> k = CurrentNow
    OBVIOUS
<1>1. made \in Nat \ {0} /\ cursor \in 1 .. made
    BY PoolAssumption DEF PoolTypeOK, PoolAssumption, Made
<1>2. /\ \A i, j \in 1 .. made : ord[i] = ord[j] => i = j
      /\ \A n \in 1 .. made : \E i \in 1 .. made : ord[i] = n
    BY <1>1, Pointers
<1>3. ord \in [1 .. made -> 1 .. made]
    BY DEF IsList, Ordering
<1>4. \A k \in 1 .. made : Walk[k] = ord[k]
  <2>1. \A k \in 1 .. made + 1 : Walk[k] = IF k <= made THEN ord[k] ELSE NoSlot
      BY WalkIs
  <2> QED BY <1>1, <2>1
<1>5. SlotsNow = [k \in 1 .. made |-> Walk[k]]
    BY DEF SlotsNow, Made
<1>6. CurrentNow = CHOOSE k \in 1 .. made : Walk[k] = cursor
    BY DEF CurrentNow, Made
<1> HIDE DEF Walk
<1>7. SlotsNow = ord
    BY <1>3, <1>4, <1>5
<1>8. PICK c \in 1 .. made : ord[c] = cursor
    BY <1>1, <1>2
<1>9. CurrentNow \in 1 .. made /\ Walk[CurrentNow] = cursor
    BY <1>4, <1>6, <1>8
<1>10. ord[CurrentNow] = cursor
    BY <1>4, <1>9
<1> QED BY <1>2, <1>7, <1>9, <1>10

\* A new pool is a new list.
LEMMA ListStarts == PoolInit => AsList!Init
<1> SUFFICES ASSUME PoolInit PROVE AsList!Init
    OBVIOUS
<1>1. PoolTypeOK /\ InUse /\ made = First /\ cursor = 1 /\ sorted /\ doing = "nothing"
    BY PoolStarts DEF PoolInv, PoolInit
<1>2. PICK ord : /\ IsList(ord, next, made, head, queue)
                 /\ \A i \in 1 .. made : ord[i] = i
    BY <1>1 DEF InUse
<1>3. /\ SlotsNow = ord /\ \A k \in 1 .. made : ord[k] = cursor <=> k = CurrentNow
    BY <1>1, <1>2, ListShows
<1>4. First \in Nat \ {0} /\ 1 \in 1 .. made
    BY <1>1, PoolAssumption DEF PoolAssumption
<1>5. ord = [k \in 1 .. First |-> 0 + k]
  <2>1. ord = [k \in 1 .. made |-> ord[k]]
      BY <1>2 DEF IsList, Ordering
  <2> QED BY <1>1, <1>2, <1>4, <2>1
<1>6. CurrentNow = 1
    BY <1>1, <1>2, <1>3, <1>4
<1> QED BY <1>3, <1>5, <1>6 DEF AsList!Init, AsList!New

\* What a step does to the order is what it does to the list.
LEMMA ListSteps ==
    ASSUME PoolInv, PoolInv', PoolNext
    PROVE  [AsList!Next]_(AsList!vars)
<1>1. (PoolTypeOK /\ doing = "nothing" =>
         \A ord : IsList(ord, next, made, head, queue) =>
                     /\ SlotsNow = ord /\ CurrentNow \in 1 .. made
                     /\ \A k \in 1 .. made : ord[k] = cursor <=> k = CurrentNow)'
    BY ListShows, PTL
<1>2. PoolTypeOK /\ PoolTypeOK'
    BY DEF PoolInv
<1>3. CASE doing # "nothing"
  <2>1. doing' # "nothing"
      BY <1>3 DEF PoolNext, grow_pool, pool_push, pool_rewind, pool_head_to_queue,
                  pool_head_to_current, Using, Destroy, Ordered, OrderedEnd,
                  WithCleaner, WithCleanerEnd, FreeBlocks, FreeBlocksEnd
  <2>2. SlotsNow = <<>> /\ CurrentNow = 0 /\ (SlotsNow = <<>>)' /\ (CurrentNow = 0)'
      BY <1>3, <2>1 DEF SlotsNow, CurrentNow
  <2> QED BY <2>2 DEF AsList!vars
<1>4. CASE doing = "nothing"
  <2>1. PICK ord : IsList(ord, next, made, head, queue)
      BY <1>4 DEF PoolInv, InUse
  <2> DEFINE c == CurrentNow
  <2>2. /\ SlotsNow = ord /\ c \in 1 .. made
        /\ \A k \in 1 .. made : ord[k] = cursor <=> k = c
      BY <1>2, <1>4, <2>1, ListShows
  <2> HIDE DEF c
  <2>3. ord \in [1 .. made -> 1 .. made] /\ made \in Nat \ {0} /\ Growth \in Nat \ {0}
    <3>1. made \in Nat \ {0} /\ Growth \in Nat \ {0}
        BY <1>2, PoolAssumption DEF PoolTypeOK, PoolAssumption
    <3>2. ord \in [1 .. made -> 1 .. made]
        BY <2>1 DEF IsList, Ordering
    <3> QED BY <3>1, <3>2
  <2>4. ord \in Seq(Nat) /\ Len(ord) = made /\ ord # <<>>
      BY <2>3, OrderIsSequence
  <2>5. /\ ord[1] = head /\ ord[made] = queue /\ next[queue] = NoSlot
        /\ \A i \in 1 .. made : i < made => next[ord[i]] = ord[i + 1]
        /\ \A i \in 1 .. made : ord[i] \in 1 .. made
        /\ \A i, j \in 1 .. made : ord[i] = ord[j] => i = j
    <3>1. made \in Nat \ {0}
        BY <2>3
    <3> QED BY <2>1, <3>1, Pointers
  <2>6. AsList!There
      BY <2>2, <2>4 DEF AsList!There
  <2>7. ord[c] = cursor
      BY <2>2
  <2>8. ASSUME NEW new, NEW d, doing' = "nothing",
               IsList(new, next', made', head', queue'),
               d \in 1 .. made', new[d] = cursor'
        PROVE  SlotsNow' = new /\ CurrentNow' = d
    <3>1. /\ SlotsNow' = new
          /\ \A k \in 1 .. made' : new[k] = cursor' <=> k = CurrentNow'
        BY <1>1, <1>2, <2>8
    <3> QED BY <2>8, <3>1
  <2>9. Grow => AsList!Grown = Longer(ord, made, Growth)
      BY <2>2, <2>3, <2>4, AsLonger DEF AsList!Grown
  <2>10. CASE grow_pool
    <3> DEFINE new == Longer(ord, made, Growth)
    <3>1. Grow /\ doing' = "nothing" /\ UNCHANGED <<head, cursor>>
        BY <2>10 DEF grow_pool, Using, destroyVars
    <3>2. IsList(new, next', made', head', queue') /\ made' = made + Growth
        BY <1>2, <2>1, <3>1, GrowList
    <3>3. c \in 1 .. made' /\ new[c] = cursor'
        BY <2>2, <2>3, <2>7, <3>1, <3>2 DEF Longer
    <3> HIDE DEF new
    <3>4. SlotsNow' = new /\ CurrentNow' = c
        BY <2>8, <3>1, <3>2, <3>3
    <3>5. AsList!Grow
        BY <2>6, <2>9, <3>1, <3>4 DEF AsList!Grow, new, c
    <3> QED BY <3>5 DEF AsList!Next
  <2>11. CASE pool_push
    <3>1. c = made <=> next[cursor] = NoSlot
      <4>1. CASE c = made
          BY <2>5, <2>7, <4>1
      <4>2. CASE c # made
        <5>1. c < made /\ c + 1 \in 1 .. made
            BY <2>2, <2>3, <4>2
        <5> QED BY <2>2, <2>5, <2>7, <4>2, <5>1 DEF NoSlot
      <4> QED BY <4>1, <4>2
    <3>2. doing' = "nothing" /\ cursor' = next'[cursor] /\ head' = head
        BY <1>4, <2>11 DEF pool_push, Using, destroyVars
    <3>3. CASE c = made
      <4> DEFINE new == Longer(ord, made, Growth)
      <4>1. Grow
          BY <2>11, <3>1, <3>3 DEF pool_push
      <4>2. /\ IsList(new, next', made', head', queue') /\ made' = made + Growth
            /\ next'[queue] = made + 1
          BY <1>2, <2>1, <3>2, <4>1, GrowList
      <4>3. cursor' = made + 1
          BY <2>5, <2>7, <3>2, <3>3, <4>2
      <4>4. c + 1 \in 1 .. made' /\ new[c + 1] = cursor'
          BY <2>3, <3>3, <4>2, <4>3 DEF Longer
      <4> HIDE DEF new
      <4>5. SlotsNow' = new /\ CurrentNow' = c + 1
          BY <2>8, <3>2, <4>2, <4>4
      <4>6. AsList!Push
          BY <2>2, <2>4, <2>6, <2>9, <3>3, <4>1, <4>5 DEF AsList!Push, new, c
      <4> QED BY <4>6 DEF AsList!Next
    <3>4. CASE c # made
      <4>1. UNCHANGED <<made, next, queue>>
          BY <2>11, <3>1, <3>4 DEF pool_push
      <4>2. c < made /\ c + 1 \in 1 .. made'
          BY <2>2, <2>3, <3>4, <4>1
      <4>3. ord[c + 1] = cursor'
          BY <2>2, <2>5, <2>7, <3>2, <4>1, <4>2
      <4>4. IsList(ord, next', made', head', queue')
          BY <2>1, <3>2, <4>1
      <4>5. SlotsNow' = ord /\ CurrentNow' = c + 1
          BY <2>8, <3>2, <4>2, <4>3, <4>4
      <4>6. AsList!Push
          BY <2>2, <2>4, <2>6, <3>4, <4>5 DEF AsList!Push, c
      <4> QED BY <4>6 DEF AsList!Next
    <3> QED BY <3>3, <3>4
  <2>12. CASE pool_rewind
    <3>1. /\ doing' = "nothing" /\ cursor' = head
          /\ UNCHANGED <<made, next, head, queue>>
        BY <1>4, <2>12 DEF pool_rewind, Using, destroyVars
    <3>2. IsList(ord, next', made', head', queue') /\ 1 \in 1 .. made' /\ ord[1] = cursor'
        BY <2>1, <2>3, <2>5, <3>1
    <3>3. SlotsNow' = ord /\ CurrentNow' = 1
        BY <2>8, <3>1, <3>2
    <3>4. AsList!Rewind
        BY <2>2, <2>6, <3>3 DEF AsList!Rewind
    <3> QED BY <3>4 DEF AsList!Next
  <2>13. CASE pool_head_to_queue
    <3> DEFINE new == HeadLast(ord, made)
               d == IF c = 1 THEN made ELSE c - 1
    <3>1. doing' = "nothing" /\ head # queue /\ made' = made /\ cursor' = cursor
        BY <1>4, <2>13 DEF pool_head_to_queue, Using, destroyVars
    <3>2. IsList(new, next', made', head', queue')
        BY <1>2, <2>1, <2>13, <3>1, HeadToQueue
    <3>3. made > 1
        BY <2>3, <2>5, <3>1
    <3>4. d \in 1 .. made' /\ new[d] = cursor'
      <4>1. d \in 1 .. made /\ (c # 1 => d < made /\ d + 1 = c)
          BY <2>2, <2>3
      <4>2. new[d] = IF d < made THEN ord[d + 1] ELSE ord[1]
          BY <4>1 DEF HeadLast
      <4> QED BY <2>3, <2>7, <3>1, <4>1, <4>2
    <3>5. new = Tail(ord) \o <<Head(ord)>>
        BY <2>3, <3>3, AsHeadLast
    <3> HIDE DEF new
    <3>6. SlotsNow' = new /\ CurrentNow' = d
        BY <2>8, <3>1, <3>2, <3>4
    <3>7. AsList!HeadToQueue
        BY <2>2, <2>4, <3>3, <3>5, <3>6 DEF AsList!HeadToQueue, c
    <3> QED BY <3>7 DEF AsList!Next
  <2>14. CASE pool_head_to_current
    <3>1. doing' = "nothing" /\ cursor' = head /\ made' = made
        BY <1>4, <2>14 DEF pool_head_to_current, Using, destroyVars
    <3>2. PICK k \in 2 .. made :
             ord[k] = cursor /\ IsList(HeadAfter(ord, made, k), next', made, head', queue')
        BY <1>2, <2>1, <2>14, HeadToCurrent
    <3>3. c = k /\ c \in 2 .. made
        BY <2>2, <2>3, <3>2
    <3> DEFINE new == HeadAfter(ord, made, c)
    <3>4. IsList(new, next', made', head', queue')
        BY <3>1, <3>2, <3>3
    <3>5. c \in 1 .. made' /\ new[c] = cursor'
        BY <2>2, <2>5, <3>1, <3>3 DEF HeadAfter
    <3>6. new = SubSeq(ord, 2, c) \o <<Head(ord)>> \o SubSeq(ord, c + 1, made)
        BY <2>3, <3>3, AsHeadAfter
    <3> HIDE DEF new
    <3>7. SlotsNow' = new /\ CurrentNow' = c
        BY <2>8, <3>1, <3>4, <3>5
    <3>8. AsList!HeadToCurrent
        BY <2>2, <2>3, <2>4, <3>3, <3>6, <3>7 DEF AsList!HeadToCurrent, c
    <3> QED BY <3>8 DEF AsList!Next
  <2>15. CASE Destroy("ordered") \/ Destroy("cleaner")
    <3>1. doing' # "nothing"
        BY <2>15 DEF Destroy
    <3>2. (SlotsNow = <<>>)' /\ (CurrentNow = 0)'
        BY <3>1 DEF SlotsNow, CurrentNow
    <3> QED BY <2>6, <3>2 DEF AsList!Next, AsList!Destroy
  <2>16. CASE Ordered \/ OrderedEnd \/ WithCleaner \/ WithCleanerEnd
              \/ FreeBlocks \/ FreeBlocksEnd
      BY <1>4, <2>16 DEF Ordered, OrderedEnd, WithCleaner, WithCleanerEnd,
                         FreeBlocks, FreeBlocksEnd
  <2> QED BY <2>10, <2>11, <2>12, <2>13, <2>14, <2>15, <2>16 DEF PoolNext
<1> QED BY <1>3, <1>4

\* The pointers are a list of slots in which the current one has a place, for
\* any numbers of slots in the first and in the later blocks: every operation
\* does to the order and to that place what SlotList says, so that the sequences
\* of the send path's model stand for the lists of the code (ape_grow_pool,
\* ape_pool_push, ape_pool_rewind, ape_pool_head_to_queue,
\* ape_pool_head_to_current).
THEOREM SlotListCorrect == PoolSpec => IsSlotList
<1>1. PoolInv /\ PoolInv' /\ [PoolNext]_poolVars => [AsList!Next]_(AsList!vars)
  <2>1. ASSUME UNCHANGED poolVars PROVE UNCHANGED AsList!vars
    <3>1. /\ made' = made /\ next' = next /\ head' = head /\ cursor' = cursor
          /\ doing' = doing
        BY <2>1 DEF poolVars, listVars, destroyVars
    <3>2. Walk' = Walk
        BY <3>1, Zenon DEF Walk
    <3>3. SlotsNow' = SlotsNow
        BY <3>1, <3>2 DEF SlotsNow, Made
    <3>4. CurrentNow' = CurrentNow
        BY <3>1, <3>2 DEF CurrentNow, Made
    <3> QED BY <3>3, <3>4 DEF AsList!vars
  <2> QED BY <2>1, ListSteps
<1> QED
    BY <1>1, ListStarts, PoolStarts, PoolInvStep, PTL
    DEF PoolSpec, IsSlotList, AsList!Spec

=============================================================================
