----------------------------- MODULE HashTable ------------------------------
(***************************************************************************)
(* ape_hash.c.  An item is on two lists: the chain of its bucket, which    *)
(* look-ups follow, and the list of all items, which the select() backend  *)
(* walks.  A chain is a sequence of items; the list is its pointers.       *)
(*                                                                         *)
(* A table of strings compares keys without their case (strcasecmp) but    *)
(* hashes them with it; a table of numbers does neither.  Keys that are    *)
(* the Same are the same to the comparison.                                *)
(***************************************************************************)
EXTENDS Integers, FiniteSets, SequencesExt

CONSTANTS
    Keys,
    Same(_, _),  \* strcasecmp(k, l) == 0; k == l in a table of numbers
    Buckets,     \* 0 .. size - 1
    Addresses,   \* what malloc returns, only compared
    Careful,     \* callers replace nothing in a table with a cleaner
    MaxStores,   \* bound: values stored; they are numbered
    NULL

ASSUME HashAssumption ==
    /\ NULL \notin Addresses /\ MaxStores \in Nat
    /\ \A k \in Keys : Same(k, k)
    /\ \A k, l \in Keys : Same(k, l) => Same(l, k)
    /\ \A k, l, m \in Keys : Same(k, l) /\ Same(l, m) => Same(k, m)

VARIABLES
    hash,     \* the bucket of each key, by the seed of the process
    cleaner,  \* whether the table has one
    live,     \* the table exists
    table,    \* the chains
    first, lnext, lprev,
    key, content,
    dict,     \* history: what callers stored and did not erase
    stored,   \* history: how many values were handed over
    cleaned   \* history: how often the cleaner was called with each

hashVars == <<hash, cleaner, live, table, first, lnext, lprev, key, content,
              dict, stored, cleaned>>

Values  == 1 .. MaxStores
Nowhere == [n \in Addresses |-> NULL]

\* hashtbl_init_with_size, hashtbl_set_cleaner
HashInit ==
    /\ hash \in [Keys -> Buckets] /\ cleaner \in BOOLEAN /\ live = TRUE
    /\ table = [b \in Buckets |-> <<>>] /\ first = NULL
    /\ lnext = Nowhere /\ lprev = Nowhere
    /\ key = Nowhere /\ content = Nowhere
    /\ dict = <<>> /\ stored = 0 /\ cleaned = [v \in Values |-> 0]

-----------------------------------------------------------------------------
(* Looking up.                                                             *)

Chained   == UNION {ToSet(table[b]) : b \in Buckets}
Chain(k)  == table[hash[k]]

\* The loops stop at the first item of the chain whose key is the same.
Place(k) == SelectInSeq(Chain(k), LAMBDA n : Same(key[n], k))
Has(k)   == Place(k) # 0
Found(k) == Chain(k)[Place(k)]

\* hashtbl_seek, hashtbl_seek64, hashtbl_seek_val32
Seek(k) == IF Has(k) THEN content[Found(k)] ELSE NULL

\* The keys that can not be told from k in this process.
Entry(k) == {l \in Keys : Same(k, l) /\ hash[k] = hash[l]}

-----------------------------------------------------------------------------
(* Operations.                                                             *)

Store(k, v) ==
    /\ stored' = v
    /\ dict' = [e \in DOMAIN dict \union {Entry(k)} |->
                   IF e = Entry(k) THEN v ELSE dict[e]]

Forget(k) == dict' = [e \in DOMAIN dict \ {Entry(k)} |-> dict[e]]

Clean(values) ==
    cleaned' = [v \in Values |->
                   cleaned[v] + IF cleaner /\ v \in values THEN 1 ELSE 0]

\* hashtbl_append and _append64 of a key that is there: its content is
\* replaced, and the cleaner called with the item just made, whose content is
\* the new value.  (_append_val32 does not call it.)
Replace(k, v) ==
    /\ live /\ v = stored + 1
    /\ Has(k) /\ (Careful => ~cleaner)
    /\ content' = [content EXCEPT ![Found(k)] = v]
    /\ Store(k, v) /\ Clean({v})
    /\ UNCHANGED <<hash, cleaner, live, table, first, lnext, lprev, key>>

\* Mutant of InFront: the chain is lost.
Alone(n, k)   == <<n>>
InFront(n, k) == <<n>> \o Chain(k)

\* The three appends of a key that is not there: the item goes in front of its
\* chain and of the list.
Insert(k, v) ==
    /\ live /\ v = stored + 1
    /\ ~Has(k) /\ Chained # Addresses
    /\ LET n == CHOOSE m \in Addresses : m \notin Chained IN
         /\ key'     = [key EXCEPT ![n] = k]
         /\ content' = [content EXCEPT ![n] = v]
         /\ table'   = [table EXCEPT ![hash[k]] = InFront(n, k)]
         /\ lnext'   = [lnext EXCEPT ![n] = first]
         /\ lprev'   = [m \in Addresses |-> CASE m = n     -> NULL
                                          [] m = first -> n
                                          [] OTHER     -> lprev[m]]
         /\ first'   = n
    /\ Store(k, v)
    /\ UNCHANGED <<hash, cleaner, live, cleaned>>

\* Mutant of Unlinked: the item behind keeps its lprev.
UnlinkedOneWay(n) ==
    [first |-> IF lprev[n] = NULL THEN lnext[n] ELSE first,
     lnext |-> [m \in Addresses |-> IF m = lprev[n] THEN lnext[n] ELSE lnext[m]],
     lprev |-> lprev]

\* The list without n.
Unlinked(n) ==
    [first |-> IF lprev[n] = NULL THEN lnext[n] ELSE first,
     lnext |-> [m \in Addresses |-> IF m = lprev[n] THEN lnext[n] ELSE lnext[m]],
     lprev |-> [m \in Addresses |-> IF m = lnext[n] THEN lprev[n] ELSE lprev[m]]]

\* hashtbl_erase, hashtbl_erase64
Erase(k) ==
    /\ live /\ Has(k)
    /\ LET list == Unlinked(Found(k)) IN
         /\ first' = list.first /\ lnext' = list.lnext /\ lprev' = list.lprev
    /\ table' = [table EXCEPT ![hash[k]] = RemoveAt(@, Place(k))]
    /\ Clean({content[Found(k)]})
    /\ key'     = [key EXCEPT ![Found(k)] = NULL]
    /\ content' = [content EXCEPT ![Found(k)] = NULL]
    /\ Forget(k)
    /\ UNCHANGED <<hash, cleaner, live, stored>>

\* Mutant of Contents: of each chain only the head is released.
Heads    == {content[table[b][1]] : b \in {c \in Buckets : table[c] # <<>>}}
Contents == {content[n] : n \in Chained}

\* hashtbl_free
hashtbl_free ==
    /\ live /\ live' = FALSE
    /\ Clean(Contents)
    /\ table' = [b \in Buckets |-> <<>>] /\ first' = NULL
    /\ lnext' = Nowhere /\ lprev' = Nowhere
    /\ key' = Nowhere /\ content' = Nowhere
    /\ dict' = <<>>
    /\ UNCHANGED <<hash, cleaner, stored>>

HashNext ==
    \/ \E k \in Keys, v \in Values : Replace(k, v) \/ Insert(k, v)
    \/ \E k \in Keys : Erase(k)
    \/ hashtbl_free

-----------------------------------------------------------------------------
(* Properties.                                                             *)

\* The items of the list: what every set that holds its head and the
\* successor of each of its members contains.
Listed ==
    {n \in Addresses : \A S \in SUBSET Addresses :
        (/\ first = NULL \/ first \in S
         /\ \A m \in S : lnext[m] = NULL \/ lnext[m] \in S) => n \in S}

HashTypeOK ==
    /\ table \in [Buckets -> Seq(Addresses)] /\ first \in Addresses \union {NULL}
    /\ lnext \in [Addresses -> Addresses \union {NULL}]
    /\ lprev \in [Addresses -> Addresses \union {NULL}]
    /\ key \in [Addresses -> Keys \union {NULL}]
    /\ content \in [Addresses -> Values \union {NULL}]

\* The chains and the list hold the same items, each once; the list's pointers
\* are each other's inverse, so that erasing unlinks from both (hashtbl_erase
\* looks an item up in its chain and takes it off the list by lprev, lnext).
ListsAgree ==
    /\ Listed = Chained
    /\ \A b, c \in Buckets : \A i \in DOMAIN table[b], j \in DOMAIN table[c] :
          table[b][i] = table[c][j] => b = c /\ i = j
    /\ first # NULL => lprev[first] = NULL
    /\ \A n \in Listed : lnext[n] # NULL => lprev[lnext[n]] = n

\* Whatever keys collide, a look-up returns what was stored last under the
\* key, or under one that can not be told from it, unless that was erased.
IsDictionary ==
    \A k \in Keys :
        Seek(k) = IF Entry(k) \in DOMAIN dict THEN dict[Entry(k)] ELSE NULL

\* The two lists of the items hold the same, and look-ups in them answer as a
\* dictionary, whatever keys collide and whatever is appended, replaced and
\* erased (hashtbl_append, hashtbl_erase, hashtbl_seek).
HashSound == ListsAgree /\ IsDictionary

\* A table with a cleaner releases each value once, when it stops to hold it:
\* never one that a look-up still returns, and none is left behind.
ReleasedWhenGone ==
    \A v \in 1 .. stored : cleaner =>
        cleaned[v] = IF \E e \in DOMAIN dict : dict[e] = v THEN 0 ELSE 1
=============================================================================
