----------------------------- MODULE KeyArray -------------------------------
(***************************************************************************)
(* ape_array.c over ape_pool.c: keys and values in the slots of a pool     *)
(* that grows.  The pool is the sequence of its slots, head first (cells); *)
(* `place' is the index of its current slot, the one the next key goes to, *)
(* 0 if none.                                                              *)
(* Values are not NULL (the look-ups skip those).                          *)
(* An addition is its number: it stands for the key's buffer and for the   *)
(* value's, and texts[i] is what the key's buffer says.                    *)
(*                                                                         *)
(* ape_array_delete and the additions compare keys exactly, the look-ups   *)
(* without their case (strncasecmp).                                       *)
(***************************************************************************)
EXTENDS Integers, FiniteSets, SequencesExt

CONSTANTS
    Names,
    SameName(_, _),  \* the keys are as long, and strncasecmp(k, l) == 0
    Slots,       \* of a new array
    MoreSlots,   \* 4: slots it grows by
    MaxAdds      \* bound: additions

ASSUME ArrayAssumption ==
    /\ Slots \in Nat \ {0} /\ MoreSlots \in Nat \ {0} /\ MaxAdds \in Nat
    /\ \A k, l \in Names : SameName(k, l) => SameName(l, k)

VARIABLES
    cells, place,
    exists,  \* the array was not destroyed
    texts,
    owned,   \* history: the additions whose value is a buffer
    held,    \* history: the addition of each key that was not deleted
    keysFreed, valuesFreed  \* history: how often, of each addition

arrayVars ==
    <<cells, place, exists, texts, owned, held, keysFreed, valuesFreed>>

Adds  == 1 .. MaxAdds
Empty == [used |-> FALSE, val_buf |-> FALSE, item |-> 0]

\* ape_new_pool
NewCells(n) == [i \in 1 .. n |-> Empty]

\* ape_array_new
ArrayInit ==
    /\ cells = NewCells(Slots) /\ place = 1
    /\ exists = TRUE
    /\ texts = <<>> /\ owned = {} /\ held = <<>>
    /\ keysFreed = [i \in Adds |-> 0] /\ valuesFreed = [i \in Adds |-> 0]

-----------------------------------------------------------------------------
(* Looking up.  APE_A_FOREACH: the used slots, from the head.              *)

KeyText(slot) == texts[slot.item]

\* ape_array_lookup, ape_array_lookup_data: the slot, 0 if none.
ape_array_lookup(k) ==
    SelectInSeq(cells, LAMBDA s : s.used /\ SameName(KeyText(s), k))

\* Mutant of ape_array_lookup_item: keys are compared without their case.
LookupCaseless(k) == ape_array_lookup(k)

\* ape_array_lookup_item
ape_array_lookup_item(k) ==
    SelectInSeq(cells, LAMBDA s : s.used /\ KeyText(s) = k)

-----------------------------------------------------------------------------
(* Operations.                                                             *)

Freed(counts, items) ==
    [i \in Adds |-> counts[i] + IF i \in items THEN 1 ELSE 0]

\* The items whose buffers go with the slots of the set.
Keyed(is)  == {cells[i].item : i \in {j \in is : cells[j].used}}
Valued(is) == {cells[i].item : i \in {j \in is : /\ cells[j].used
                                                 /\ cells[j].val_buf}}

\* The slot of k, if any, as a set.
At(k) == {ape_array_lookup_item(k)} \ {0}

\* Mutant of PlaceAfter: deleting leaves `place' where it is.
PlaceStays(k) == place
PlaceAfter(k) == IF At(k) = {} THEN place ELSE ape_array_lookup_item(k)

\* What ape_array_delete leaves: an empty slot, which is the current one.
Deleted(k) ==
    [cells |-> [i \in DOMAIN cells |->
                     IF i \in At(k)
                     THEN [cells[i] EXCEPT !.used = FALSE, !.val_buf = FALSE]
                     ELSE cells[i]],
     place |-> PlaceAfter(k)]

\* The slot behind i if it is free, else the first that is.
NextFree(ss, i) ==
    IF i < Len(ss) /\ ~ss[i + 1].used THEN i + 1
    ELSE SelectInSeq(ss, LAMBDA s : ~s.used)

\* Mutant of Release: the value's buffer is kept.
ReleaseKeys(is) ==
    /\ keysFreed' = Freed(keysFreed, Keyed(is))
    /\ UNCHANGED valuesFreed

\* The buffers ape_array_delete frees; and ape_array_destroy, of all slots.
Release(is) ==
    /\ keysFreed' = Freed(keysFreed, Keyed(is))
    /\ valuesFreed' = Freed(valuesFreed, Valued(is))

\* ape_array_add_s, with the value of ape_array_add_b (buf) or _ptr.
Add(k, buf) ==
    /\ exists /\ Len(texts) < MaxAdds
    /\ Release(At(k))
    /\ LET d    == Deleted(k)
           full == d.place = 0 \/ d.cells[d.place].used
           ss   == IF full THEN d.cells \o NewCells(MoreSlots) ELSE d.cells
           i    == IF full THEN Len(d.cells) + 1 ELSE d.place
           item == Len(texts) + 1
       IN  /\ cells' = [ss EXCEPT ![i].used = TRUE, ![i].item = item,
                                  ![i].val_buf = @ \/ buf]
           /\ place' = NextFree(cells', i)
           /\ owned' = IF buf THEN owned \union {item} ELSE owned
           /\ held' = [l \in DOMAIN held \union {k} |->
                          IF l = k THEN item ELSE held[l]]
    /\ texts' = Append(texts, k)
    /\ UNCHANGED exists

ape_array_delete(k) ==
    /\ exists /\ At(k) # {}
    /\ Release(At(k))
    /\ cells' = Deleted(k).cells /\ place' = Deleted(k).place
    /\ held' = [l \in DOMAIN held \ {k} |-> held[l]]
    /\ UNCHANGED <<exists, texts, owned>>

ape_array_destroy ==
    /\ exists /\ exists' = FALSE
    /\ Release(DOMAIN cells)
    /\ cells' = <<>> /\ place' = 0 /\ held' = <<>>
    /\ UNCHANGED <<texts, owned>>

ArrayNext ==
    \/ \E k \in Names, buf \in BOOLEAN : Add(k, buf)
    \/ \E k \in Names : ape_array_delete(k)
    \/ ape_array_destroy

ArraySpec == ArrayInit /\ [][ArrayNext]_arrayVars

-----------------------------------------------------------------------------
(* Properties.                                                             *)

ArrayTypeOK ==
    /\ cells \in Seq([used : BOOLEAN, val_buf : BOOLEAN, item : Adds \union {0}])
    /\ place \in 0 .. Len(cells)
    /\ texts \in Seq(Names) /\ Len(texts) <= MaxAdds

\* The current slot is free, and there is one as long as any slot is: nothing
\* is written over, and the pool grows only when it is full (ape_array_add_s
\* searches the list only when the slot behind the new one is in use).
PlaceIsFree ==
    IF place = 0 THEN \A i \in DOMAIN cells : cells[i].used
                   ELSE ~cells[place].used

\* However slots are reused, an exact look-up finds the last value added under
\* the key, and one without case finds a value under some key that is the
\* same but for case, if there is any.
FindsWhatIsHeld ==
    \A k \in Names :
        LET exact == ape_array_lookup_item(k)
            any   == ape_array_lookup(k) IN
        /\ IF k \in DOMAIN held
           THEN exact # 0 /\ cells[exact].item = held[k] ELSE exact = 0
        /\ IF \E l \in DOMAIN held : SameName(k, l)
           THEN \E l \in DOMAIN held :
                   any # 0 /\ SameName(k, l) /\ cells[any].item = held[l]
           ELSE any = 0

\* The buffers of an addition, its key and the value if it is one, are freed
\* once, when the array stops to hold it: replaced, deleted or destroyed.
FreedWhenGone ==
    \A i \in DOMAIN texts :
        LET gone == IF \E k \in DOMAIN held : held[k] = i THEN 0 ELSE 1 IN
        /\ keysFreed[i] = gone
        /\ valuesFreed[i] = IF i \in owned THEN gone ELSE 0

\* A look-up finds the last value added under the key, the slot the next key
\* goes to is free, and the buffers of a key and of its value are freed once,
\* when the array stops to hold it (ape_array_lookup, ape_array_add_s,
\* ape_array_delete, ape_array_destroy).
ArraySound == FindsWhatIsHeld /\ PlaceIsFree /\ FreedWhenGone
=============================================================================
