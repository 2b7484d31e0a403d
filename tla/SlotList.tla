------------------------------ MODULE SlotList ------------------------------
(***************************************************************************)
(* What a list of ape_pool.h is to those who use it: a sequence of slots   *)
(* and the place of the current one.  SendPath keeps its packets and jobs  *)
(* in such a sequence.  A slot is the number in which it was made.         *)
(***************************************************************************)
EXTENDS Integers, Sequences

CONSTANTS
    First,    \* slots of a new list
    Growth    \* slots it grows by

VARIABLES
    slots,    \* the list, or <<>> when it is destroyed
    current   \* a place in it, or 0

vars == <<slots, current>>

\* The n slots that are made after m others.
New(m, n) == [k \in 1 .. n |-> m + k]

Init == slots = New(0, First) /\ current = 1

There == slots # <<>>

Grown == slots \o New(Len(slots), Growth)

Grow == There /\ slots' = Grown /\ UNCHANGED current

\* The next slot is the current one; behind the last one the list grows.
Push ==
    /\ There
    /\ slots' = IF current = Len(slots) THEN Grown ELSE slots
    /\ current' = current + 1

Rewind == There /\ current' = 1 /\ UNCHANGED slots

\* The first slot becomes the last one; the current one stays the same slot.
HeadToQueue ==
    /\ Len(slots) > 1
    /\ slots' = Tail(slots) \o <<Head(slots)>>
    /\ current' = IF current = 1 THEN Len(slots) ELSE current - 1

\* The first slot goes behind the current one, and is the current one.
HeadToCurrent ==
    /\ current > 1
    /\ slots' = SubSeq(slots, 2, current) \o <<Head(slots)>>
                    \o SubSeq(slots, current + 1, Len(slots))
    /\ UNCHANGED current

Destroy == There /\ slots' = <<>> /\ current' = 0

Next == Grow \/ Push \/ Rewind \/ HeadToQueue \/ HeadToCurrent \/ Destroy

Spec == Init /\ [][Next]_vars
=============================================================================
