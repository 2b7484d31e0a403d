------------------------------- MODULE Pools --------------------------------
(***************************************************************************)
(* ape_pool.c: a list of slots that live in blocks of memory, the ways it  *)
(* is reordered and grown, and its two destructions, which walk the list   *)
(* they free.  SendPath and KeyArray have lists of this kind as sequences; *)
(* here they are the pointers.                                             *)
(*                                                                         *)
(* Slots are numbered as they are made.  A block is known by its first     *)
(* slot, the one with APE_POOL_ALLOC.  prev is written and never read.     *)
(***************************************************************************)
EXTENDS Integers

CONSTANTS
    First,    \* slots of a new list
    Growth,   \* slots it grows by (2, 4 or 8)
    MaxPool   \* bound: slots

ASSUME PoolAssumption ==
    First \in Nat \ {0} /\ Growth \in Nat \ {0} /\ MaxPool \in Nat /\ First <= MaxPool

VARIABLES
    made,                 \* slots made so far
    next,                 \* of a slot
    head, cursor, queue,  \* ape_pool_list_t; cursor is its `current'
    sorted,               \* history: the slots are still in the order made
    doing,                \* nothing, or how and where the list is destroyed
    pool, tPool, fPool,   \* the variables of the destruction
    visits,               \* history: how often the cleaner got a slot
    freed,                \* history: how often a block was freed
    misused               \* history: a slot was used in a freed block

listVars    == <<made, next, head, cursor, queue, sorted>>
destroyVars == <<doing, pool, tPool, fPool, visits, freed, misused>>
poolVars    == <<listVars, destroyVars>>

NoSlot  == 0
SlotNos == 1 .. MaxPool
Made    == 1 .. made

\* The first slot of n's block.
Block(n) == IF n <= First THEN 1 ELSE n - ((n - First - 1) % Growth)

Alloc(n) == Block(n) = n

\* ape_new_pool: the slots from .. to follow each other.
Linked(nx, from, to) ==
    [n \in SlotNos |-> IF n \in from .. to - 1 THEN n + 1
                       ELSE IF n = to THEN NoSlot ELSE nx[n]]

\* ape_init_pool_list, ape_new_pool_list
PoolInit ==
    /\ made = First
    /\ next = Linked([n \in SlotNos |-> NoSlot], 1, First)
    /\ head = 1 /\ cursor = 1 /\ queue = First
    /\ sorted = TRUE
    /\ doing = "nothing" /\ pool = NoSlot /\ tPool = NoSlot /\ fPool = NoSlot
    /\ visits = [n \in SlotNos |-> 0] /\ freed = [n \in SlotNos |-> 0]
    /\ misused = FALSE

-----------------------------------------------------------------------------
(* The list in use.                                                        *)

Using == doing = "nothing" /\ UNCHANGED destroyVars

\* ape_grow_pool
GrownList ==
    [next  |-> [Linked(next, made + 1, made + Growth) EXCEPT ![queue] = made + 1],
     queue |-> made + Growth]

Grow ==
    /\ made + Growth <= MaxPool
    /\ made' = made + Growth
    /\ next' = GrownList.next /\ queue' = GrownList.queue

grow_pool ==
    /\ Using /\ Grow
    /\ UNCHANGED <<head, cursor, sorted>>

pool_push ==
    /\ Using
    /\ IF next[cursor] = NoSlot THEN Grow ELSE UNCHANGED <<made, next, queue>>
    /\ cursor' = next'[cursor]
    /\ UNCHANGED <<head, sorted>>

pool_rewind ==
    /\ Using
    /\ cursor' = head
    /\ UNCHANGED <<made, next, head, queue, sorted>>

\* Of a list of one slot it would make an empty list: every caller has more.
pool_head_to_queue ==
    /\ Using /\ head # queue
    /\ head' = next[head]
    /\ next' = [next EXCEPT ![queue] = head, ![head] = NoSlot]
    /\ queue' = head
    /\ sorted' = FALSE
    /\ UNCHANGED <<made, cursor>>

\* Mutant of pool_head_to_current: queue stays where it is.
ToCurrentKeepsQueue ==
    /\ Using /\ head # cursor
    /\ head' = next[head]
    /\ next' = [next EXCEPT ![cursor] = head, ![head] = next[cursor]]
    /\ cursor' = head
    /\ sorted' = FALSE
    /\ UNCHANGED <<made, queue>>

\* Another: the current slot stays the current one.
ToCurrentStays ==
    /\ Using /\ head # cursor
    /\ head' = next[head]
    /\ next' = [next EXCEPT ![cursor] = head, ![head] = next[cursor]]
    /\ queue' = IF next[cursor] = NoSlot THEN head ELSE queue
    /\ sorted' = FALSE
    /\ UNCHANGED <<made, cursor>>

pool_head_to_current ==
    /\ Using /\ head # cursor
    /\ head' = next[head]
    /\ next' = [next EXCEPT ![cursor] = head, ![head] = next[cursor]]
    /\ cursor' = head
    /\ queue' = IF next[cursor] = NoSlot THEN head ELSE queue
    /\ sorted' = FALSE
    /\ UNCHANGED made

-----------------------------------------------------------------------------
(* Its destruction.  An action is a turn of a loop.                        *)

\* The slot n is used, when gone has been freed.
Uses(n, gone) == misused' = (misused \/ gone[Block(n)] > 0)

Freeing(n) == [freed EXCEPT ![n] = @ + 1]

CleanSlot == visits' = [visits EXCEPT ![pool] = @ + 1]

\* ape_destroy_pool_ordered (the array), of a list in its first order;
\* ape_destroy_pool_with_cleaner (the send path) of any.
Destroy(how) ==
    /\ doing = "nothing" /\ (how = "ordered" => sorted)
    /\ doing' = how /\ pool' = head
    /\ UNCHANGED <<listVars, tPool, fPool, visits, freed, misused>>

\* Mutant of Ordered: a block is freed when the walk is at its first slot.
OrderedAtOnce ==
    /\ doing = "ordered" /\ pool # NoSlot
    /\ CleanSlot
    /\ freed' = IF Alloc(pool) THEN Freeing(pool) ELSE freed
    /\ Uses(pool, freed)
    /\ pool' = next[pool]
    /\ UNCHANGED <<listVars, doing, tPool, fPool>>

Ordered ==
    /\ doing = "ordered" /\ pool # NoSlot
    /\ CleanSlot
    /\ freed' = IF Alloc(pool) /\ tPool # NoSlot THEN Freeing(tPool) ELSE freed
    /\ Uses(pool, freed')
    /\ tPool' = IF Alloc(pool) THEN pool ELSE tPool
    /\ pool' = next[pool]
    /\ UNCHANGED <<listVars, doing, fPool>>

OrderedEnd ==
    /\ doing = "ordered" /\ pool = NoSlot
    /\ doing' = "destroyed"
    /\ freed' = IF tPool # NoSlot THEN Freeing(tPool) ELSE freed
    /\ UNCHANGED <<listVars, pool, tPool, fPool, visits, misused>>

\* The blocks' first slots are taken out and pushed on tPool, but for the first
\* of all, fPool, which stays in front of what is still to be walked.
WithCleaner ==
    /\ doing = "cleaner" /\ pool # NoSlot
    /\ CleanSlot
    /\ fPool' = IF Alloc(pool) /\ fPool = NoSlot THEN pool ELSE fPool
    /\ next' = IF Alloc(pool) /\ tPool # NoSlot
               THEN [next EXCEPT ![fPool'] = next[pool], ![pool] = tPool]
               ELSE next
    /\ tPool' = IF Alloc(pool) THEN pool ELSE tPool
    /\ pool' = next[pool]
    /\ UNCHANGED <<made, head, cursor, queue, sorted, doing, freed, misused>>

WithCleanerEnd ==
    /\ doing = "cleaner" /\ pool = NoSlot
    /\ doing' = "freeing"
    /\ next' = IF fPool # NoSlot THEN [next EXCEPT ![fPool] = NoSlot] ELSE next
    /\ pool' = tPool
    /\ UNCHANGED <<made, head, cursor, queue, sorted, tPool, fPool, visits,
                   freed, misused>>

FreeBlocks ==
    /\ doing = "freeing" /\ pool # NoSlot /\ Alloc(pool)
    /\ Uses(pool, freed)
    /\ freed' = Freeing(pool)
    /\ pool' = next[pool] /\ tPool' = next[pool]
    /\ UNCHANGED <<listVars, doing, fPool, visits>>

FreeBlocksEnd ==
    /\ doing = "freeing" /\ (pool = NoSlot \/ ~Alloc(pool))
    /\ doing' = "destroyed"
    /\ UNCHANGED <<listVars, pool, tPool, fPool, visits, freed, misused>>

PoolNext ==
    \/ grow_pool \/ pool_push \/ pool_rewind
    \/ pool_head_to_queue \/ pool_head_to_current
    \/ Destroy("ordered") \/ Destroy("cleaner")
    \/ Ordered \/ OrderedEnd
    \/ WithCleaner \/ WithCleanerEnd \/ FreeBlocks \/ FreeBlocksEnd

PoolSpec == PoolInit /\ [][PoolNext]_poolVars

-----------------------------------------------------------------------------
(* Properties.                                                             *)

PoolTypeOK ==
    /\ made \in First .. MaxPool
    /\ next \in [SlotNos -> 0 .. MaxPool]
    /\ head \in Made /\ cursor \in Made /\ queue \in Made
    /\ sorted \in BOOLEAN /\ misused \in BOOLEAN
    /\ doing \in {"nothing", "ordered", "cleaner", "freeing", "destroyed"}
    /\ {pool, tPool, fPool} \subseteq 0 .. made
    /\ visits \in [SlotNos -> Nat] /\ freed \in [SlotNos -> Nat]

\* The list from the head on, as long as it goes.
Walk ==
    LET at[k \in 1 .. made + 1] ==
            IF k = 1 THEN head
            ELSE IF at[k - 1] = NoSlot THEN NoSlot ELSE next[at[k - 1]]
    IN  at

\* However it is reordered and grown, the list goes through every slot once,
\* and ends with queue (ape_pool_head_to_current, _head_to_queue, ape_grow_pool).
ListWhole ==
    doing = "nothing" =>
        /\ {Walk[k] : k \in Made} = Made
        /\ Walk[made] = queue /\ Walk[made + 1] = NoSlot

\* A destruction uses no slot of a block it has freed; when it ends, the
\* cleaner has seen every slot once and every block was freed once
\* (ape_destroy_pool_with_cleaner, ape_destroy_pool_ordered).
BlocksFreedOnce ==
    /\ ~misused
    /\ doing = "destroyed" =>
          \A n \in Made : /\ visits[n] = 1
                          /\ freed[n] = IF Alloc(n) THEN 1 ELSE 0

\* The slots in their order and the place of the current one, while the list is
\* in use.
SlotsNow   == IF doing = "nothing" THEN [k \in Made |-> Walk[k]] ELSE <<>>
CurrentNow == IF doing = "nothing" THEN CHOOSE k \in Made : Walk[k] = cursor ELSE 0

AsList == INSTANCE SlotList WITH slots <- SlotsNow, current <- CurrentNow

\* The pointers are the list of slots SlotList describes: what each operation
\* does to the order of the slots and to the place of the current one is what
\* its users, such as the send path, take it to do (ape_pool.c).
IsSlotList == AsList!Spec

\* A list of slots stays whole while it is grown and reordered; its destruction
\* visits each slot once, frees each block once, and uses no slot behind that
\* (ape_pool_head_to_current, ape_pool_head_to_queue, ape_grow_pool,
\* ape_destroy_pool_ordered, ape_destroy_pool_with_cleaner).
PoolSound == ListWhole /\ BlocksFreedOnce
=============================================================================
