---------------------------- MODULE TimersProofs ----------------------------
(***************************************************************************)
(* Proofs about Timers, for any number of timers, asyncs and instants.     *)
(*                                                                         *)
(* The argument is layered: the types; the list; then, for callers that    *)
(* leave alone the timers a loop still points at, the loop cursors; and,   *)
(* on top of these, the minimum that becomes the timeout of the poll.  The *)
(* asyncs stand by themselves.                                             *)
(***************************************************************************)
EXTENDS Timers, FiniteSetTheorems, TLAPS

\* Types are inductive once the callback phase is known to have a timer.
Typed == TypeOK /\ (phase = "callback" => cur # NULL)

USE DEF NULL, PassPhases, passVars, BeginPass

\* The types hold at first.
LEMMA TypedInit == Init => Typed
<1> SUFFICES ASSUME Init PROVE Typed
    OBVIOUS
<1> USE TimersAssumption DEF TimersAssumption, Init
<1>1. <<>> \in Seq(Asyncs)
    OBVIOUS
<1>2. all \in BOOLEAN
    BY Zenon
<1>3. /\ flags \in [Ids -> SUBSET Flags]
      /\ fate \in [Asyncs -> {"new", "pending", "done"}]
      /\ next \in [Ids -> Ids \union {NULL}]
      /\ prev \in [Ids -> Ids \union {NULL}]
    OBVIOUS
<1>4. 0 \in 0 .. MaxTime /\ 0 \in 0 .. MaxTimers
    OBVIOUS
<1> QED
    BY <1>1, <1>2, <1>3, <1>4 DEF Typed, TypeOK, Phases

\* Linking and unlinking keep the pointers typed.
LEMMA LinkFirstTyped ==
    ASSUME Typed, NEW t \in Ids, LinkFirst(t)
    PROVE  /\ head' \in Ids \union {NULL}
           /\ next' \in [Ids -> Ids \union {NULL}]
           /\ prev' \in [Ids -> Ids \union {NULL}]
           /\ linked' \subseteq Ids
  BY DEF Typed, TypeOK, LinkFirst

\* Destroying one keeps the types of all that ape_timer_destroy touches.
LEMMA UnlinkTyped ==
    ASSUME Typed, NEW t \in Ids, Unlink(t)
    PROVE  /\ head' \in Ids \union {NULL}
           /\ next' \in [Ids -> Ids \union {NULL}]
           /\ prev' \in [Ids -> Ids \union {NULL}]
           /\ linked' \subseteq Ids
           /\ last_identifier' = last_identifier
           /\ flags' \in [Ids -> SUBSET Flags]
           /\ schedule' \in [Ids -> Nat]
           /\ ticks' \in [Ids -> Nat]
  BY DEF Typed, TypeOK, Unlink

\* Every step keeps the types, the schedules and timeouts it computes included.
LEMMA TypedNext == Typed /\ [Next]_vars => Typed'
<1> SUFFICES ASSUME Typed, [Next]_vars PROVE Typed'
    OBVIOUS
<1> USE TimersAssumption DEF TimersAssumption
<1>1. ASSUME NEW ms \in Delays, APE_timer_create(ms) PROVE Typed'
  <2>1. last_identifier + 1 \in Ids
      BY <1>1 DEF APE_timer_create, Typed, TypeOK, Ids
  <2> QED BY <1>1, <2>1, LinkFirstTyped
      DEF APE_timer_create, Typed, TypeOK, Flags, asyncVars, loopVars
<1>2. ASSUME NEW t \in Ids, NEW force \in BOOLEAN, APE_timer_clearbyid(t, force)
      PROVE Typed'
    BY <1>2 DEF APE_timer_clearbyid, Typed, TypeOK, Flags, listVars, asyncVars, loopVars
<1>3. ASSUME NEW t \in Ids, APE_timer_unprotect(t) PROVE Typed'
    BY <1>3 DEF APE_timer_unprotect, Typed, TypeOK, listVars, asyncVars, loopVars
<1>4. ASSUME NEW t \in Ids, NEW fl \in SUBSET Flags, APE_timer_setflags(t, fl)
      PROVE Typed'
    BY <1>4 DEF APE_timer_setflags, Typed, TypeOK, listVars, asyncVars, loopVars
<1>5. ASSUME NEW t \in Ids, APE_timer_destroy(t) PROVE Typed'
    BY <1>5, UnlinkTyped DEF APE_timer_destroy, Typed, TypeOK, asyncVars, loopVars
<1>6. ASSUME NEW a \in Asyncs, APE_async(a) PROVE Typed'
    BY <1>6 DEF APE_async, Typed, TypeOK, listVars, timerVars, loopVars
<1>7. ASSUME NEW everything \in BOOLEAN, SweepStart(everything) PROVE Typed'
    BY <1>7 DEF SweepStart, Typed, TypeOK, Phases, listVars, timerVars, asyncVars
<1>8. CASE SweepStep
  <2>1. cur \in Ids
      BY <1>8 DEF SweepStep, Typed, TypeOK
  <2> QED BY <1>8, <2>1, UnlinkTyped
      DEF SweepStep, Typed, TypeOK, Phases, listVars, timerVars, asyncVars
<1>9. CASE SweepClearReturn
    BY <1>9 DEF SweepClearReturn, Typed, TypeOK, Phases, listVars, timerVars, asyncVars
<1>10. CASE SweepAsyncs
    BY <1>10 DEF SweepAsyncs, Typed, TypeOK, Phases, listVars, timerVars
<1>11. CASE SweepAsyncReturn
  <2>1. CASE running = <<>>
      BY <1>11, <2>1 DEF SweepAsyncReturn, Typed, TypeOK, Phases, listVars, timerVars
  <2>2. CASE running # <<>>
    <3>1. running' = Tail(running) /\ UNCHANGED <<phase, all>> /\ phase = "sweepasync"
        BY <1>11, <2>2 DEF SweepAsyncReturn
    <3>2. running' \in Seq(Asyncs)
        BY <2>2, <3>1 DEF Typed, TypeOK
    <3> QED BY <1>11, <2>2, <3>1, <3>2
        DEF SweepAsyncReturn, Typed, TypeOK, listVars, timerVars
  <2> QED BY <2>1, <2>2
<1>12. CASE PollReturn
    BY <1>12 DEF PollReturn, Typed, TypeOK, Phases, listVars, timerVars, asyncVars
<1>13. CASE PollFails
    BY <1>13 DEF PollFails, Typed, TypeOK, listVars, timerVars, asyncVars
<1>14. CASE ProcessStart
    BY <1>14 DEF ProcessStart, Typed, TypeOK, Phases, listVars, timerVars
<1>15. CASE AsyncReturn
    BY <1>15 DEF AsyncReturn, Typed, TypeOK, Phases, listVars, timerVars
<1>16. CASE WalkStart
    BY <1>16 DEF WalkStart, Typed, TypeOK, Phases, listVars, timerVars, asyncVars
<1>17. CASE WalkCleared
  <2>1. cur \in Ids
      BY <1>17 DEF WalkCleared, Typed, TypeOK
  <2> QED BY <1>17, <2>1, UnlinkTyped DEF WalkCleared, Typed, TypeOK, Phases, asyncVars
<1>18. CASE WalkDue
    BY <1>18 DEF WalkDue, Typed, TypeOK, Phases, listVars, timerVars, asyncVars
<1>19. CASE WalkNotDue
    BY <1>19 DEF WalkNotDue, Lower, Typed, TypeOK, Phases, listVars, timerVars, asyncVars
<1>20. ASSUME NEW delay \in Nat, CallbackAgain(delay) PROVE Typed'
  <2>1. cur \in Ids /\ start + delay \in Nat
      BY <1>20 DEF CallbackAgain, Typed, TypeOK
  <2> QED BY <1>20, <2>1
      DEF CallbackAgain, Lower, Typed, TypeOK, Phases, listVars, asyncVars
<1>21. CASE CallbackDone
  <2>1. cur \in Ids
      BY <1>21 DEF CallbackDone, Typed, TypeOK
  <2>2. 0 \in 0 .. MaxTime
      OBVIOUS
  <2> QED BY <1>21, <2>1, <2>2, UnlinkTyped
      DEF CallbackDone, Typed, TypeOK, Phases, asyncVars
<1>22. CASE CallbackReturn
  <2>1. phase = "callback" => ticks[cur] \in Nat
      BY DEF Typed, TypeOK
  <2> QED BY <1>20, <1>21, <1>22, <2>1 DEF CallbackReturn
<1>23. CASE ClearReturn
    BY <1>23 DEF ClearReturn, Typed, TypeOK, Phases, listVars, timerVars, asyncVars
<1>24. CASE WalkEnd
    BY <1>24 DEF WalkEnd, Typed, TypeOK, Phases, listVars, timerVars
<1>25. CASE ProcessEnd
    BY <1>25 DEF ProcessEnd, TimeoutFor, Higher, Typed, TypeOK, Phases,
                 listVars, timerVars, asyncVars
<1>26. CASE Tick
    BY <1>26 DEF Tick, Typed, TypeOK, listVars, timerVars, asyncVars, loopVars
<1>27. CASE UNCHANGED vars
    BY <1>27 DEF vars, Typed, TypeOK, listVars, timerVars, asyncVars, loopVars
<1> QED
    BY <1>1, <1>2, <1>3, <1>4, <1>5, <1>6, <1>7, <1>8, <1>9, <1>10, <1>11,
       <1>12, <1>13, <1>14, <1>15, <1>16, <1>17, <1>18, <1>19, <1>22,
       <1>23, <1>24, <1>25, <1>26, <1>27
    DEF Next, UserCall, SweepBegins, SweepGoesOn, Pass

\* Every state of every behaviour is well typed: in particular no loop of
\* ape_timers_process computes with a pointer that is not a timer, and the
\* timeout it returns is never negative.
THEOREM TypeCorrect == Spec => []TypeOK
<1>1. Spec => []Typed
    BY TypedInit, TypedNext, PTL DEF Spec
<1> QED
    BY <1>1, PTL DEF Typed

-----------------------------------------------------------------------------
(* The list and the cursors.                                               *)

\* Linking a timer newer than every other in front of the list keeps it
\* threaded.
LEMMA LinkFirstKeepsList ==
    ASSUME Typed, ListIntegrity, NEW t \in Ids,
           t = last_identifier + 1, last_identifier' = t, LinkFirst(t)
    PROVE  ListIntegrity'
<1>1. /\ head' = t /\ linked' = linked \union {t}
      /\ next' = [next EXCEPT ![t] = head]
      /\ \A u \in Ids : prev'[u] = IF u = t THEN NULL
                                   ELSE IF u = head THEN t ELSE prev[u]
    BY DEF LinkFirst
<1>2. /\ t \in Nat /\ t # NULL /\ last_identifier \in Nat
      /\ \A u \in linked : u \in Ids /\ u \in Nat /\ u # NULL
      /\ head \in linked \union {NULL}
      /\ next \in [Ids -> Ids \union {NULL}]
    BY DEF Typed, TypeOK, Ids, ListIntegrity, HeadLinked
<1>3. \A u \in linked : u < t /\ u <= head /\ u # t
    BY <1>2 DEF ListIntegrity, Ordered
<1>4. next'[t] = head /\ \A u \in linked : next'[u] = next[u]
    BY <1>1, <1>2, <1>3
<1>5. /\ \A u \in linked : prev'[u] = IF u = head THEN t ELSE prev[u]
      /\ prev'[t] = NULL
    BY <1>1, <1>2, <1>3
<1>6. \A u \in linked :
        /\ next[u] = NULL \/ (next[u] \in linked /\ next[u] < u /\ prev[next[u]] = u)
        /\ prev[u] = NULL => u = head
        /\ prev[u] # NULL => prev[u] \in linked /\ next[prev[u]] = u
    BY DEF ListIntegrity, NextLinked, PrevLinked
<1>7. Ordered'
    BY <1>1, <1>2, <1>3, <1>4 DEF Ordered, ListIntegrity
<1>8. HeadLinked'
    BY <1>1 DEF HeadLinked
<1>9. NextLinked'
  <2> SUFFICES ASSUME NEW u \in linked', next'[u] # NULL
               PROVE  next'[u] \in linked' /\ next'[u] < u /\ prev'[next'[u]] = u
      BY DEF NextLinked
  <2>1. CASE u = t
      BY <1>1, <1>2, <1>3, <1>4, <1>5, <2>1
  <2>2. CASE u \in linked
    <3>1. next[u] \in linked /\ next[u] < u /\ prev[next[u]] = u /\ next[u] # head
        BY <1>2, <1>3, <1>4, <1>6, <2>2
    <3> QED BY <1>1, <1>4, <1>5, <2>2, <3>1
  <2> QED BY <1>1, <2>1, <2>2
<1>10. PrevLinked'
  <2> SUFFICES ASSUME NEW u \in linked'
               PROVE  IF prev'[u] = NULL THEN u = head'
                      ELSE prev'[u] \in linked' /\ next'[prev'[u]] = u
      BY DEF PrevLinked
  <2>1. CASE u = t
      BY <1>1, <1>5, <2>1
  <2>2. CASE u \in linked /\ u = head
      BY <1>1, <1>2, <1>4, <1>5, <2>2
  <2>3. CASE u \in linked /\ u # head
      BY <1>1, <1>4, <1>5, <1>6, <2>3
  <2> QED BY <1>1, <2>1, <2>2, <2>3
<1> QED
    BY <1>7, <1>8, <1>9, <1>10 DEF ListIntegrity

\* Taking a timer out keeps the others threaded.
LEMMA UnlinkKeepsList ==
    ASSUME Typed, ListIntegrity, NEW t \in linked, Unlink(t)
    PROVE  ListIntegrity'
<1>1. /\ linked' = linked \ {t} /\ last_identifier' = last_identifier
      /\ head' = IF prev[t] = NULL THEN next[t] ELSE head
    BY DEF Unlink
<1>2. /\ \A u \in linked : u \in Ids /\ u \in Nat /\ u # NULL
      /\ head \in linked \union {NULL}
      /\ last_identifier \in Nat
    BY DEF Typed, TypeOK, Ids, ListIntegrity, HeadLinked
<1>3. \A u \in linked' :
        /\ next'[u] = IF u = prev[t] THEN next[t] ELSE next[u]
        /\ prev'[u] = IF u = next[t] THEN prev[t] ELSE prev[u]
    BY <1>1, <1>2 DEF Unlink
<1>4. \A u \in linked :
        /\ next[u] = NULL \/ (next[u] \in linked /\ next[u] < u /\ prev[next[u]] = u)
        /\ prev[u] = NULL => u = head
        /\ prev[u] # NULL => prev[u] \in linked /\ next[prev[u]] = u
    BY DEF ListIntegrity, NextLinked, PrevLinked
<1>5. \A u \in linked : u <= last_identifier /\ u <= head
    BY DEF ListIntegrity, Ordered
<1>6. \A u, v \in linked : v < u => v <= next[u]
    BY DEF ListIntegrity, Ordered
<1>7. next[t] # t /\ prev[t] # t
    BY <1>2, <1>4
<1>8. \A u \in linked : next[u] = t => u = prev[t]
    BY <1>2, <1>4
<1>9. \A u \in linked : prev[u] = t => u = next[t]
    BY <1>2, <1>4
<1>10. prev[t] # NULL => head # t
  <2> SUFFICES ASSUME prev[t] # NULL, head = t PROVE FALSE
      OBVIOUS
  <2>1. prev[t] \in linked /\ next[prev[t]] = t
      BY <1>4
  <2>2. t < prev[t] /\ prev[t] <= t
      BY <1>2, <1>4, <1>5, <2>1
  <2> QED BY <1>2, <2>1, <2>2
<1>11. Ordered'
  <2>1. \A u \in linked' : u <= last_identifier'
      BY <1>1, <1>5
  <2>2. \A u \in linked' : u <= head'
    <3> SUFFICES ASSUME NEW u \in linked, u # t PROVE u <= head'
        BY <1>1
    <3>1. CASE prev[t] = NULL
      <4>1. t = head /\ u <= t
          BY <1>4, <1>5, <3>1
      <4> QED BY <1>1, <1>2, <1>6, <3>1, <4>1
    <3>2. CASE prev[t] # NULL
        BY <1>1, <1>5, <3>2
    <3> QED BY <3>1, <3>2
  <2>3. ASSUME NEW u \in linked', NEW v \in linked', v < u PROVE v <= next'[u]
    <3>1. CASE u = prev[t]
      <4>1. u = prev[t] /\ prev[t] # NULL /\ next[u] = t
          BY <1>1, <1>2, <1>4, <3>1
      <4>2. v <= t /\ v # t
          BY <1>1, <1>6, <2>3, <4>1
      <4>3. v <= next[t]
          BY <1>1, <1>2, <1>6, <4>2
      <4> QED BY <1>3, <4>1, <4>3
    <3>2. CASE u # prev[t]
        BY <1>1, <1>3, <1>6, <2>3, <3>2
    <3> QED BY <3>1, <3>2
  <2> QED BY <2>1, <2>2, <2>3 DEF Ordered
<1>12. HeadLinked'
    BY <1>1, <1>2, <1>4, <1>7, <1>10 DEF HeadLinked
<1>13. NextLinked'
  <2> SUFFICES ASSUME NEW u \in linked', next'[u] # NULL
               PROVE  next'[u] \in linked' /\ next'[u] < u /\ prev'[next'[u]] = u
      BY DEF NextLinked
  <2>1. CASE u = prev[t]
    <3>1. u \in linked /\ u # NULL /\ next[u] = t /\ t < u
        BY <1>1, <1>2, <1>4, <2>1
    <3>2. next'[u] = next[t] /\ next[t] \in linked' /\ next[t] < t
        BY <1>1, <1>3, <1>4, <1>7, <2>1
    <3>3. prev'[next[t]] = prev[t]
        BY <1>3, <3>2
    <3>4. next[t] < u
        BY <1>1, <1>2, <3>1, <3>2
    <3> QED BY <2>1, <3>2, <3>3, <3>4
  <2>2. CASE u # prev[t]
    <3>1. u \in linked /\ u # t /\ next'[u] = next[u]
        BY <1>1, <1>3, <2>2
    <3>2. next[u] \in linked /\ next[u] < u /\ prev[next[u]] = u /\ next[u] # t
        BY <1>4, <1>8, <2>2, <3>1
    <3>3. next[u] # next[t]
        BY <1>4, <3>1, <3>2
    <3> QED BY <1>1, <1>3, <3>1, <3>2, <3>3
  <2> QED BY <2>1, <2>2
<1>14. PrevLinked'
  <2> SUFFICES ASSUME NEW u \in linked'
               PROVE  IF prev'[u] = NULL THEN u = head'
                      ELSE prev'[u] \in linked' /\ next'[prev'[u]] = u
      BY DEF PrevLinked
  <2>0. u \in linked /\ u # t /\ u # NULL
      BY <1>1, <1>2
  <2>1. CASE u = next[t]
    <3>1. prev'[u] = prev[t]
        BY <1>3, <2>1
    <3>2. CASE prev[t] = NULL
        BY <1>1, <2>1, <3>1, <3>2
    <3>3. CASE prev[t] # NULL
      <4>1. prev[t] \in linked' /\ next'[prev[t]] = next[t]
          BY <1>1, <1>3, <1>4, <1>7, <3>3
      <4> QED BY <2>1, <3>1, <3>3, <4>1
    <3> QED BY <3>2, <3>3
  <2>2. CASE u # next[t]
    <3>1. prev'[u] = prev[u] /\ prev[u] # t
        BY <1>3, <1>9, <2>0, <2>2
    <3>2. CASE prev[u] = NULL
      <4>1. u = head /\ prev[t] # NULL
          BY <1>4, <2>0, <3>2
      <4> QED BY <1>1, <3>1, <3>2, <4>1
    <3>3. CASE prev[u] # NULL
      <4>1. prev[u] \in linked' /\ next[prev[u]] = u
          BY <1>1, <1>4, <2>0, <3>1, <3>3
      <4>2. prev[u] # prev[t]
          BY <1>2, <1>4, <2>0, <3>3, <4>1
      <4> QED BY <1>3, <3>1, <3>3, <4>1, <4>2
    <3> QED BY <3>2, <3>3
  <2> QED BY <2>1, <2>2
<1> QED
    BY <1>11, <1>12, <1>13, <1>14 DEF ListIntegrity

\* Whatever a step does, it leaves the list alone, links one timer or unlinks
\* one that is in the list.
LEMMA ListMoves ==
    ASSUME Typed, CursorValid, [Next]_vars
    PROVE  \/ UNCHANGED <<listVars, last_identifier>>
           \/ \E t \in Ids : /\ t = last_identifier + 1
                             /\ last_identifier' = t
                             /\ LinkFirst(t)
           \/ \E t \in linked : Unlink(t)
<1>1. ASSUME NEW ms \in Delays, APE_timer_create(ms)
      PROVE  \E t \in Ids : /\ t = last_identifier + 1
                            /\ last_identifier' = t
                            /\ LinkFirst(t)
  <2>1. last_identifier + 1 \in Ids
      BY <1>1, TimersAssumption
      DEF APE_timer_create, Typed, TypeOK, Ids, TimersAssumption
  <2> QED BY <1>1, <2>1 DEF APE_timer_create
<1>2. ASSUME NEW t \in Ids, APE_timer_destroy(t) PROVE \E u \in linked : Unlink(u)
    BY <1>2 DEF APE_timer_destroy
<1>3. ASSUME UserCall PROVE \/ UNCHANGED <<listVars, last_identifier>>
                            \/ \E ms \in Delays : APE_timer_create(ms)
                            \/ \E t \in Ids : APE_timer_destroy(t)
    BY <1>3, Zenon DEF UserCall, APE_timer_clearbyid, APE_timer_unprotect,
                APE_timer_setflags, APE_async, timerVars
<1>4. CASE SweepStep
    BY <1>4 DEF SweepStep, CursorValid, timerVars
<1>5. CASE WalkCleared
    BY <1>5 DEF WalkCleared, CursorValid
<1>6. CASE CallbackDone
    BY <1>6 DEF CallbackDone, CursorValid
<1>7. CASE CallbackReturn
    BY <1>6, <1>7 DEF CallbackReturn, CallbackAgain
<1>8. CASE \/ SweepBegins \/ SweepClearReturn \/ SweepAsyncs \/ SweepAsyncReturn
           \/ PollReturn \/ PollFails \/ ProcessStart \/ AsyncReturn \/ WalkStart
           \/ WalkDue \/ WalkNotDue \/ ClearReturn \/ WalkEnd \/ ProcessEnd
           \/ Tick \/ UNCHANGED vars
    BY <1>8, Zenon DEF SweepBegins, SweepStart, SweepClearReturn, SweepAsyncs,
       SweepAsyncReturn, PollReturn, PollFails, ProcessStart, AsyncReturn,
       WalkStart, WalkDue, WalkNotDue, ClearReturn, WalkEnd, ProcessEnd, Tick,
       vars, timerVars
<1> QED
    BY <1>1, <1>2, <1>3, <1>4, <1>5, <1>7, <1>8 DEF Next, SweepGoesOn, Pass

\* The list stays whole over every step, if the cursors name linked timers.
LEMMA ListNext == Typed /\ ListIntegrity /\ CursorValid /\ [Next]_vars => ListIntegrity'
<1> SUFFICES ASSUME Typed, ListIntegrity, CursorValid, [Next]_vars
             PROVE  ListIntegrity'
    OBVIOUS
<1>1. CASE UNCHANGED <<listVars, last_identifier>>
    BY <1>1 DEF listVars, ListIntegrity, Ordered, HeadLinked, NextLinked, PrevLinked
<1>2. ASSUME NEW t \in Ids, t = last_identifier + 1, last_identifier' = t, LinkFirst(t)
      PROVE  ListIntegrity'
    BY <1>2, LinkFirstKeepsList
<1>3. ASSUME NEW t \in linked, Unlink(t) PROVE ListIntegrity'
    BY <1>3, UnlinkKeepsList
<1> QED
    BY <1>1, <1>2, <1>3, ListMoves

\* The successor of a linked timer is linked, and stays so when the timer goes.
LEMMA SuccessorStays ==
    ASSUME Typed, ListIntegrity, NEW t \in linked
    PROVE  next[t] = NULL \/ next[t] \in linked \ {t}
<1>1. \A u \in linked : u \in Nat
    BY DEF Typed, TypeOK, Ids
<1> QED
    BY <1>1 DEF ListIntegrity, NextLinked

\* The cursors stay valid over every step, if callers spare them.
LEMMA CursorNext ==
    ASSUME CallersSpareCursors
    PROVE  Typed /\ ListIntegrity /\ CursorValid /\ [Next]_vars => CursorValid'
<1> SUFFICES ASSUME Typed, ListIntegrity, CursorValid, [Next]_vars
             PROVE  CursorValid'
    OBVIOUS
<1>1. head = NULL \/ head \in linked
    BY DEF ListIntegrity, HeadLinked
<1>2. ASSUME NEW ms \in Delays, APE_timer_create(ms) PROVE CursorValid'
    BY <1>2 DEF APE_timer_create, LinkFirst, CursorValid, loopVars
<1>3. ASSUME NEW t \in Ids, APE_timer_destroy(t) PROVE CursorValid'
  <2>1. /\ linked' = linked \ {t} /\ UNCHANGED <<phase, cur, nxt>>
        /\ phase \in UserPhases \ {"async1", "clear", "sweepclear"}
        /\ phase = "callback" => t # cur
      BY <1>3 DEF APE_timer_destroy, InUserCode, Unlink, loopVars, CallersSpareCursors
  <2> QED BY <2>1 DEF CursorValid, UserPhases
<1>4. CASE UserCall
  <2>1. CASE \/ \E t \in Ids, force \in BOOLEAN : APE_timer_clearbyid(t, force)
             \/ \E t \in Ids : APE_timer_unprotect(t)
             \/ \E t \in Ids, fl \in SUBSET Flags : APE_timer_setflags(t, fl)
             \/ \E a \in Asyncs : APE_async(a)
      BY <2>1 DEF APE_timer_clearbyid, APE_timer_unprotect, APE_timer_setflags,
                  APE_async, CursorValid, listVars, loopVars
  <2> QED BY <1>2, <1>3, <1>4, <2>1 DEF UserCall
<1>5. CASE SweepStep
  <2>1. cur \in linked
      BY <1>5 DEF SweepStep, CursorValid
  <2>2. next[cur] = NULL \/ next[cur] \in linked \ {cur}
      BY <2>1, SuccessorStays
  <2> QED BY <1>5, <2>1, <2>2 DEF SweepStep, Unlink, CursorValid, listVars
<1>6. CASE WalkCleared
  <2>1. cur \in linked
      BY <1>6 DEF WalkCleared, CursorValid
  <2>2. next[cur] = NULL \/ next[cur] \in linked \ {cur}
      BY <2>1, SuccessorStays
  <2> QED BY <1>6, <2>2 DEF WalkCleared, Unlink, CursorValid
<1>7. CASE CallbackDone
  <2>1. cur \in linked
      BY <1>7 DEF CallbackDone, CursorValid
  <2>2. next[cur] = NULL \/ next[cur] \in linked \ {cur}
      BY <2>1, SuccessorStays
  <2> QED BY <1>7, <2>2 DEF CallbackDone, Unlink, CursorValid
<1>8. ASSUME NEW delay, CallbackAgain(delay) PROVE CursorValid'
  <2>1. cur \in linked
      BY <1>8 DEF CallbackAgain, CursorValid
  <2>2. next[cur] = NULL \/ next[cur] \in linked \ {cur}
      BY <2>1, SuccessorStays
  <2> QED BY <1>8, <2>2 DEF CallbackAgain, CursorValid, listVars
<1>9. CASE CallbackReturn
    BY <1>7, <1>8, <1>9 DEF CallbackReturn
<1>10. CASE WalkNotDue
  <2>1. cur \in linked
      BY <1>10 DEF WalkNotDue, CursorValid
  <2>2. next[cur] = NULL \/ next[cur] \in linked \ {cur}
      BY <2>1, SuccessorStays
  <2> QED BY <1>10, <2>2 DEF WalkNotDue, CursorValid, listVars
<1>11. CASE WalkDue
    BY <1>11 DEF WalkDue, CursorValid, listVars
<1>12. CASE SweepBegins
    BY <1>1, <1>12 DEF SweepBegins, SweepStart, CursorValid, listVars
<1>13. CASE ProcessStart
    BY <1>1, <1>13 DEF ProcessStart, CursorValid, listVars
<1>14. CASE \/ SweepClearReturn \/ SweepAsyncs \/ SweepAsyncReturn
    BY <1>14 DEF SweepClearReturn, SweepAsyncs, SweepAsyncReturn, CursorValid, listVars
<1>15. CASE \/ AsyncReturn \/ WalkStart \/ ClearReturn \/ WalkEnd \/ ProcessEnd
    BY <1>15 DEF AsyncReturn, WalkStart, ClearReturn, WalkEnd, ProcessEnd,
                 CursorValid, listVars
<1>16. CASE \/ PollReturn \/ PollFails \/ Tick \/ UNCHANGED vars
    BY <1>16 DEF PollReturn, PollFails, Tick, vars, CursorValid, listVars, loopVars
<1> QED
    BY <1>4, <1>5, <1>6, <1>9, <1>10, <1>11, <1>12, <1>13, <1>14, <1>15, <1>16
    DEF Next, SweepGoesOn, Pass

\* Types, list and cursors form one inductive invariant.
Sound == Typed /\ ListIntegrity /\ CursorValid

\* It is an invariant.
LEMMA SoundAlways == ASSUME CallersSpareCursors PROVE Spec => []Sound
<1>1. Init => Sound
  <2>1. Init => ListIntegrity /\ CursorValid
      BY DEF Init, ListIntegrity, Ordered, HeadLinked, NextLinked, PrevLinked, CursorValid
  <2> QED BY <2>1, TypedInit DEF Sound
<1>2. Sound /\ [Next]_vars => Sound'
    BY TypedNext, ListNext, CursorNext DEF Sound
<1> QED
    BY <1>1, <1>2, PTL DEF Spec

\* The list is threaded through exactly the timers that exist, newest first,
\* after any sequence of creations and destructions: every ape_timer_destroy
\* made from a callback or by the walk repairs head, next and prev.
THEOREM ListCorrect == ASSUME CallersSpareCursors PROVE Spec => []ListIntegrity
    BY SoundAlways, PTL DEF Sound

\* No loop of ape_timers_process or of the sweeps follows a pointer to a
\* destroyed timer, as long as no timer is destroyed by the first batch of
\* asyncs or by a clear function.
THEOREM CursorCorrect == ASSUME CallersSpareCursors PROVE Spec => []CursorValid
    BY SoundAlways, PTL DEF Sound

-----------------------------------------------------------------------------
(* The timeout.                                                            *)

\* A timer of the list keeps its schedule unless its callback has just
\* returned, and is then due one delay after the callback started.
LEMMA ScheduledNext == Sound /\ Scheduled /\ [Next]_vars => Scheduled'
<1> SUFFICES ASSUME Sound, Scheduled, [Next]_vars PROVE Scheduled'
    OBVIOUS
<1> USE TimersAssumption DEF TimersAssumption
<1>1. \A t \in linked : t \in Ids
    BY DEF Sound, Typed, TypeOK
<1>2. ASSUME NEW ms \in Delays, APE_timer_create(ms) PROVE Scheduled'
  <2>1. last_identifier + 1 \in Ids
      BY <1>2 DEF APE_timer_create, Sound, Typed, TypeOK, Ids
  <2>2. now + ms < Never
      BY DEF Sound, Typed, TypeOK
  <2> QED BY <1>1, <1>2, <2>1, <2>2
      DEF APE_timer_create, LinkFirst, Scheduled, Sound, Typed, TypeOK
<1>3. ASSUME NEW t \in linked, Unlink(t) PROVE Scheduled'
    BY <1>1, <1>3 DEF Unlink, Scheduled
<1>4. ASSUME UNCHANGED <<linked, schedule, ticks>> PROVE Scheduled'
    BY <1>4 DEF Scheduled
<1>5. CASE UserCall
  <2>1. ASSUME NEW t \in Ids, APE_timer_destroy(t) PROVE Scheduled'
      BY <1>3, <2>1 DEF APE_timer_destroy
  <2>2. ASSUME \/ \E t \in Ids, force \in BOOLEAN : APE_timer_clearbyid(t, force)
               \/ \E t \in Ids : APE_timer_unprotect(t)
               \/ \E t \in Ids, fl \in SUBSET Flags : APE_timer_setflags(t, fl)
               \/ \E a \in Asyncs : APE_async(a)
        PROVE  UNCHANGED <<linked, schedule, ticks>>
      BY <2>2 DEF APE_timer_clearbyid, APE_timer_unprotect, APE_timer_setflags,
                  APE_async, listVars, timerVars
  <2> QED BY <1>2, <1>4, <1>5, <2>1, <2>2 DEF UserCall
<1>6. CASE SweepStep
    BY <1>3, <1>4, <1>6 DEF SweepStep, Sound, CursorValid, listVars, timerVars
<1>7. CASE WalkCleared
    BY <1>3, <1>7 DEF WalkCleared, Sound, CursorValid
<1>8. CASE CallbackDone
    BY <1>3, <1>8 DEF CallbackDone, Sound, CursorValid
<1>9. ASSUME NEW delay \in Delays \union Periods, CallbackAgain(delay)
      PROVE  Scheduled'
  <2>1. start + delay < Never /\ start + delay \in Nat
      BY DEF Sound, Typed, TypeOK
  <2> QED BY <1>1, <1>9, <2>1
      DEF CallbackAgain, Scheduled, Sound, Typed, TypeOK, listVars
<1>10. CASE CallbackReturn
  <2>1. phase = "callback" => ticks[cur] \in Delays \union Periods
      BY DEF Sound, CursorValid, Scheduled
  <2> QED BY <1>8, <1>9, <1>10, <2>1 DEF CallbackReturn
<1>11. CASE \/ SweepBegins \/ SweepClearReturn \/ SweepAsyncs \/ SweepAsyncReturn
            \/ PollReturn \/ PollFails \/ ProcessStart \/ AsyncReturn \/ WalkStart
            \/ WalkDue \/ WalkNotDue \/ ClearReturn \/ WalkEnd \/ ProcessEnd
            \/ Tick \/ UNCHANGED vars
  <2>1. UNCHANGED <<linked, schedule, ticks>>
      BY <1>11, Zenon DEF SweepBegins, SweepStart, SweepClearReturn, SweepAsyncs,
         SweepAsyncReturn, PollReturn, PollFails, ProcessStart, AsyncReturn,
         WalkStart, WalkDue, WalkNotDue, ClearReturn, WalkEnd, ProcessEnd, Tick,
         vars, listVars, timerVars
  <2> QED BY <1>4, <2>1
<1> QED
    BY <1>5, <1>6, <1>7, <1>10, <1>11 DEF Next, SweepGoesOn, Pass

\* The minimum covers what the walk has left behind: each step of the walk
\* takes the timer it leaves into the minimum, or destroys it.
LEMMA MinimumNext ==
    ASSUME CallersSpareCursors
    PROVE  Sound /\ Sound' /\ MinimumSoFar /\ [Next]_vars => MinimumSoFar'
<1> SUFFICES ASSUME Sound, Sound', MinimumSoFar, [Next]_vars PROVE MinimumSoFar'
    OBVIOUS
<1>1. /\ \A t \in linked : t \in Ids /\ t \in Nat /\ t # NULL /\ schedule[t] \in Nat
      /\ last_identifier \in Nat /\ passLast \in Nat /\ inums \in Nat
      /\ cur \in Nat /\ nxt \in Nat
  <2>1. TypeOK
      BY DEF Sound, Typed
  <2>2. \A t \in Ids : t \in Nat /\ t # NULL
      BY DEF Ids
  <2>3. cur \in Nat /\ nxt \in Nat
      BY <2>1, <2>2 DEF TypeOK
  <2> QED BY <2>1, <2>2, <2>3 DEF TypeOK
<1>2. \A t, u \in linked : u < t => u <= next[t]
    BY DEF Sound, ListIntegrity, Ordered
<1>3. \A t \in linked : next[t] \in Nat /\ next[t] < t
  <2>1. \A t \in linked : next[t] = NULL \/ (next[t] \in linked /\ next[t] < t)
      BY DEF Sound, ListIntegrity, NextLinked
  <2>2. \A t \in linked : t \in Nat /\ NULL < t
      BY <1>1
  <2> QED BY <2>1, <2>2
<1>4. \A t \in linked : t <= last_identifier /\ t <= head
    BY DEF Sound, ListIntegrity, Ordered
<1>5. ASSUME NEW ms \in Delays, APE_timer_create(ms) PROVE MinimumSoFar'
  <2>1. /\ linked' = linked \union {last_identifier + 1}
        /\ last_identifier' = last_identifier + 1
        /\ UNCHANGED <<phase, cur, nxt, passLast, inums>>
      BY <1>5 DEF APE_timer_create, LinkFirst, loopVars
  <2>2. \A t \in linked : schedule'[t] = schedule[t]
      BY <1>1, <1>4, <1>5 DEF APE_timer_create, Sound, Typed, TypeOK
  <2> QED BY <1>1, <2>1, <2>2 DEF MinimumSoFar, WalkAt
<1>6. ASSUME NEW t \in Ids, APE_timer_destroy(t) PROVE MinimumSoFar'
    BY <1>1, <1>6 DEF APE_timer_destroy, Unlink, loopVars, MinimumSoFar, WalkAt
<1>7. ASSUME UNCHANGED <<linked, last_identifier, schedule, loopVars, passLast>>
      PROVE  MinimumSoFar'
    BY <1>7 DEF MinimumSoFar, WalkAt, loopVars
<1>8. CASE UserCall
  <2>1. ASSUME \/ \E t \in Ids, force \in BOOLEAN : APE_timer_clearbyid(t, force)
               \/ \E t \in Ids : APE_timer_unprotect(t)
               \/ \E t \in Ids, fl \in SUBSET Flags : APE_timer_setflags(t, fl)
               \/ \E a \in Asyncs : APE_async(a)
        PROVE  UNCHANGED <<linked, last_identifier, schedule, loopVars, passLast>>
      BY <2>1 DEF APE_timer_clearbyid, APE_timer_unprotect, APE_timer_setflags,
                  APE_async, listVars, timerVars
  <2> QED BY <1>5, <1>6, <1>7, <1>8, <2>1 DEF UserCall
<1>9. CASE ProcessStart
  <2>1. /\ phase' = "async1" /\ cur' = head /\ passLast' = last_identifier
        /\ UNCHANGED <<linked, last_identifier, schedule>>
      BY <1>9 DEF ProcessStart, listVars, timerVars
  <2>2. head <= last_identifier /\ head \in Nat
      BY <1>1, <1>4 DEF Sound, ListIntegrity, HeadLinked
  <2>3. \A t \in linked : ~(head < t)
      BY <1>1, <1>4, <2>2
  <2> QED BY <1>1, <2>1, <2>2, <2>3 DEF MinimumSoFar, WalkAt
<1>10. CASE WalkCleared
  <2>1. /\ cur \in linked /\ phase' = "clear" /\ nxt' = next[cur]
        /\ linked' = linked \ {cur} /\ UNCHANGED <<last_identifier, inums, passLast>>
        /\ \A t \in linked' : schedule'[t] = schedule[t]
        /\ phase = "walk"
      BY <1>1, <1>10 DEF WalkCleared, Unlink, Sound, CursorValid, asyncVars
  <2>2. \A t \in linked' : next[cur] < t => cur < t
      BY <1>1, <1>2, <1>3, <2>1
  <2> QED BY <1>1, <1>3, <2>1, <2>2 DEF MinimumSoFar, WalkAt
<1>11. CASE CallbackDone
  <2>1. /\ cur \in linked /\ phase' = "clear" /\ nxt' = next[cur]
        /\ linked' = linked \ {cur} /\ UNCHANGED <<last_identifier, inums, passLast>>
        /\ \A t \in linked' : schedule'[t] = schedule[t]
        /\ phase = "callback"
      BY <1>1, <1>11 DEF CallbackDone, Unlink, Sound, CursorValid, asyncVars
  <2>2. \A t \in linked' : next[cur] < t => cur < t
      BY <1>1, <1>2, <1>3, <2>1
  <2> QED BY <1>1, <1>3, <2>1, <2>2 DEF MinimumSoFar, WalkAt
<1>12. CASE WalkNotDue
  <2>1. /\ cur \in linked /\ phase = "walk" /\ phase' = "walk" /\ cur' = next[cur]
        /\ inums' = Lower(inums, schedule[cur])
        /\ UNCHANGED <<linked, last_identifier, schedule, passLast>>
      BY <1>12 DEF WalkNotDue, Sound, CursorValid, listVars, timerVars
  <2>2. \A t \in linked : next[cur] < t => t = cur \/ cur < t
      BY <1>1, <1>2, <1>3, <2>1
  <2> QED BY <1>1, <1>3, <2>1, <2>2 DEF MinimumSoFar, WalkAt, Lower
<1>13. ASSUME NEW delay \in Nat, CallbackAgain(delay) PROVE MinimumSoFar'
  <2>1. /\ cur \in linked /\ phase = "callback" /\ phase' = "walk" /\ cur' = next[cur]
        /\ inums' = Lower(inums, start + delay)
        /\ UNCHANGED <<linked, last_identifier, passLast>>
        /\ schedule'[cur] = start + delay
        /\ \A t \in linked \ {cur} : schedule'[t] = schedule[t]
      BY <1>1, <1>13 DEF CallbackAgain, Sound, CursorValid, Typed, TypeOK, listVars
  <2>2. \A t \in linked : next[cur] < t => t = cur \/ cur < t
      BY <1>1, <1>2, <1>3, <2>1
  <2>3. start + delay \in Nat
      BY DEF Sound, Typed, TypeOK
  <2> QED BY <1>1, <1>3, <2>1, <2>2, <2>3 DEF MinimumSoFar, WalkAt, Lower
<1>14. CASE CallbackReturn
  <2>1. phase = "callback" => ticks[cur] \in Nat
      BY DEF Sound, Typed, TypeOK
  <2> QED BY <1>11, <1>13, <1>14, <2>1, TimersAssumption
      DEF CallbackReturn, TimersAssumption
<1>15. CASE \/ AsyncReturn \/ WalkStart \/ WalkDue
    BY <1>1, <1>15 DEF AsyncReturn, WalkStart, WalkDue, MinimumSoFar, WalkAt,
                       listVars, timerVars
<1>16. CASE ClearReturn
    BY <1>1, <1>16 DEF ClearReturn, MinimumSoFar, WalkAt, listVars, timerVars
<1>17. CASE WalkEnd
    BY <1>1, <1>17 DEF WalkEnd, MinimumSoFar, WalkAt, listVars, timerVars
<1>18. ASSUME phase' \notin PassPhases
       PROVE  MinimumSoFar'
    BY <1>18 DEF MinimumSoFar
<1>19. CASE ProcessEnd \/ PollReturn \/ PollFails
    BY <1>18, <1>19 DEF ProcessEnd, PollReturn, PollFails
<1>20. CASE SweepBegins \/ SweepGoesOn
    BY <1>18, <1>20 DEF SweepBegins, SweepStart, SweepGoesOn, SweepStep,
                        SweepClearReturn, SweepAsyncs, SweepAsyncReturn
<1>21. CASE Tick \/ UNCHANGED vars
    BY <1>7, <1>21 DEF Tick, vars, listVars, timerVars
<1> QED
    BY <1>8, <1>9, <1>10, <1>12, <1>14, <1>15, <1>16, <1>17, <1>19, <1>20, <1>21
    DEF Next, Pass

\* The clock reading that ape_timers_process subtracts is one of its own pass.
LEMMA SampleNext ==
    Sound /\ Scheduled /\ MinimumSoFar /\ SampleOfPass /\ [Next]_vars => SampleOfPass'
<1> SUFFICES ASSUME Sound, Scheduled, MinimumSoFar, SampleOfPass, [Next]_vars
             PROVE  SampleOfPass'
    OBVIOUS
<1> USE TimersAssumption DEF TimersAssumption
<1>1. /\ now \in Nat /\ passStart \in Nat /\ lastsample \in Nat /\ inums \in Nat
      /\ nexttimeout \in Nat /\ deadline \in Nat /\ passStart <= now
      /\ \A t \in linked : schedule[t] \in Nat /\ schedule[t] < Never
    BY DEF Sound, Typed, TypeOK, Scheduled, SampleOfPass
<1>2. CASE ProcessEnd
  <2> DEFINE sample == IF lastsample = 0 THEN now ELSE lastsample
             timeout == IF inums = Never THEN Resolution ELSE TimeoutFor(inums, sample)
  <2>1. /\ UNCHANGED <<linked, schedule, passLast, passStart, now>>
        /\ nexttimeout' = timeout /\ deadline' = now + timeout
        /\ phase = "async2" /\ phase' = "poll"
      BY <1>2 DEF ProcessEnd, listVars, timerVars
  <2>2. sample \in Nat /\ passStart <= sample
      BY <1>1, <2>1 DEF SampleOfPass
  <2>3. timeout \in Nat
      BY <1>1, <2>2 DEF TimeoutFor, Higher
  <2>4. ASSUME NEW t \in linked, t <= passLast
        PROVE  timeout <= TimeoutFor(schedule[t], passStart)
    <3>1. t \in Nat /\ NULL < t
        BY DEF Sound, Typed, TypeOK, Ids
    <3>2. inums <= schedule[t]
        BY <2>1, <2>4, <3>1 DEF MinimumSoFar
    <3>3. inums # Never
        BY <1>1, <3>2
    <3> HIDE DEF sample
    <3>4. TimeoutFor(inums, sample) <= TimeoutFor(schedule[t], passStart)
        BY <1>1, <2>2, <3>2 DEF TimeoutFor, Higher
    <3> QED BY <3>3, <3>4
  <2> HIDE DEF timeout
  <2>5. passStart + timeout <= now + timeout
      BY <1>1, <2>3
  <2> QED BY <1>1, <2>1, <2>4, <2>5 DEF SampleOfPass
<1>3. CASE PollFails
  <2>1. /\ UNCHANGED <<linked, schedule, passLast, passStart, now, nexttimeout, phase>>
        /\ deadline' = now + nexttimeout /\ phase = "poll"
      BY <1>3 DEF PollFails, listVars, timerVars
  <2> QED BY <1>1, <2>1 DEF SampleOfPass
<1>4. CASE PollReturn
    BY <1>1, <1>4 DEF PollReturn, SampleOfPass
<1>5. CASE ProcessStart
    BY <1>1, <1>5 DEF ProcessStart, SampleOfPass
<1>6. ASSUME NEW delay, CallbackAgain(delay) PROVE SampleOfPass'
    BY <1>1, <1>6 DEF CallbackAgain, SampleOfPass
<1>7. CASE CallbackDone
    BY <1>7 DEF CallbackDone, SampleOfPass
<1>8. CASE CallbackReturn
    BY <1>6, <1>7, <1>8 DEF CallbackReturn
<1>9. CASE \/ AsyncReturn \/ WalkStart \/ WalkCleared \/ WalkDue
           \/ WalkNotDue \/ ClearReturn \/ WalkEnd
    BY <1>9 DEF AsyncReturn, WalkStart, WalkCleared, WalkDue, WalkNotDue,
                ClearReturn, WalkEnd, SampleOfPass
<1>10. CASE SweepBegins \/ SweepGoesOn
    BY <1>10 DEF SweepBegins, SweepStart, SweepGoesOn, SweepStep, SweepClearReturn,
                 SweepAsyncs, SweepAsyncReturn, SampleOfPass
<1>11. CASE UserCall
  <2>1. phase # "poll" /\ UNCHANGED <<loopVars, passStart, now>>
      BY <1>11 DEF UserCall, APE_timer_create, APE_timer_clearbyid, APE_timer_unprotect,
                  APE_timer_setflags, APE_timer_destroy, APE_async, InUserCode,
                  UserPhases
  <2> QED BY <2>1 DEF SampleOfPass, loopVars
<1>12. CASE Tick
    BY <1>1, <1>12 DEF Tick, SampleOfPass, listVars, timerVars, loopVars
<1>13. CASE UNCHANGED vars
    BY <1>13 DEF vars, SampleOfPass, listVars, timerVars, loopVars
<1> QED
    BY <1>2, <1>3, <1>4, <1>5, <1>8, <1>9, <1>10, <1>11, <1>12, <1>13 DEF Next, Pass

\* So what the poll is late by is bounded by what passed since the pass began.
LEMMA SampleBounds == Sound /\ SampleOfPass => OversleepBounded
<1> SUFFICES ASSUME Sound, SampleOfPass, phase = "poll", NEW t \in linked, t <= passLast
             PROVE  deadline <= Higher(PollStart + Floor, LateByThePass(t))
    BY DEF OversleepBounded
<1>1. /\ schedule[t] \in Nat /\ passStart \in Nat /\ deadline \in Nat
      /\ nexttimeout \in Nat /\ Floor \in Nat
    BY TimersAssumption DEF Sound, Typed, TypeOK, TimersAssumption
<1>2. /\ passStart + nexttimeout <= deadline
      /\ nexttimeout <= TimeoutFor(schedule[t], passStart)
    BY DEF SampleOfPass
<1>3. nexttimeout <= Floor \/ nexttimeout + passStart <= schedule[t]
    BY <1>1, <1>2 DEF TimeoutFor, Higher
<1> QED
    BY <1>1, <1>2, <1>3 DEF PollStart, LateByThePass, Higher

\* The argument for the timeout of the poll, as one invariant.
Covered == Sound /\ Scheduled /\ MinimumSoFar /\ SampleOfPass

\* It is an invariant.
LEMMA CoveredAlways == ASSUME CallersSpareCursors PROVE Spec => []Covered
<1>1. Init => Scheduled /\ MinimumSoFar /\ SampleOfPass
    BY DEF Init, Scheduled, MinimumSoFar, SampleOfPass
<1>2. Sound /\ Sound' /\ Scheduled /\ MinimumSoFar /\ SampleOfPass /\ [Next]_vars
        => Scheduled' /\ MinimumSoFar' /\ SampleOfPass'
    BY ScheduledNext, MinimumNext, SampleNext
<1>3. Spec => []Sound
    BY SoundAlways
<1> QED
    BY <1>1, <1>2, <1>3, PTL DEF Spec, Covered

\* By the clock, the poll is late for a timer that was in the list when the pass
\* began by no more than the time since then, or wakes at the smallest timeout.
THEOREM OversleepCorrect == ASSUME CallersSpareCursors PROVE Spec => []OversleepBounded
    BY CoveredAlways, SampleBounds, PTL DEF Covered

\* A pass calls no timer that was created while it ran: however many timers
\* the callbacks create, the walk ends.
THEOREM PassIsFiniteCorrect == ASSUME CallersSpareCursors PROVE Spec => PassIsFinite
<1>1. Covered /\ [Next]_vars => [phase = "walk" /\ phase' = "callback" => cur <= passLast]_vars
    BY DEF Covered, MinimumSoFar, WalkAt
<1> QED
    BY <1>1, CoveredAlways, PTL DEF Spec, PassIsFinite

\* Each step of the walk leaves behind only timers that were not marked, or
\* destroys them; user code marks, saves and destroys, but links only new ones.
LEMMA DoomedNext ==
    Covered /\ DoomedAhead /\ ClearedIsGone /\ [Next]_vars
        => DoomedAhead' /\ ClearedIsGone'
<1> SUFFICES ASSUME Covered, DoomedAhead, ClearedIsGone, [Next]_vars
             PROVE  DoomedAhead' /\ ClearedIsGone'
    OBVIOUS
<1>1. /\ \A t \in linked : t \in Ids /\ t \in Nat /\ NULL < t /\ next[t] \in Nat
      /\ \A t \in doomed : t \in Ids /\ t \in Nat
      /\ flags \in [Ids -> SUBSET Flags]
      /\ last_identifier \in Nat /\ passLast \in Nat /\ cur \in Nat /\ nxt \in Nat
  <2>1. TypeOK
      BY DEF Covered, Sound, Typed
  <2>2. \A t \in Ids \union {NULL} : t \in Nat /\ (t \in Ids => NULL < t)
      BY DEF Ids
  <2>3. \A t \in linked : t \in Ids /\ next[t] \in Ids \union {NULL}
      BY <2>1 DEF TypeOK
  <2>4. /\ last_identifier \in Ids \union {NULL} /\ passLast \in Ids \union {NULL}
        /\ cur \in Ids \union {NULL} /\ nxt \in Ids \union {NULL}
      BY <2>1 DEF TypeOK, Ids
  <2>5. flags \in [Ids -> SUBSET Flags] /\ doomed \subseteq Ids
      BY <2>1 DEF TypeOK
  <2>6. \A t \in linked : t \in Ids /\ t \in Nat /\ NULL < t /\ next[t] \in Nat
      BY <2>2, <2>3
  <2>7. last_identifier \in Nat /\ passLast \in Nat /\ cur \in Nat /\ nxt \in Nat
      BY <2>2, <2>4
  <2> QED BY <2>2, <2>5, <2>6, <2>7
<1>2. \A t, u \in linked : u < t => u <= next[t]
    BY DEF Covered, Sound, ListIntegrity, Ordered
<1>3. /\ phase \in PassPhases => passLast <= last_identifier
      /\ phase = "async2" => WalkAt = NULL
    BY DEF Covered, MinimumSoFar
<1>4. phase \in {"async1", "walk", "callback"} => cur = NULL \/ cur \in linked
    BY DEF Covered, Sound, CursorValid
\* User code.
<1>5. ASSUME NEW ms \in Delays, APE_timer_create(ms)
      PROVE  DoomedAhead' /\ ClearedIsGone'
  <2>1. /\ linked' = linked \union {last_identifier + 1}
        /\ flags' = [flags EXCEPT ![last_identifier + 1] = {"PROTECTED"}]
        /\ UNCHANGED <<phase, cur, nxt, doomed, passLast>>
        /\ phase # "poll"
      BY <1>5 DEF APE_timer_create, LinkFirst, loopVars, InUserCode, UserPhases
  <2>2. last_identifier + 1 \notin doomed
      BY <1>1, <1>3, <2>1 DEF DoomedAhead
  <2> QED BY <1>1, <2>1, <2>2 DEF DoomedAhead, ClearedIsGone, WalkAt
<1>6. ASSUME NEW t \in Ids, APE_timer_destroy(t) PROVE DoomedAhead' /\ ClearedIsGone'
    BY <1>1, <1>6 DEF APE_timer_destroy, Unlink, loopVars, DoomedAhead, ClearedIsGone, WalkAt
<1>7. ASSUME NEW t \in Ids, NEW force \in BOOLEAN, APE_timer_clearbyid(t, force)
      PROVE  DoomedAhead' /\ ClearedIsGone'
    BY <1>1, <1>7 DEF APE_timer_clearbyid, listVars, loopVars, DoomedAhead, ClearedIsGone, WalkAt
<1>8. ASSUME NEW t \in Ids, APE_timer_unprotect(t) PROVE DoomedAhead' /\ ClearedIsGone'
    BY <1>1, <1>8 DEF APE_timer_unprotect, listVars, loopVars, DoomedAhead, ClearedIsGone, WalkAt
<1>9. ASSUME NEW t \in Ids, NEW fl \in SUBSET Flags, APE_timer_setflags(t, fl)
      PROVE  DoomedAhead' /\ ClearedIsGone'
    BY <1>1, <1>9 DEF APE_timer_setflags, listVars, loopVars, DoomedAhead, ClearedIsGone, WalkAt
<1>10. ASSUME UNCHANGED <<linked, flags, phase, cur, nxt, doomed, passLast>>
       PROVE  DoomedAhead' /\ ClearedIsGone'
    BY <1>10 DEF DoomedAhead, ClearedIsGone, WalkAt
<1>11. ASSUME NEW a \in Asyncs, APE_async(a) PROVE DoomedAhead' /\ ClearedIsGone'
    BY <1>10, <1>11 DEF APE_async, listVars, timerVars, loopVars
<1>12. CASE UserCall
    BY <1>5, <1>6, <1>7, <1>8, <1>9, <1>11, <1>12 DEF UserCall
\* The pass.
<1>13. CASE ProcessStart
  <2>1. /\ phase' = "async1" /\ cur' = head /\ passLast' = last_identifier
        /\ doomed' = {t \in linked : "CLEARED" \in flags[t]}
        /\ UNCHANGED <<linked, flags>>
      BY <1>13 DEF ProcessStart, listVars, timerVars
  <2>2. \A t \in linked : t <= head /\ t <= last_identifier
      BY DEF Covered, Sound, ListIntegrity, Ordered
  <2> QED BY <2>1, <2>2 DEF DoomedAhead, ClearedIsGone, WalkAt
<1>14. ASSUME cur \in linked, Unlink(cur), nxt' = next[cur], cur' = NULL,
              phase \in {"walk", "callback"}, phase' = "clear",
              UNCHANGED <<doomed, passLast>>
       PROVE  DoomedAhead' /\ ClearedIsGone'
  <2>1. linked' = linked \ {cur} /\ \A t \in linked' : flags'[t] = flags[t]
      BY <1>1, <1>14 DEF Unlink
  <2>2. \A t \in doomed \cap linked' : t <= next[cur]
      BY <1>1, <1>2, <1>14, <2>1 DEF DoomedAhead, WalkAt
  <2> QED BY <1>14, <2>1, <2>2 DEF DoomedAhead, ClearedIsGone, WalkAt
<1>15. CASE WalkCleared \/ CallbackDone
  <2>1. cur \in linked
      BY <1>4, <1>15 DEF WalkCleared, CallbackDone, Covered, Sound, CursorValid
  <2> QED BY <1>14, <1>15, <2>1 DEF WalkCleared, CallbackDone
<1>16. ASSUME cur \in linked, cur \notin doomed, cur' = next[cur],
              phase \in {"walk", "callback"}, phase' = "walk",
              UNCHANGED <<linked, flags, doomed, passLast>>
       PROVE  DoomedAhead' /\ ClearedIsGone'
  <2>1. \A t \in doomed \cap linked : t <= next[cur]
      BY <1>1, <1>2, <1>16 DEF DoomedAhead, WalkAt
  <2> QED BY <1>16, <2>1 DEF DoomedAhead, ClearedIsGone, WalkAt
<1>17. CASE WalkNotDue
  <2>1. cur \in linked /\ phase = "walk" /\ "CLEARED" \notin flags[cur]
      BY <1>4, <1>17 DEF WalkNotDue
  <2>2. cur \notin doomed
      BY <2>1 DEF DoomedAhead
  <2> QED BY <1>16, <1>17, <2>1, <2>2 DEF WalkNotDue, listVars, timerVars
<1>18. ASSUME NEW delay, CallbackAgain(delay) PROVE DoomedAhead' /\ ClearedIsGone'
  <2>1. cur \in linked /\ cur \notin doomed
      BY <1>4, <1>18 DEF CallbackAgain, ClearedIsGone, Covered, Sound, CursorValid
  <2> QED BY <1>16, <1>18, <2>1 DEF CallbackAgain, listVars
<1>19. CASE CallbackReturn
    BY <1>15, <1>18, <1>19 DEF CallbackReturn
<1>20. CASE WalkDue
  <2>1. /\ cur \in linked /\ phase = "walk" /\ "CLEARED" \notin flags[cur]
        /\ phase' = "callback" /\ UNCHANGED <<linked, flags, doomed, passLast, cur>>
      BY <1>4, <1>20 DEF WalkDue, listVars, timerVars
  <2>2. cur \notin doomed
      BY <2>1 DEF DoomedAhead
  <2> QED BY <2>1, <2>2 DEF DoomedAhead, ClearedIsGone, WalkAt
<1>21. CASE AsyncReturn \/ WalkStart
    BY <1>21 DEF AsyncReturn, WalkStart, listVars, timerVars, DoomedAhead, ClearedIsGone, WalkAt
<1>22. CASE ClearReturn
    BY <1>22 DEF ClearReturn, listVars, timerVars, DoomedAhead, ClearedIsGone, WalkAt
<1>23. CASE WalkEnd
    BY <1>23 DEF WalkEnd, listVars, timerVars, DoomedAhead, ClearedIsGone, WalkAt
<1>24. CASE ProcessEnd
  <2>1. /\ phase = "async2" /\ phase' = "poll"
        /\ UNCHANGED <<linked, flags, doomed, passLast>>
      BY <1>24 DEF ProcessEnd, listVars, timerVars
  <2>2. doomed \cap linked = {}
      BY <1>1, <1>3, <2>1 DEF DoomedAhead
  <2> QED BY <2>1, <2>2 DEF DoomedAhead, ClearedIsGone
\* The rest.
<1>25. CASE PollFails
    BY <1>10, <1>25 DEF PollFails, listVars, timerVars
<1>26. CASE PollReturn
    BY <1>26 DEF PollReturn, DoomedAhead, ClearedIsGone
<1>27. CASE SweepBegins \/ SweepGoesOn
    BY <1>27 DEF SweepBegins, SweepStart, SweepGoesOn, SweepStep, SweepClearReturn,
                 SweepAsyncs, SweepAsyncReturn, DoomedAhead, ClearedIsGone
<1>28. CASE Tick \/ UNCHANGED vars
    BY <1>10, <1>28 DEF Tick, vars, listVars, timerVars, loopVars
<1> QED
    BY <1>12, <1>13, <1>15, <1>17, <1>19, <1>20, <1>21, <1>22, <1>23, <1>24,
       <1>25, <1>26, <1>27, <1>28 DEF Next, Pass

\* A timer marked cleared when a pass begins is not called and is gone when the
\* pass ends, unless APE_timer_setflags saves it; whatever else user code does.
THEOREM ClearedCorrect == ASSUME CallersSpareCursors PROVE Spec => []ClearedIsGone
<1>1. Init => DoomedAhead /\ ClearedIsGone
    BY DEF Init, DoomedAhead, ClearedIsGone
<1> QED
    BY <1>1, DoomedNext, CoveredAlways, PTL DEF Spec

-----------------------------------------------------------------------------
(* The asyncs.                                                             *)

Once(s) == \A i, j \in DOMAIN s : s[i] = s[j] => i = j
Held(s) == {s[i] : i \in DOMAIN s}

\* An async that was created and has not run is in exactly one of the two lists,
\* at one place, and nothing is detached but while asyncs run.
AsyncsOnce ==
    /\ Once(running) /\ Once(head_async)
    /\ Held(running) \cap Held(head_async) = {}
    /\ Held(running) \union Held(head_async) = {a \in Asyncs : fate[a] = "pending"}
    /\ phase \notin {"async1", "async2", "sweepasync"} => running = <<>>

\* APE_async puts a new one in front.
LEMMA InFrontOnce ==
    ASSUME NEW s \in Seq(Asyncs), NEW a \in Asyncs, Once(s), a \notin Held(s)
    PROVE  Once(<<a>> \o s) /\ Held(<<a>> \o s) = Held(s) \union {a}
<1> DEFINE u == <<a>> \o s
<1>1. /\ DOMAIN u = 1 .. Len(s) + 1 /\ DOMAIN s = 1 .. Len(s) /\ Len(s) \in Nat
      /\ u[1] = a
      /\ \A i \in 2 .. Len(s) + 1 : u[i] = s[i - 1]
    OBVIOUS
<1> HIDE DEF u
<1>2. \A i \in 2 .. Len(s) + 1 : i - 1 \in DOMAIN s /\ u[i] \in Held(s)
    BY <1>1 DEF Held
<1>3. Once(u)
  <2> SUFFICES ASSUME NEW i \in DOMAIN u, NEW j \in DOMAIN u, u[i] = u[j]
               PROVE  i = j
      BY DEF Once
  <2>1. CASE i = 1 \/ j = 1
      BY <1>1, <1>2, <2>1
  <2>2. CASE i # 1 /\ j # 1
    <3>1. /\ i - 1 \in DOMAIN s /\ j - 1 \in DOMAIN s /\ s[i - 1] = s[j - 1]
          /\ i \in Nat /\ j \in Nat
        BY <1>1, <1>2, <2>2
    <3>2. i - 1 = j - 1
        BY <3>1 DEF Once
    <3> QED BY <3>1, <3>2
  <2> QED BY <2>1, <2>2
<1>4. \A i \in DOMAIN s : i + 1 \in DOMAIN u /\ u[i + 1] = s[i]
    BY <1>1
<1>5. 1 \in DOMAIN u
    BY <1>1
<1>6. Held(s) \subseteq Held(u) /\ a \in Held(u)
    BY <1>1, <1>4, <1>5 DEF Held
<1>7. Held(u) \subseteq Held(s) \union {a}
    BY <1>1, <1>2 DEF Held
<1> QED BY <1>3, <1>6, <1>7 DEF u

\* The loops take the first one out.
LEMMA TailOnce ==
    ASSUME NEW s \in Seq(Asyncs), s # <<>>, Once(s)
    PROVE  /\ Head(s) \in Held(s) /\ Once(Tail(s))
           /\ Held(Tail(s)) = Held(s) \ {Head(s)}
<1>1. /\ DOMAIN s = 1 .. Len(s) /\ Len(s) \in Nat /\ Len(s) # 0 /\ Head(s) = s[1]
      /\ Tail(s) \in Seq(Asyncs) /\ DOMAIN Tail(s) = 1 .. Len(s) - 1
      /\ \A i \in 1 .. Len(s) - 1 : Tail(s)[i] = s[i + 1]
    OBVIOUS
<1>2. \A i \in DOMAIN Tail(s) : i + 1 \in DOMAIN s /\ i \in Nat /\ i + 1 # 1
    BY <1>1
<1>3. Once(Tail(s))
  <2> SUFFICES ASSUME NEW i \in DOMAIN Tail(s), NEW j \in DOMAIN Tail(s),
                      Tail(s)[i] = Tail(s)[j]
               PROVE  i = j
      BY DEF Once
  <2>1. s[i + 1] = s[j + 1]
      BY <1>1
  <2>2. i + 1 = j + 1
      BY <1>2, <2>1 DEF Once
  <2> QED BY <1>2, <2>2
<1>4. 1 \in DOMAIN s
    BY <1>1
<1>5. ASSUME NEW i \in DOMAIN Tail(s)
      PROVE  Tail(s)[i] \in Held(s) /\ Tail(s)[i] # Head(s)
    BY <1>1, <1>2, <1>4 DEF Held, Once
<1>6. ASSUME NEW i \in DOMAIN s, s[i] # Head(s)
      PROVE  s[i] \in Held(Tail(s))
  <2>1. i - 1 \in DOMAIN Tail(s) /\ Tail(s)[i - 1] = s[i]
      BY <1>1, <1>6
  <2> QED BY <2>1 DEF Held
<1>7. Held(Tail(s)) \subseteq Held(s) \ {Head(s)}
    BY <1>5 DEF Held
<1>8. Held(s) \ {Head(s)} \subseteq Held(Tail(s))
    BY <1>6 DEF Held
<1> QED BY <1>1, <1>3, <1>4, <1>7, <1>8 DEF Held

\* Every step keeps each async that waits in its one place, or runs it.
LEMMA AsyncsNext == Typed /\ AsyncsOnce /\ [Next]_vars => AsyncsOnce'
<1> SUFFICES ASSUME Typed, AsyncsOnce, [Next]_vars PROVE AsyncsOnce'
    OBVIOUS
<1>1. /\ running \in Seq(Asyncs) /\ head_async \in Seq(Asyncs)
      /\ fate \in [Asyncs -> {"new", "pending", "done"}]
      /\ Held(running) \subseteq Asyncs /\ Held(head_async) \subseteq Asyncs
    BY DEF Typed, TypeOK, Held
<1>2. Once(<<>>) /\ Held(<<>>) = {}
    BY DEF Once, Held
<1>3. ASSUME UNCHANGED <<running, head_async, fate, phase>> PROVE AsyncsOnce'
    BY <1>3 DEF AsyncsOnce, Once, Held
<1>4. ASSUME NEW a \in Asyncs, APE_async(a) PROVE AsyncsOnce'
  <2>1. /\ fate[a] = "new" /\ head_async' = <<a>> \o head_async
        /\ fate' = [fate EXCEPT ![a] = "pending"]
        /\ UNCHANGED <<running, phase>>
      BY <1>4 DEF APE_async, loopVars
  <2>2. a \notin Held(running) /\ a \notin Held(head_async)
      BY <2>1 DEF AsyncsOnce
  <2>3. Once(head_async') /\ Held(head_async') = Held(head_async) \union {a}
      BY <1>1, <2>1, <2>2, InFrontOnce DEF AsyncsOnce
  <2>4. {b \in Asyncs : fate'[b] = "pending"}
            = {b \in Asyncs : fate[b] = "pending"} \union {a}
      BY <1>1, <2>1
  <2>5. Once(running') /\ Held(running') = Held(running)
      BY <2>1 DEF AsyncsOnce
  <2> QED BY <2>1, <2>2, <2>3, <2>4, <2>5 DEF AsyncsOnce
\* process_async and del_async_all detach the list, when nothing is detached.
<1>5. ASSUME /\ running = <<>> /\ running' = head_async /\ head_async' = <<>>
             /\ fate' = fate /\ phase' \in {"async1", "async2", "sweepasync"}
      PROVE  AsyncsOnce'
  <2>1. /\ Once(running') /\ Once(head_async') /\ Held(head_async') = {}
        /\ Held(running') = Held(head_async) /\ Held(running) = {}
      BY <1>2, <1>5 DEF AsyncsOnce
  <2> QED BY <1>5, <2>1 DEF AsyncsOnce
<1>6. CASE ProcessStart \/ WalkEnd \/ SweepAsyncs
  <2>1. running = <<>>
      BY <1>6 DEF ProcessStart, WalkEnd, SweepAsyncs, AsyncsOnce
  <2> QED BY <1>5, <1>6, <2>1 DEF ProcessStart, WalkEnd, SweepAsyncs
<1>7. ASSUME /\ running # <<>> /\ running' = Tail(running)
             /\ fate' = [fate EXCEPT ![Head(running)] = "done"]
             /\ UNCHANGED <<head_async, phase>>
             /\ phase \in {"async1", "async2", "sweepasync"}
      PROVE  AsyncsOnce'
  <2>1. /\ Head(running) \in Held(running) /\ Once(running')
        /\ Held(running') = Held(running) \ {Head(running)}
      BY <1>1, <1>7, TailOnce DEF AsyncsOnce
  <2>2. {b \in Asyncs : fate'[b] = "pending"}
            = {b \in Asyncs : fate[b] = "pending"} \ {Head(running)}
      BY <1>1, <1>7, <2>1
  <2>3. Once(head_async') /\ Held(head_async') = Held(head_async)
      BY <1>7 DEF AsyncsOnce
  <2>4. Head(running) \notin Held(head_async)
      BY <2>1 DEF AsyncsOnce
  <2> QED BY <1>7, <2>1, <2>2, <2>3, <2>4 DEF AsyncsOnce
<1>8. CASE AsyncReturn
    BY <1>7, <1>8 DEF AsyncReturn
<1>9. CASE SweepAsyncReturn
  <2>1. CASE running = <<>>
    <3>1. UNCHANGED <<running, head_async, fate>>
        BY <1>9, <2>1 DEF SweepAsyncReturn
    <3> QED BY <2>1, <3>1 DEF AsyncsOnce, Once, Held
  <2>2. CASE running # <<>>
      BY <1>7, <1>9, <2>2 DEF SweepAsyncReturn
  <2> QED BY <2>1, <2>2
\* The others leave the lists alone; the asyncs are over when the phase changes.
<1>10. ASSUME UNCHANGED <<running, head_async, fate>>, running = <<>> PROVE AsyncsOnce'
    BY <1>10 DEF AsyncsOnce, Once, Held
<1>11. CASE UserCall
  <2>1. ASSUME \/ \E ms \in Delays : APE_timer_create(ms)
               \/ \E t \in Ids, force \in BOOLEAN : APE_timer_clearbyid(t, force)
               \/ \E t \in Ids : APE_timer_unprotect(t)
               \/ \E t \in Ids, fl \in SUBSET Flags : APE_timer_setflags(t, fl)
               \/ \E t \in Ids : APE_timer_destroy(t)
        PROVE  UNCHANGED <<running, head_async, fate, phase>>
      BY <2>1 DEF APE_timer_create, APE_timer_clearbyid, APE_timer_unprotect,
                  APE_timer_setflags, APE_timer_destroy, asyncVars, loopVars
  <2> QED BY <1>3, <1>4, <1>11, <2>1 DEF UserCall
<1>12. CASE \/ SweepBegins \/ SweepStep \/ SweepClearReturn \/ PollReturn \/ PollFails
            \/ WalkStart \/ WalkCleared \/ WalkDue \/ WalkNotDue \/ CallbackReturn
            \/ ClearReturn \/ ProcessEnd
  <2>1. UNCHANGED <<running, head_async, fate>>
      BY <1>12 DEF SweepBegins, SweepStart, SweepStep, SweepClearReturn, PollReturn,
         PollFails, WalkStart, WalkCleared, WalkDue, WalkNotDue, CallbackReturn,
         CallbackAgain, CallbackDone, ClearReturn, ProcessEnd, asyncVars
  <2>2. running = <<>>
      BY <1>12 DEF SweepBegins, SweepStart, SweepStep, SweepClearReturn, PollReturn,
         PollFails, WalkStart, WalkCleared, WalkDue, WalkNotDue, CallbackReturn,
         CallbackAgain, CallbackDone, ClearReturn, ProcessEnd, AsyncsOnce
  <2> QED BY <1>10, <2>1, <2>2
<1>13. CASE Tick \/ UNCHANGED vars
    BY <1>3, <1>13 DEF Tick, vars, asyncVars, loopVars
<1> QED
    BY <1>6, <1>8, <1>9, <1>11, <1>12, <1>13 DEF Next, SweepGoesOn, Pass

\* What waits in one place only is found once in the two lists together.
LEMMA AsyncsCounted == Typed /\ AsyncsOnce => AsyncConserved
<1> SUFFICES ASSUME Typed, AsyncsOnce, NEW a \in Asyncs
             PROVE  Cardinality({i \in DOMAIN (running \o head_async) :
                                    (running \o head_async)[i] = a})
                        = IF fate[a] = "pending" THEN 1 ELSE 0
    BY DEF AsyncConserved
<1> DEFINE owed == running \o head_async
           n == Len(running)
           at == {i \in DOMAIN owed : owed[i] = a}
<1>1. /\ n \in Nat /\ Len(head_async) \in Nat
      /\ DOMAIN running = 1 .. n /\ DOMAIN head_async = 1 .. Len(head_async)
      /\ DOMAIN owed = 1 .. n + Len(head_async)
      /\ \A i \in DOMAIN owed :
            owed[i] = IF i <= n THEN running[i] ELSE head_async[i - n]
    BY SMTT(30) DEF Typed, TypeOK
<1> HIDE DEF owed, n
<1>2. \A i \in DOMAIN owed :
         /\ i \in Nat
         /\ i <= n => i \in DOMAIN running /\ owed[i] = running[i]
         /\ ~(i <= n) => i - n \in DOMAIN head_async /\ owed[i] = head_async[i - n]
    BY <1>1
<1>3. \A i \in DOMAIN running : i \in DOMAIN owed /\ owed[i] = running[i]
    BY <1>1
<1>4. \A i \in DOMAIN head_async : n + i \in DOMAIN owed /\ owed[n + i] = head_async[i]
    BY <1>1
<1>5. \A i, j \in DOMAIN owed : owed[i] = a /\ owed[j] = a => i = j
  <2> SUFFICES ASSUME NEW i \in DOMAIN owed, NEW j \in DOMAIN owed,
                      owed[i] = a, owed[j] = a
               PROVE  i = j
      OBVIOUS
  <2>1. CASE i <= n /\ j <= n
      BY <1>2, <2>1 DEF AsyncsOnce, Once
  <2>2. CASE ~(i <= n) /\ ~(j <= n)
    <3>1. i - n = j - n
        BY <1>2, <2>2 DEF AsyncsOnce, Once
    <3> QED BY <1>1, <1>2, <3>1
  <2>3. CASE (i <= n) # (j <= n)
    <3>1. a \in Held(running) /\ a \in Held(head_async)
        BY <1>2, <2>3 DEF Held
    <3> QED BY <3>1 DEF AsyncsOnce
  <2> QED BY <2>1, <2>2, <2>3
<1>6. CASE fate[a] = "pending"
  <2>1. a \in Held(running) \/ a \in Held(head_async)
      BY <1>6 DEF AsyncsOnce
  <2>2. PICK i \in DOMAIN owed : owed[i] = a
      BY <1>3, <1>4, <2>1 DEF Held
  <2>3. at = {i}
      BY <1>5, <2>2
  <2> QED BY <1>6, <2>3, FS_Singleton DEF owed
<1>7. CASE fate[a] # "pending"
  <2>1. a \notin Held(running) /\ a \notin Held(head_async)
      BY <1>7 DEF AsyncsOnce
  <2>2. at = {}
      BY <1>2, <2>1 DEF Held
  <2> QED BY <1>7, <2>2, FS_EmptySet DEF owed
<1> QED BY <1>6, <1>7

\* An async is in exactly one place until it has run or been swept, also when
\* another async created it while the list was being run (process_async,
\* del_async_all), whatever callers destroy.
THEOREM AsyncCorrect == Spec => []AsyncConserved
<1>1. Init => AsyncsOnce
  <2> SUFFICES ASSUME Init PROVE AsyncsOnce
      OBVIOUS
  <2>1. running = <<>> /\ head_async = <<>> /\ \A a \in Asyncs : fate[a] # "pending"
      BY DEF Init
  <2> QED BY <2>1 DEF AsyncsOnce, Once, Held
<1> QED
    BY <1>1, TypedInit, TypedNext, AsyncsNext, AsyncsCounted, PTL DEF Spec
=============================================================================
