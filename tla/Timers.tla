------------------------------- MODULE Timers -------------------------------
(***************************************************************************)
(* The timer list and the deferred calls ("asyncs") of ape_timers_next.c.  *)
(*                                                                         *)
(* One thread runs everything.  What makes the component hard is that      *)
(* ape_timers_process() walks an intrusive doubly linked list while the    *)
(* callbacks it invokes re-enter the API: they create timers, mark them    *)
(* cleared, destroy them, queue asyncs.  Every point where user code runs  *)
(* is therefore a phase of its own, and the API calls are actions enabled  *)
(* in those phases.                                                        *)
(*                                                                         *)
(* Time is counted in milliseconds: the 150 microseconds of early firing   *)
(* and the rounding of the timeout to the nearest millisecond vanish at    *)
(* that resolution.                                                        *)
(***************************************************************************)
EXTENDS Naturals, Sequences, FiniteSets

CONSTANTS
    MaxTimers,    \* bound: timers created in a behaviour
    MaxAsyncs,    \* bound: asyncs created in a behaviour
    MaxTime,      \* bound: the clock stops there
    Delays,       \* the "ms" arguments of APE_timer_create
    Periods,      \* the positive values a timer callback returns
    Resolution,   \* APE_TIMER_RESOLUTION: poll timeout when no timer is pending
    Floor,        \* smallest other poll timeout: 1, or 100 in low resolution
    Never,        \* UINT64_MAX, beyond any schedule
    DestroyFrom   \* the phases in which user code calls APE_timer_destroy

Ids    == 1 .. MaxTimers
Asyncs == 1 .. MaxAsyncs
NULL   == 0

Flags == {"PROTECTED", "CLEARED"}

Phases == {"poll", "events", "async1", "walk", "callback", "clear", "async2",
           "sweep", "sweepclear", "sweepasync"}

\* The phases in which code of the application runs.
UserPhases == {"events", "async1", "callback", "clear", "async2",
               "sweepclear", "sweepasync"}

\* The phases of ape_timers_process.
PassPhases == {"async1", "walk", "callback", "clear", "async2"}

ASSUME TimersAssumption ==
    /\ MaxTimers \in Nat /\ MaxAsyncs \in Nat /\ MaxTime \in Nat \ {0}
    /\ Delays \subseteq Nat
    /\ Periods \subseteq Nat \ {0}
    /\ Resolution \in Nat /\ Floor \in Nat
    /\ Never \in Nat /\ MaxTime < Never
    /\ \A d \in Delays \union Periods : MaxTime + d < Never
    /\ DestroyFrom \subseteq UserPhases

VARIABLES
    head, next, prev,      \* the list, a timer being named by its identifier
    linked,                \* the timers in the list
    last_identifier,
    flags, schedule, ticks,
    head_async, fate,      \* the async list, newest first; what became of each
    phase,
    running,               \* the asyncs detached from the list, still to run
    cur, nxt,              \* the list pointers held by the loops
    start, lastsample, inums,
    all,                   \* the sweep is APE_timers_destroy_all
    nexttimeout, deadline, \* of the poll
    now,                   \* the monotonic clock, which never reads 0
    passLast, passStart,   \* history: last_identifier and the time when the pass
    doomed                 \* began, and the timers that were marked cleared then

listVars  == <<head, next, prev, linked>>
timerVars == <<last_identifier, flags, schedule, ticks>>
asyncVars == <<head_async, fate>>
loopVars  == <<phase, running, cur, nxt, start, lastsample, inums, all,
               nexttimeout, deadline>>
passVars  == <<passLast, passStart, doomed>>
vars      == <<listVars, timerVars, asyncVars, loopVars, passVars, now>>

Lower(a, b)  == IF a < b THEN a ELSE b
Higher(a, b) == IF a < b THEN b ELSE a

-----------------------------------------------------------------------------
(* The list.                                                               *)

\* APE_timer_create links the new timer in front of the head.
LinkFirst(t) ==
    /\ head' = t
    /\ next' = [next EXCEPT ![t] = head]
    /\ prev' = [u \in Ids |-> IF u = t THEN NULL
                              ELSE IF u = head THEN t ELSE prev[u]]
    /\ linked' = linked \union {t}

\* Mutant of Unlink: timer->next->prev is left pointing at the freed timer.
UnlinkForgetsPrev(t) ==
    /\ head' = IF prev[t] = NULL THEN next[t] ELSE head
    /\ next' = [u \in Ids |-> IF u = prev[t] THEN next[t] ELSE next[u]]
    /\ linked' = linked \ {t}
    /\ UNCHANGED <<prev, timerVars>>

\* ape_timer_destroy; what the freed timer held is forgotten.
Unlink(t) ==
    /\ head' = IF prev[t] = NULL THEN next[t] ELSE head
    /\ next' = [u \in Ids |-> IF u = t THEN NULL
                              ELSE IF u = prev[t] THEN next[t] ELSE next[u]]
    /\ prev' = [u \in Ids |-> IF u = t THEN NULL
                              ELSE IF u = next[t] THEN prev[t] ELSE prev[u]]
    /\ linked' = linked \ {t}
    /\ flags' = [flags EXCEPT ![t] = {}]
    /\ schedule' = [schedule EXCEPT ![t] = 0]
    /\ ticks' = [ticks EXCEPT ![t] = 0]
    /\ UNCHANGED last_identifier

Init ==
    /\ head = NULL
    /\ next = [t \in Ids |-> NULL]
    /\ prev = [t \in Ids |-> NULL]
    /\ linked = {}
    /\ last_identifier = 0
    /\ flags = [t \in Ids |-> {}]
    /\ schedule = [t \in Ids |-> 0]
    /\ ticks = [t \in Ids |-> 0]
    /\ head_async = <<>>
    /\ fate = [a \in Asyncs |-> "new"]
    /\ phase = "events"
    /\ running = <<>>
    /\ cur = NULL /\ nxt = NULL
    /\ start = 0 /\ lastsample = 0 /\ inums = Never
    /\ all = FALSE
    /\ nexttimeout = 0 /\ deadline = 0
    /\ now = 1
    /\ passLast = 0 /\ passStart = 0 /\ doomed = {}

-----------------------------------------------------------------------------
(* The API, as called by event handlers, timer callbacks, async callbacks  *)
(* and clear functions.                                                    *)

\* Code of the application is running: the phases of an async loop also
\* have a moment, before the next async, when it is not.
InUserCode ==
    /\ phase \in UserPhases
    /\ phase \in {"async1", "async2", "sweepasync"} => running # <<>>

APE_timer_create(ms) ==
    LET t == last_identifier + 1 IN
    /\ InUserCode
    /\ last_identifier < MaxTimers
    /\ last_identifier' = t
    /\ LinkFirst(t)
    /\ flags' = [flags EXCEPT ![t] = {"PROTECTED"}]
    /\ ticks' = [ticks EXCEPT ![t] = ms]
    /\ schedule' = [schedule EXCEPT ![t] = now + ms]
    /\ UNCHANGED <<asyncVars, loopVars, passVars, now>>

\* Mutant of APE_timer_clearbyid: destroys the timer instead of marking it.
ClearAtOnce(t, force) ==
    /\ InUserCode
    /\ t \in linked
    /\ "PROTECTED" \in flags[t] => force
    /\ Unlink(t)
    /\ UNCHANGED <<asyncVars, loopVars, passVars, now>>

APE_timer_clearbyid(t, force) ==
    /\ InUserCode
    /\ t \in linked
    /\ "PROTECTED" \in flags[t] => force
    /\ flags' = [flags EXCEPT ![t] = @ \union {"CLEARED"}]
    /\ UNCHANGED <<listVars, last_identifier, schedule, ticks, asyncVars,
                   loopVars, passVars, now>>

APE_timer_unprotect(t) ==
    /\ InUserCode
    /\ t \in linked
    /\ flags' = [flags EXCEPT ![t] = @ \ {"PROTECTED"}]
    /\ UNCHANGED <<listVars, last_identifier, schedule, ticks, asyncVars,
                   loopVars, passVars, now>>

\* The flags are replaced, not merged: a timer marked cleared may be saved.
APE_timer_setflags(t, fl) ==
    /\ InUserCode
    /\ t \in linked
    /\ flags' = [flags EXCEPT ![t] = fl]
    /\ doomed' = IF "CLEARED" \in fl THEN doomed ELSE doomed \ {t}
    /\ UNCHANGED <<listVars, last_identifier, schedule, ticks, asyncVars,
                   loopVars, passLast, passStart, now>>

\* The timer may be any timer of the list but the one whose callback is
\* running, which returns 0 or uses APE_timer_clearbyid instead.  Calls made
\* by its clear function are calls the caller makes right after this one.
APE_timer_destroy(t) ==
    /\ InUserCode
    /\ phase \in DestroyFrom
    /\ t \in linked
    /\ phase = "callback" => t # cur
    /\ Unlink(t)
    /\ UNCHANGED <<asyncVars, loopVars, passVars, now>>

\* APE_async followed by APE_async_setclearfunc, which process_async relies
\* on: it calls the clear function without testing it.
APE_async(a) ==
    /\ InUserCode
    /\ fate[a] = "new"
    /\ \A b \in Asyncs : b < a => fate[b] # "new"
    /\ head_async' = <<a>> \o head_async
    /\ fate' = [fate EXCEPT ![a] = "pending"]
    /\ UNCHANGED <<listVars, timerVars, loopVars, passVars, now>>

-----------------------------------------------------------------------------
(* APE_timers_destroy_unprotected and APE_timers_destroy_all, called        *)
(* outside of a pass.                                                      *)

SweepStart(everything) ==
    /\ phase = "events"
    /\ phase' = "sweep"
    /\ all' = everything
    /\ cur' = head
    /\ UNCHANGED <<listVars, timerVars, asyncVars, running, nxt, start,
                   lastsample, inums, nexttimeout, deadline, now, passVars>>

\* The successor is read before the clear function runs.
SweepStep ==
    /\ phase = "sweep"
    /\ cur # NULL
    /\ IF all \/ "PROTECTED" \notin flags[cur]
       THEN /\ Unlink(cur)
            /\ nxt' = next[cur] /\ cur' = NULL
            /\ phase' = "sweepclear"
       ELSE /\ cur' = next[cur]
            /\ UNCHANGED <<listVars, timerVars, nxt, phase>>
    /\ UNCHANGED <<asyncVars, running, start, lastsample, inums,
                   all, nexttimeout, deadline, now, passVars>>

SweepClearReturn ==
    /\ phase = "sweepclear"
    /\ phase' = "sweep"
    /\ cur' = nxt
    /\ nxt' = NULL
    /\ UNCHANGED <<listVars, timerVars, asyncVars, running, start, lastsample,
                   inums, all, nexttimeout, deadline, now, passVars>>

\* Mutant of SweepAsyncs: frees the asyncs without their clear functions.
SweepDropsAsyncs ==
    /\ phase = "sweep"
    /\ cur = NULL
    /\ phase' = "sweepasync"
    /\ head_async' = <<>>
    /\ UNCHANGED <<listVars, timerVars, fate, running, cur, nxt, start,
                   lastsample, inums, all, nexttimeout, deadline, now, passVars>>

\* del_async_all detaches the list, then runs the clear functions.
SweepAsyncs ==
    /\ phase = "sweep"
    /\ cur = NULL
    /\ phase' = "sweepasync"
    /\ running' = head_async
    /\ head_async' = <<>>
    /\ UNCHANGED <<listVars, timerVars, fate, cur, nxt, start, lastsample,
                   inums, all, nexttimeout, deadline, now, passVars>>

SweepAsyncReturn ==
    /\ phase = "sweepasync"
    /\ IF running = <<>>
       THEN /\ phase' = "events"
            /\ all' = FALSE
            /\ UNCHANGED <<running, fate>>
       ELSE /\ running' = Tail(running)
            /\ fate' = [fate EXCEPT ![Head(running)] = "done"]
            /\ UNCHANGED <<phase, all>>
    /\ UNCHANGED <<listVars, timerVars, head_async, cur, nxt, start,
                   lastsample, inums, nexttimeout, deadline, now, passVars>>

-----------------------------------------------------------------------------
(* ape_timers_process.                                                     *)

\* Mutant of PollReturn: lastsample is not reset, as if it were static.
PollReturnKeepsSample ==
    /\ phase = "poll"
    /\ phase' = "events"
    /\ nexttimeout' = 0 /\ deadline' = 0
    /\ passLast' = 0 /\ passStart' = 0 /\ doomed' = {}
    /\ UNCHANGED <<listVars, timerVars, asyncVars, running, cur, nxt, start,
                   lastsample, inums, all, now>>

\* epoll_wait returns, for I/O at any moment and on the timeout at the latest.
PollReturn ==
    /\ phase = "poll"
    /\ phase' = "events"
    /\ lastsample' = 0 /\ nexttimeout' = 0 /\ deadline' = 0
    /\ passLast' = 0 /\ passStart' = 0 /\ doomed' = {}
    /\ UNCHANGED <<listVars, timerVars, asyncVars, running, cur, nxt, start,
                   inums, all, now>>

\* epoll_wait fails, interrupted: the loop polls again without looking at the
\* timers, for the whole of the same timeout.
PollFails ==
    /\ phase = "poll"
    /\ deadline' = now + nexttimeout
    /\ UNCHANGED <<listVars, timerVars, asyncVars, phase, running, cur, nxt,
                   start, lastsample, inums, all, nexttimeout, now, passVars>>

\* History: what there was when the pass began.
BeginPass ==
    /\ passLast' = last_identifier
    /\ passStart' = now
    /\ doomed' = {t \in linked : "CLEARED" \in flags[t]}

\* Mutant of ProcessStart: the walk skips the head.
ProcessSkipsHead ==
    /\ phase = "events"
    /\ phase' = "async1"
    /\ cur' = IF head = NULL THEN NULL ELSE next[head]
    /\ BeginPass
    /\ running' = head_async
    /\ head_async' = <<>>
    /\ UNCHANGED <<listVars, timerVars, fate, nxt, start, lastsample, inums,
                   all, nexttimeout, deadline, now>>

\* The head is read before the first process_async; that one detaches the
\* async list before it runs it.
ProcessStart ==
    /\ phase = "events"
    /\ phase' = "async1"
    /\ cur' = head
    /\ inums' = Never
    /\ BeginPass
    /\ running' = head_async
    /\ head_async' = <<>>
    /\ UNCHANGED <<listVars, timerVars, fate, nxt, start, lastsample, all,
                   nexttimeout, deadline, now>>

\* Mutant of AsyncReturn: head_async is reset after the loop.
AsyncResetsAfterLoop ==
    /\ phase \in {"async1", "async2"}
    /\ running # <<>>
    /\ running' = Tail(running)
    /\ fate' = [fate EXCEPT ![Head(running)] = "done"]
    /\ head_async' = IF Tail(running) = <<>> THEN <<>> ELSE head_async
    /\ UNCHANGED <<listVars, timerVars, phase, cur, nxt, start, lastsample,
                   inums, all, nexttimeout, deadline, now, passVars>>

AsyncReturn ==
    /\ phase \in {"async1", "async2"}
    /\ running # <<>>
    /\ running' = Tail(running)
    /\ fate' = [fate EXCEPT ![Head(running)] = "done"]
    /\ UNCHANGED <<listVars, timerVars, head_async, phase, cur, nxt, start,
                   lastsample, inums, all, nexttimeout, deadline, now, passVars>>

\* Mutant of WalkStart: the head is read after the asyncs have run.
WalkRereadsHead ==
    /\ phase = "async1"
    /\ running = <<>>
    /\ phase' = "walk"
    /\ cur' = head
    /\ UNCHANGED <<listVars, timerVars, asyncVars, running, nxt, start,
                   lastsample, inums, all, nexttimeout, deadline, now, passVars>>

WalkStart ==
    /\ phase = "async1"
    /\ running = <<>>
    /\ phase' = "walk"
    /\ UNCHANGED <<listVars, timerVars, asyncVars, running, cur, nxt, start,
                   lastsample, inums, all, nexttimeout, deadline, now, passVars>>

\* Mutant of WalkCleared: without the "continue", the successor is skipped.
WalkClearedSkips ==
    /\ phase = "walk"
    /\ cur # NULL
    /\ "CLEARED" \in flags[cur]
    /\ Unlink(cur)
    /\ nxt' = IF next[cur] = NULL THEN NULL ELSE next[next[cur]]
    /\ cur' = NULL
    /\ phase' = "clear"
    /\ UNCHANGED <<asyncVars, running, start, lastsample,
                   inums, all, nexttimeout, deadline, now, passVars>>

\* A cleared timer is destroyed when the walk meets it.
WalkCleared ==
    /\ phase = "walk"
    /\ cur # NULL
    /\ "CLEARED" \in flags[cur]
    /\ Unlink(cur)
    /\ nxt' = next[cur] /\ cur' = NULL
    /\ phase' = "clear"
    /\ UNCHANGED <<asyncVars, running, start, lastsample,
                   inums, all, nexttimeout, deadline, now, passVars>>

WalkDue ==
    /\ phase = "walk"
    /\ cur # NULL
    /\ "CLEARED" \notin flags[cur]
    /\ now >= schedule[cur]
    /\ start' = now
    /\ phase' = "callback"
    /\ UNCHANGED <<listVars, timerVars, asyncVars, running, cur, nxt,
                   lastsample, inums, all, nexttimeout, deadline, now, passVars>>

WalkNotDue ==
    /\ phase = "walk"
    /\ cur # NULL
    /\ "CLEARED" \notin flags[cur]
    /\ now < schedule[cur]
    /\ inums' = Lower(inums, schedule[cur])
    /\ cur' = next[cur]
    /\ UNCHANGED <<listVars, timerVars, asyncVars, phase, running, nxt, start,
                   lastsample, all, nexttimeout, deadline, now, passVars>>

\* Mutant of CallbackAgain: the rescheduled timer does not enter the minimum.
AgainUncounted(delay) ==
    /\ phase = "callback"
    /\ ticks' = [ticks EXCEPT ![cur] = delay]
    /\ schedule' = [schedule EXCEPT ![cur] = start + delay]
    /\ lastsample' = now
    /\ cur' = next[cur]
    /\ phase' = "walk"
    /\ start' = 0
    /\ UNCHANGED <<listVars, last_identifier, flags, asyncVars, running, nxt,
                   inums, all, nexttimeout, deadline, now, passVars>>

\* The callback asks to be called again: after the same delay (-1) or after
\* the delay it returns.
CallbackAgain(delay) ==
    /\ phase = "callback"
    /\ ticks' = [ticks EXCEPT ![cur] = delay]
    /\ schedule' = [schedule EXCEPT ![cur] = start + delay]
    /\ lastsample' = now
    /\ inums' = Lower(inums, start + delay)
    /\ cur' = next[cur]
    /\ phase' = "walk"
    /\ start' = 0
    /\ UNCHANGED <<listVars, last_identifier, flags, asyncVars, running, nxt,
                   all, nexttimeout, deadline, now, passVars>>

CallbackDone ==
    /\ phase = "callback"
    /\ Unlink(cur)
    /\ nxt' = next[cur] /\ cur' = NULL
    /\ phase' = "clear"
    /\ start' = 0
    /\ UNCHANGED <<asyncVars, running, lastsample, inums, all, nexttimeout, deadline, now, passVars>>

\* The clear function returns: ape_timer_destroy frees the timer and hands
\* the walk the successor it had read.
ClearReturn ==
    /\ phase = "clear"
    /\ phase' = "walk"
    /\ cur' = nxt
    /\ nxt' = NULL
    /\ UNCHANGED <<listVars, timerVars, asyncVars, running, start, lastsample,
                   inums, all, nexttimeout, deadline, now, passVars>>

WalkEnd ==
    /\ phase = "walk"
    /\ cur = NULL
    /\ phase' = "async2"
    /\ running' = head_async
    /\ head_async' = <<>>
    /\ UNCHANGED <<listVars, timerVars, fate, cur, nxt, start, lastsample,
                   inums, all, nexttimeout, deadline, now, passVars>>

\* Mutant of TimeoutFor: an overdue timer gives a negative timeout.
TimeoutUnfloored(sched, sample) == sched - sample

\* (int)((inums - lastsample + 500000) / 1000000): an overdue timer makes the
\* unsigned difference wrap to a negative int, which the floor replaces.
TimeoutFor(sched, sample) ==
    Higher(Floor, IF sched > sample THEN sched - sample ELSE 0)

\* The pass ends: its result is the timeout of the poll that follows.
ProcessEnd ==
    LET sample == IF lastsample = 0 THEN now ELSE lastsample
        timeout == IF inums = Never THEN Resolution
                   ELSE TimeoutFor(inums, sample)
    IN
    /\ phase = "async2"
    /\ running = <<>>
    /\ phase' = "poll"
    /\ lastsample' = sample
    /\ nexttimeout' = timeout
    /\ deadline' = now + timeout
    /\ inums' = Never
    /\ UNCHANGED <<listVars, timerVars, asyncVars, running, cur, nxt, start,
                   all, now, passVars>>

\* Time passes while user code runs and in the poll, until its timeout.
Tick ==
    /\ now < MaxTime
    /\ InUserCode \/ (phase = "poll" /\ now < deadline)
    /\ now' = now + 1
    /\ UNCHANGED <<listVars, timerVars, asyncVars, loopVars, passVars>>

-----------------------------------------------------------------------------
UserCall ==
    \/ \E ms \in Delays : APE_timer_create(ms)
    \/ \E t \in Ids, force \in BOOLEAN : APE_timer_clearbyid(t, force)
    \/ \E t \in Ids : APE_timer_unprotect(t)
    \/ \E t \in Ids, fl \in SUBSET Flags : APE_timer_setflags(t, fl)
    \/ \E t \in Ids : APE_timer_destroy(t)
    \/ \E a \in Asyncs : APE_async(a)

SweepBegins == \E everything \in BOOLEAN : SweepStart(everything)

SweepGoesOn ==
    \/ SweepStep \/ SweepClearReturn \/ SweepAsyncs \/ SweepAsyncReturn

\* A callback returns -1, a delay, or 0.
CallbackReturn ==
    \/ phase = "callback" /\ CallbackAgain(ticks[cur])
    \/ \E delay \in Periods : CallbackAgain(delay)
    \/ CallbackDone

Pass ==
    \/ ProcessStart \/ AsyncReturn \/ WalkStart
    \/ WalkCleared \/ WalkDue \/ WalkNotDue \/ CallbackReturn \/ ClearReturn
    \/ WalkEnd \/ ProcessEnd

Next ==
    \/ UserCall
    \/ SweepBegins
    \/ SweepGoesOn
    \/ PollReturn
    \/ PollFails
    \/ Pass
    \/ Tick

Spec == Init /\ [][Next]_vars

\* The thread keeps running: the poll returns, a callback returns, the loops
\* take their next step, and after finitely many events and sweeps the pass
\* begins.  What the application calls, and when the clock ticks, is not fair.
Fairness ==
    /\ WF_vars(PollReturn)
    /\ WF_vars(Pass)
    /\ WF_vars(SweepGoesOn)
    /\ SF_vars(ProcessStart)

FairSpec == Spec /\ Fairness

-----------------------------------------------------------------------------
(* Properties.                                                             *)

TypeOK ==
    /\ head \in Ids \union {NULL}
    /\ next \in [Ids -> Ids \union {NULL}]
    /\ prev \in [Ids -> Ids \union {NULL}]
    /\ linked \subseteq Ids
    /\ last_identifier \in 0 .. MaxTimers
    /\ flags \in [Ids -> SUBSET Flags]
    /\ schedule \in [Ids -> Nat]
    /\ ticks \in [Ids -> Nat]
    /\ head_async \in Seq(Asyncs)
    /\ fate \in [Asyncs -> {"new", "pending", "done"}]
    /\ phase \in Phases
    /\ running \in Seq(Asyncs)
    /\ cur \in Ids \union {NULL}
    /\ nxt \in Ids \union {NULL}
    /\ start \in 0 .. MaxTime
    /\ lastsample \in 0 .. MaxTime
    /\ inums \in Nat
    /\ all \in BOOLEAN
    /\ nexttimeout \in Nat
    /\ deadline \in Nat
    /\ now \in 0 .. MaxTime
    /\ passLast \in 0 .. MaxTimers
    /\ passStart \in 0 .. MaxTime
    /\ doomed \subseteq Ids

\* The pointers thread exactly the timers that exist, newest first, whatever
\* the callbacks created and destroyed while the walk was under way:
\* APE_timer_create and ape_timer_destroy keep head, next and prev consistent.
Ordered ==
    /\ \A t \in linked : t <= last_identifier
    /\ \A t \in linked : t <= head
    /\ \A t, u \in linked : u < t => u <= next[t]
HeadLinked == head = NULL \/ head \in linked
NextLinked == \A t \in linked :
    next[t] = NULL \/ (next[t] \in linked /\ next[t] < t /\ prev[next[t]] = t)
PrevLinked == \A t \in linked :
    IF prev[t] = NULL THEN t = head
                      ELSE prev[t] \in linked /\ next[prev[t]] = t
ListIntegrity == Ordered /\ HeadLinked /\ NextLinked /\ PrevLinked

\* The pointers the loops of ape_timers_process and APE_timers_destroy_* keep
\* across user code (the head read before the first asyncs, the timer whose
\* callback runs, the successor ape_timer_destroy read before the clear
\* function) name timers that are still in the list when they are used.
CursorValid ==
    /\ phase \in {"async1", "walk", "callback", "sweep"} =>
          cur = NULL \/ cur \in linked
    /\ phase = "callback" => cur # NULL
    /\ phase \in {"clear", "sweepclear"} => nxt = NULL \/ nxt \in linked

\* The callers leave alone the timers a loop still points at: nothing is
\* destroyed by the asyncs that run after ape_timers_process has read the head,
\* nor by a clear function.
CallersSpareCursors == DestroyFrom \cap {"async1", "clear", "sweepclear"} = {}

\* When the poll began, and when a poll is due to wake that is late for a
\* timer by no more than the time since the pass began.
PollStart == deadline - nexttimeout
LateByThePass(t) == schedule[t] + (PollStart - passStart)

\* ape_timers_process subtracts a clock reading that may be older than its end
\* (lastsample is taken when a callback returns, and the later callbacks and
\* asyncs take time), and a poll that fails starts anew: the poll does oversleep.
\* By the clock, it wakes for a timer that existed when the pass began no later
\* after its schedule than the time from the beginning of the pass to that of
\* the poll, or after the smallest timeout there is; although callbacks
\* reschedule, clear and destroy timers while the minimum is being computed.
OversleepBounded ==
    phase = "poll" =>
        \A t \in linked : t <= passLast =>
            deadline <= Higher(PollStart + Floor, LateByThePass(t))

\* Why: inums is below the schedule of every timer the walk has left behind,
\* and the walk never reaches a timer the pass created.
WalkAt == IF phase = "clear" THEN nxt ELSE cur
Scheduled ==
    \A t \in linked : schedule[t] < Never /\ ticks[t] \in Delays \union Periods
MinimumSoFar ==
    phase \in PassPhases =>
        /\ WalkAt <= passLast /\ passLast <= last_identifier
        /\ phase = "async2" => WalkAt = NULL
        /\ \A t \in linked : WalkAt < t /\ t <= passLast => inums <= schedule[t]

\* Why the pass is what it is late by: the reading is not from before it, and
\* the timeout is computed from the minimum.
SampleOfPass ==
    /\ passStart <= now
    /\ phase \in PassPhases =>
          lastsample = 0 \/ passStart <= lastsample
    /\ phase \notin PassPhases \union {"poll"} => lastsample = 0
    /\ phase = "poll" =>
          /\ passStart + nexttimeout <= deadline
          /\ \A t \in linked : t <= passLast =>
                nexttimeout <= TimeoutFor(schedule[t], passStart)

\* APE_TIMER_RESOLUTION, "8 /* ms */" (ape_common.h): the poll wakes for every
\* timer, those created during the pass included, within the resolution, but
\* for the time since the pass began.
WithinResolution ==
    phase = "poll" =>
        \A t \in linked :
            deadline <= Higher(PollStart, LateByThePass(t)) + Resolution

\* process_async detaches the list before it runs it: an async is in exactly
\* one place until it has run or been swept, also when it was created by
\* another async ("in the case new async are created within the loop").
AsyncConserved ==
    LET owed == running \o head_async IN
    \A a \in Asyncs :
        Cardinality({i \in DOMAIN owed : owed[i] = a})
            = IF fate[a] = "pending" THEN 1 ELSE 0

\* A pass calls the timers that existed when it began, and no other: a
\* callback that creates a timer due at once does not extend the pass it
\* runs in, so the pass cannot go on for ever.
PassIsFinite ==
    [][phase = "walk" /\ phase' = "callback" => cur <= passLast]_vars

\* A timer that is marked cleared when a pass begins, and that nobody saves with
\* APE_timer_setflags, is not called in that pass and is gone when it ends,
\* wherever it is in the list and whatever callbacks link and unlink around it.
ClearedIsGone ==
    /\ phase = "callback" => cur \notin doomed
    /\ phase = "poll" => doomed \cap linked = {}

\* Why: the walk has the doomed ones that are left ahead of it.
DoomedAhead ==
    /\ phase \in PassPhases =>
          \A t \in doomed \cap linked : t <= WalkAt /\ "CLEARED" \in flags[t]
    /\ phase \notin PassPhases \union {"poll"} => doomed = {}
    /\ \A t \in doomed : t <= passLast

\* A timer that is due is served: it is called and rescheduled, or destroyed.
DueTimerServed ==
    \A t \in Ids :
        (t \in linked /\ schedule[t] <= now)
            ~> (t \notin linked \/ schedule[t] > now
                \/ (phase = "callback" /\ cur = t))

\* Every async gets its turn: it runs, or a sweep calls its clear function.
AsyncServed == \A a \in Asyncs : (fate[a] = "pending") ~> (fate[a] # "pending")
=============================================================================
