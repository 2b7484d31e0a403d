------------------------------ MODULE MCTimers ------------------------------
(* Timers on a small instance.                                             *)
EXTENDS Timers

MCDelays  == {0, 2}
MCPeriods == {2}
\* Callers that leave the timers a loop still points at alone.
SafeCallers == {"events", "callback", "async2", "sweepasync"}

\* A timer due at once, and one due behind the resolution.
WakeupDelays == {0, 9}
=============================================================================
