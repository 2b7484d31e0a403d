----------------------------- MODULE ByteStream -----------------------------
(***************************************************************************)
(* What the sending side of a socket promises: the bytes the API accepted  *)
(* go out once each and in that order; they go out without a gap up to     *)
(* where the stream ends; a queued shutdown ends it only when everything   *)
(* accepted before it has gone out.                                        *)
(***************************************************************************)
EXTENDS Integers, Sequences

VARIABLES
    accepted,   \* the bytes taken from the application, in order
    sent,       \* the bytes given to the kernel
    asked,      \* how many were accepted when a shutdown was queued, or -1
    ended       \* "no", "orderly": by a shutdown, "cut": otherwise

vars == <<accepted, sent, asked, ended>>

Init == accepted = <<>> /\ sent = <<>> /\ asked = -1 /\ ended = "no"

\* Some bytes are taken, and then the limit on what is buffered may cut.
Accept ==
    /\ ended = "no"
    /\ Len(accepted') > Len(accepted)
    /\ SubSeq(accepted', 1, Len(accepted)) = accepted
    /\ ended' \in {"no", "cut"}
    /\ UNCHANGED <<sent, asked>>

Transmit ==
    /\ ended = "no"
    /\ \E n \in Len(sent) + 1 .. Len(accepted) :
          sent' = SubSeq(accepted, 1, n)
    /\ UNCHANGED <<accepted, asked, ended>>

Ask ==
    /\ ended = "no" /\ asked = -1
    /\ asked' = Len(accepted)
    /\ UNCHANGED <<accepted, sent, ended>>

\* All that a shutdown must wait for has gone out.
EndOrderly ==
    /\ ended = "no"
    /\ sent = accepted \/ (asked >= 0 /\ Len(sent) >= asked)
    /\ ended' = "orderly"
    /\ UNCHANGED <<accepted, sent, asked>>

Cut ==
    /\ ended = "no"
    /\ ended' = "cut"
    /\ UNCHANGED <<accepted, sent, asked>>

Next == Accept \/ Transmit \/ Ask \/ EndOrderly \/ Cut

Spec == Init /\ [][Next]_vars
=============================================================================
