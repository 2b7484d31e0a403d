----------------------------- MODULE MCSendPath -----------------------------
(* Instances of SendPath for TLC. *)
EXTENDS SendPath

MCLengths == {1, 3}
=============================================================================
