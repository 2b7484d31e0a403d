----------------------------- MODULE MCSockets ------------------------------
(* Instances of Sockets for TLC. *)
EXTENDS Sockets, TLC

CONSTANTS s1, s2, s3

Symmetry == Permutations(Sockets)

\* Every call and every failure, but for what frees a structure in use.
MostUses   == {"listen", "connect", "dns", "udp", "write", "delay", "destroy",
               "listenfail", "bindfail", "closeserver"}

\* What leaves every socket its own descriptor.
ReuseUses  == {"listen", "connect", "dns", "write", "destroy"}

LiveUses   == {"listen", "connect", "write", "delay"}
Impatient  == {"connect", "udp", "impatient"}
=============================================================================
