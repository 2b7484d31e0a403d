------------------------------ MODULE MCEvents ------------------------------
(* Instances of Events for TLC. *)
EXTENDS Events

\* Two descriptors for a socket and for c-ares, an array of one event that
\* grows with the second.
AllHandlers == {"epoll", "kqueue", "select"}
=============================================================================
