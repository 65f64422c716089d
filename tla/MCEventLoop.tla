----------------------------- MODULE MCEventLoop -----------------------------
(***************************************************************************)
(* Instances of EventLoop for TLC: two other threads, one user channel.    *)
(***************************************************************************)
EXTENDS EventLoop

CONSTANTS c1, c2

MCCallers == {c1, c2}
==============================================================================
