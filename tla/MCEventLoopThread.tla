-------------------------- MODULE MCEventLoopThread --------------------------
(***************************************************************************)
(* Instances of EventLoopThread for TLC: an owner with two objects,        *)
(* the loop of one of which is also quit by others.                        *)
(***************************************************************************)
EXTENDS EventLoopThread

CONSTANTS o1, o2

MCObjects == {o1, o2}
==============================================================================
