---------------------------- MODULE MCEpollPoller ----------------------------
(***************************************************************************)
(* Instances of EpollPoller for TLC: two channels and an array that begins *)
(* with room for one, so that it fills up and both are ready at once.      *)
(***************************************************************************)
EXTENDS EpollPoller

CONSTANTS c1, c2

TwoChannels == {c1, c2}
==============================================================================
