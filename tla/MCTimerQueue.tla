----------------------------- MODULE MCTimerQueue -----------------------------
(***************************************************************************)
(* Instances of TimerQueue for TLC.  Two ticks to a microsecond show the   *)
(* truncation, a shortest delay of one microsecond stands for the hundred. *)
(***************************************************************************)
EXTENDS TimerQueue
==============================================================================
