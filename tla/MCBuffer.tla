------------------------------- MODULE MCBuffer -------------------------------
(***************************************************************************)
(* Instances of Buffer for TLC: two byte values, an array of four bytes to *)
(* begin with, and an extrabuf that holds less than the largest chunk.     *)
(***************************************************************************)
EXTENDS Buffer
===============================================================================
