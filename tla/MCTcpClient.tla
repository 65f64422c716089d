----------------------------- MODULE MCTcpClient -----------------------------
(***************************************************************************)
(* An instance of TcpClient for TLC: descriptors for an attempt and for    *)
(* connections the program has not given up, so that there may be none.    *)
(***************************************************************************)
EXTENDS TcpClient, TLC
==============================================================================
