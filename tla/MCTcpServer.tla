----------------------------- MODULE MCTcpServer -----------------------------
(***************************************************************************)
(* Instances of TcpServer for TLC: more clients than descriptors, so that  *)
(* accept() fails and descriptors are used again.                          *)
(***************************************************************************)
EXTENDS TcpServer, TLC
==============================================================================
