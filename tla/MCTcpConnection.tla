--------------------------- MODULE MCTcpConnection ---------------------------
(***************************************************************************)
(* Instances of TcpConnection for TLC.  The kernel holds less than the     *)
(* program sends, so that writes are partial and block; the high water     *)
(* mark is crossed by what is left.                                        *)
(***************************************************************************)
EXTENDS TcpConnection, TLC
==============================================================================
