--------------------------- MODULE MCTcpConnection ---------------------------
(***************************************************************************)
(* Message lengths for TcpConnection's runs: one message the kernel may    *)
(* split and one that it takes whole.                                      *)
(***************************************************************************)
EXTENDS TcpConnection, TLC

CONSTANTS m1, m2

MCLength == m1 :> 2 @@ m2 :> 1
==============================================================================
