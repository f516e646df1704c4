------------------------------ MODULE MCPstm -------------------------------
(***************************************************************************)
(* Instance of Pstm for TLC.                                               *)
(***************************************************************************)
EXTENDS Pstm

CONSTANTS a1, a2, a3, a4

FourAddr == {a1, a2, a3, a4}
TwoAddr == {a1, a2}
MCPrio == {1}
=============================================================================
