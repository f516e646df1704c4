----------------------------- MODULE MCSession -----------------------------
(***************************************************************************)
(* Instance of Session for TLC.                                            *)
(***************************************************************************)
EXTENDS Session

CONSTANTS a1, a2

MCAddr == {a1, a2}
MCPrio == {1}
BothBackends == {"expat", "libxml2"}
Expat == {"expat"}
=============================================================================
