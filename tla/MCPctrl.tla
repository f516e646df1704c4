------------------------------ MODULE MCPctrl ------------------------------
(***************************************************************************)
(* Instance of Pctrl for TLC, with two callers.  One calls the functions   *)
(* in any order, as long as there is a control block.  The other is the    *)
(* state machine of Pstm, reading any document at all: with elements of    *)
(* other namespaces in text, with repeated <files> and <pieces>, and       *)
(* breaking off anywhere.  A behaviour is one of the two, chosen at the    *)
(* start.                                                                  *)
(***************************************************************************)
EXTENDS Pstm, FiniteSets

CONSTANTS a1, a2, a3, a4

MCAddr == {a1, a2, a3, a4}
MCPrio == {1, 2}

VARIABLE caller   \* "any" or "parser"

mcVars == <<vars, caller>>

\* Bound: the objects of one document.
MaxObjects == 3

MCInit == Init /\ caller \in {"any", "parser"}

\* The control block and its metalink are gone.
NothingToCall == holder = "none" /\ UNCHANGED pctrlVars

MCNext ==
  \/ /\ caller = "any" /\ (PctrlNext \/ NothingToCall)
     /\ UNCHANGED <<stateVars, envVars, version, error, run, oom, caller>>
  \/ /\ caller = "parser" /\ Next /\ UNCHANGED caller
     /\ Cardinality({a \in Addr : kind'[a] # "unused"}) <= MaxObjects

MCSpec == MCInit /\ [][MCNext]_mcVars

-----------------------------------------------------------------------------
\* FilesKeepTheirOwn, of the files that are read from a document.
DocumentsKeepTheirOwn == caller = "parser" => FilesKeepTheirOwn

=============================================================================
