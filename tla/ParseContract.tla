--------------------------- MODULE ParseContract ---------------------------
(***************************************************************************)
(* What includes/metalink/metalink_parser.h promises about the functions   *)
(* that parse: every call ends with a result or with an error and never    *)
(* both, and it leaves nothing allocated but the result; only a parser     *)
(* context keeps memory between two calls, until metalink_parse_final or   *)
(* metalink_parser_context_delete.                                         *)
(***************************************************************************)
VARIABLES
  phase,     \* "idle", "busy" (inside a call), "open" (a context is held by
             \* the application) or "crashed"
  holds,     \* whether the library keeps memory for the application
  outcome    \* of the last parse: "none", "result" or "error"

contractVars == <<phase, holds, outcome>>

Enter ==
  /\ phase = "idle"
  /\ phase' = "busy"
  /\ holds' = FALSE
  /\ outcome' = "none"

Work ==
  /\ phase = "busy"
  /\ phase' \in {"busy", "crashed"}
  /\ holds' \in BOOLEAN
  /\ UNCHANGED outcome

\* A call of the context interface returns with the context still open.
Suspend ==
  /\ phase = "busy"
  /\ phase' = "open"
  /\ holds' = TRUE
  /\ UNCHANGED outcome

Resume ==
  /\ phase = "open"
  /\ phase' = "busy"
  /\ UNCHANGED <<holds, outcome>>

Abandon ==
  /\ phase = "open"
  /\ phase' = "idle"
  /\ holds' = FALSE
  /\ UNCHANGED outcome

Leave ==
  /\ phase = "busy"
  /\ phase' = "idle"
  /\ holds' = FALSE
  /\ outcome' \in {"result", "error"}

ContractInit == phase = "idle" /\ holds = FALSE /\ outcome = "none"

ContractNext == Enter \/ Work \/ Suspend \/ Resume \/ Abandon \/ Leave

ContractSpec == ContractInit /\ [][ContractNext]_contractVars

=============================================================================
