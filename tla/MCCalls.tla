------------------------------ MODULE MCCalls ------------------------------
(***************************************************************************)
(* Instance of the modules about objects that live from call to call:      *)
(* ParseApi, Construct, MetalinkList and StringBuffer.  They share         *)
(* no variable and no step, so a behaviour here is a behaviour of one of   *)
(* them, chosen at the start, while the others stand still.                *)
(***************************************************************************)
EXTENDS ParseApi, Construct, MetalinkList, StringBuffer

CONSTANTS c1, c2, c3, d1, d2, x1, x2

\* A list of up to three entries.
MCCells == {c1, c2, c3}
MCData == {d1, d2}

MCChars == {x1, x2}

MCRoots == {"context", "session"}

\* The values of this instance that the resting components rely on.
ASSUME MCCallsAssumption == Calls = AllCalls /\ Roots = MCRoots /\ Data = MCData

VARIABLE part   \* the component that runs

vars == <<apiVars, constructVars, metalinkListVars, bufferVars, part>>

ApiRests ==
  /\ backend = "expat" /\ entry = "file" /\ pc = "idle" /\ held = {} /\ left = 0
  /\ fed = "partial" /\ told = FALSE /\ error = "ok"
  /\ r = "ok" /\ code = "none" /\ res = FALSE /\ warned = FALSE /\ lost = FALSE

ConstructRests ==
  /\ root = "session" /\ live = {} /\ freed = {} /\ agenda = <<>>
  /\ status = "null"

ListRests == ListInit /\ data = [c \in Cells |-> d1]

Init ==
  \/ part = "api" /\ ApiInit /\ ConstructRests /\ ListRests /\ BufferInit
  \/ part = "construct" /\ ConstructInit /\ ApiRests /\ ListRests /\ BufferInit
  \/ part = "list" /\ ListInit /\ ApiRests /\ ConstructRests /\ BufferInit
  \/ part = "buffer" /\ BufferInit /\ ApiRests /\ ConstructRests /\ ListRests

Next ==
  \/ /\ part = "api" /\ ApiNext
     /\ UNCHANGED <<constructVars, metalinkListVars, bufferVars, part>>
  \/ /\ part = "construct" /\ ConstructNext
     /\ UNCHANGED <<apiVars, metalinkListVars, bufferVars, part>>
  \/ /\ part = "list" /\ ListNext
     /\ UNCHANGED <<apiVars, constructVars, bufferVars, part>>
  \/ /\ part = "buffer" /\ BufferNext
     /\ UNCHANGED <<apiVars, constructVars, metalinkListVars, part>>

\* The fairness of ApiFairSpec and of ListFairSpec.
Spec ==
  /\ Init /\ [][Next]_vars
  /\ WF_apiVars(part = "api" /\ (Setup \/ Retry \/ BufferFails \/ Feed \/ Return))
  /\ SF_apiVars(part = "api" /\ (ReadReturns \/ ReadFails))
  /\ WF_metalinkListVars(part = "list" /\ Running)

-----------------------------------------------------------------------------
\* The type invariants of the four modules.
CallsTypeOK == ApiTypeOK /\ ConstructTypeOK /\ ListTypeOK /\ BufferTypeOK

=============================================================================
