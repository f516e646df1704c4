---------------------------- MODULE ElementPath ----------------------------
(***************************************************************************)
(* What the element handlers promise about the nesting of a document: at   *)
(* every moment they know the path of recognised elements that are open,   *)
(* and how many elements are open inside a part they ignore.  An element   *)
(* is recognised only in its place below a recognised parent; everything   *)
(* inside an ignored element is ignored; an end tag closes the innermost   *)
(* open element, whichever of the two it is, and nothing else.             *)
(***************************************************************************)
EXTENDS Naturals, Sequences, SequencesExt

CONSTANT Nesting   \* the pairs <<parent path, element>> that are recognised

VARIABLES
  path,      \* the recognised elements that are open, outermost first
  ignored,   \* how many open elements are ignored
  failed     \* an error was met: the rest of the document does not matter

vars == <<path, ignored, failed>>

Init == path = <<>> /\ ignored = 0 /\ failed = FALSE

Recognise ==
  /\ ~failed
  /\ ignored = 0
  /\ \E n \in Nesting : path = n[1] /\ path' = Append(path, n[2])
  /\ UNCHANGED <<ignored, failed>>

Ignore ==
  /\ ~failed
  /\ ignored' = ignored + 1
  /\ UNCHANGED <<path, failed>>

CloseIgnored ==
  /\ ~failed
  /\ ignored > 0
  /\ ignored' = ignored - 1
  /\ UNCHANGED <<path, failed>>

Close ==
  /\ ~failed
  /\ ignored = 0
  /\ path # <<>>
  /\ path' = Front(path)
  /\ UNCHANGED <<ignored, failed>>

Fail ==
  /\ failed' = TRUE
  /\ path' = <<>>
  /\ ignored' = 0

Next == Recognise \/ Ignore \/ CloseIgnored \/ Close \/ Fail

Spec == Init /\ [][Next]_vars
=============================================================================
