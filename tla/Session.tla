------------------------------ MODULE Session ------------------------------
(***************************************************************************)
(* The SAX handlers of the two parser back ends,                           *)
(* lib/libexpat_metalink_parser.c and lib/libxml2_metalink_parser.c, and   *)
(* the session data they work on: a stack of string buffers collects the   *)
(* characters of the open elements, and an end handler of the state        *)
(* machine is called with the buffer of the element that ends.             *)
(*                                                                         *)
(* The expat handlers push and pop a buffer only while the state machine   *)
(* asks for characters; the libxml2 handlers do so for every element.      *)
(* Character data is abstracted to pieces, numbered in document order: a   *)
(* buffer is the sequence of the pieces appended to it.                    *)
(***************************************************************************)
EXTENDS Pstm

CONSTANTS
  Backends,        \* back ends to check: "expat", "libxml2"
  BufferMayFail,   \* allocations of the buffers and the stack may fail
  MaxPieces,       \* bound: pieces of character data in a document
  MaxBuffers       \* bound: buffers on the stack

ASSUME SessionAssumption ==
  /\ Backends \subseteq {"expat", "libxml2"}
  /\ Backends # {}
  /\ BufferMayFail \in BOOLEAN
  /\ MaxPieces \in Nat
  /\ MaxBuffers \in Nat
  /\ NULL \notin Seq(Nat)   \* a missing buffer is told from any buffer

VARIABLES
  backend,
  characters_stack,   \* top first; NULL is a buffer that was not allocated
  bufferOom,          \* ghost: a buffer or its stack entry was not allocated
  pieces,             \* environment: pieces of character data so far
  open                \* environment: per open element, innermost first, its
                      \* own pieces and whether it had a child element

sessionVars == <<backend, characters_stack, bufferOom, pieces, open>>

EveryElement == backend = "libxml2"

-----------------------------------------------------------------------------
\* Mutation: a buffer still on the stack is used again.
PushBufferOnce ==
  /\ characters_stack' = IF characters_stack = <<>> THEN <<<<>>>>
                         ELSE characters_stack
  /\ UNCHANGED bufferOom

\* metalink_string_buffer_new and metalink_stack_push, results unchecked.
PushBuffer ==
  \/ characters_stack' = <<<<>>>> \o characters_stack /\ UNCHANGED bufferOom
  \/ /\ BufferMayFail
     /\ bufferOom' = TRUE
     /\ characters_stack' \in {<<NULL>> \o characters_stack, characters_stack}

\* start_element_handler: the buffer is for an element whose text is wanted
\* after start_fun has chosen the next state.
StartHandler ==
  /\ Len(characters_stack) < MaxBuffers
  /\ Start
  /\ IF EveryElement \/ buffering' THEN PushBuffer
     ELSE UNCHANGED <<characters_stack, bufferOom>>
  /\ open' = <<[own |-> <<>>, leaf |-> TRUE]>>
              \o IF open = <<>> THEN <<>>
                 ELSE <<[open[1] EXCEPT !.leaf = FALSE]>> \o Tail(open)
  /\ UNCHANGED <<backend, pieces>>

\* Mutation: both back ends pop only while text is wanted.
PopsText == buffering

\* end_element_handler: end_fun is passed the popped buffer, or "".
Pops == EveryElement \/ buffering

Top == IF characters_stack = <<>> THEN NULL ELSE Head(characters_stack)

Passed == IF Pops /\ Top # NULL THEN Top ELSE <<>>

\* Popping an empty stack dereferences NULL, and so does reading the string of
\* a missing buffer, which only the libxml2 handler does unchecked.
PopCrashes ==
  Pops /\ Top = NULL /\ (characters_stack = <<>> \/ EveryElement)

EndHandler ==
  /\ ~PopCrashes
  /\ End
  /\ characters_stack' = IF Pops THEN Tail(characters_stack) ELSE characters_stack
  /\ open' = Tail(open)
  /\ UNCHANGED <<backend, bufferOom, pieces>>

Crash == run' = "crashed" /\ UNCHANGED <<pctrlVars, stateVars, envVars, version, error, oom>>

EndHandlerCrashes ==
  /\ run = "parsing"
  /\ depth > 0
  /\ PopCrashes
  /\ Crash
  /\ UNCHANGED sessionVars

\* characters_handler: appends to the buffer on top, whosever it is.
CharactersHandler ==
  /\ run = "parsing"
  /\ depth > 0
  /\ pieces < MaxPieces
  /\ pieces' = pieces + 1
  /\ open' = [open EXCEPT ![1].own = Append(@, pieces + 1)]
  /\ UNCHANGED <<backend, bufferOom>>
  /\ IF ~Pops
     THEN UNCHANGED <<characters_stack, vars>>
     ELSE IF Top = NULL
     THEN Crash /\ UNCHANGED characters_stack
     ELSE /\ characters_stack' =
               <<Append(Top, pieces + 1)>> \o Tail(characters_stack)
          /\ UNCHANGED vars

\* metalink_session_data_delete empties the stack.
FinishSession ==
  /\ \E ok \in BOOLEAN : Finish(ok)
  /\ characters_stack' = <<>>
  /\ open' = <<>>
  /\ UNCHANGED <<backend, bufferOom, pieces>>

SessionInit ==
  /\ Init
  /\ backend \in Backends
  /\ characters_stack = <<>>
  /\ bufferOom = FALSE
  /\ pieces = 0
  /\ open = <<>>

SessionNext ==
  \/ StartHandler
  \/ EndHandler
  \/ EndHandlerCrashes
  \/ CharactersHandler
  \/ FinishSession
  \/ Delete /\ UNCHANGED sessionVars
  \/ Terminated /\ UNCHANGED sessionVars

SessionSpec == SessionInit /\ [][SessionNext]_<<vars, sessionVars>>

-----------------------------------------------------------------------------
(***************************************************************************)
(* Properties.                                                             *)
(***************************************************************************)
AtText == run = "parsing" /\ fun \in Text /\ ~bufferOom

\* Text is delivered whole and to the right element: the end handler of a text
\* element without child elements is passed exactly its characters, whatever
\* the stack still holds of elements that ended before, and the end handler of
\* any text element none but its own.
TextIsOwn ==
  AtText =>
    /\ open[1].leaf => Passed = open[1].own
    /\ Passed \in {open[1].own, <<>>}

\* The stack is never popped or appended to without a buffer on it, unless an
\* allocation failed before.
BuffersBalanced ==
  /\ run = "parsing" /\ Pops /\ depth > 0 /\ ~bufferOom => Top # NULL
  /\ run = "crashed" => bufferOom

\* The libxml2 handlers keep one buffer per open element.
OneBufferPerElement ==
  run = "parsing" /\ EveryElement /\ ~bufferOom => Len(characters_stack) = depth

\* What metalink_pstate.h says of before_skip_character_buffering: that it is
\* used in the skip state, to go on collecting after a child that is skipped.
CollectsAfterSkip == AtText => Passed = open[1].own

=============================================================================
