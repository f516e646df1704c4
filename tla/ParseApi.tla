------------------------------ MODULE ParseApi ------------------------------
(***************************************************************************)
(* The public functions that parse, in both back ends                      *)
(* (lib/libexpat_metalink_parser.c and lib/libxml2_metalink_parser.c):     *)
(* metalink_parse_file, _fp, _fd and _memory, and the parser context with  *)
(* metalink_parse_update and metalink_parse_final.                         *)
(*                                                                         *)
(* Modelled are the read loops, what the XML parser has been given and     *)
(* whether it was told that the input ended, the codes a call combines     *)
(* into its result, and what each call allocates and deletes.  A document  *)
(* is the state the XML parser reaches on it; the handlers it calls (see   *)
(* Session) show up as the error they may leave in metalink_pctrl_t.       *)
(***************************************************************************)
EXTENDS Naturals

CONSTANTS
  Calls,            \* pairs of a back end and a function the program uses
  MaxChunks,        \* bound: chunks a file or descriptor delivers
  MemoryMayFail,    \* allocations may fail
  ReadsMayFail      \* fread and read may report an error

AllCalls == {"expat", "libxml2"} \X {"file", "fp", "fd", "memory", "context"}

ASSUME ParseApiAssumption ==
  /\ Calls \subseteq AllCalls
  /\ Calls # {}
  /\ MaxChunks \in Nat
  /\ MemoryMayFail \in BOOLEAN
  /\ ReadsMayFail \in BOOLEAN

VARIABLES
  backend, entry,   \* the call the program is in, or made last
  pc,
  held,    \* what is allocated: "context", "session", "parser"
  left,    \* environment: chunks the source still has
  fed,     \* what the parser has seen: a "partial", "whole" or "broken" document
  told,    \* whether it was told that this is the end
  error,   \* ctrl->error
  r,       \* the local variable r
  code,    \* what the last call returned; "none" before that
  res,     \* whether *res points to a metalink_t
  warned,  \* ghost: an update of this context returned an error
  lost     \* ghost: a chunk never reached a parser

apiVars == <<backend, entry, pc, held, left, fed, told, error, r, code, res,
          warned, lost>>

document == <<fed, told, error>>
results == <<code, res>>
ghosts == <<warned, lost>>

Documented == {"ok", "bad_alloc", "cannot_open_file", "parser_error"}

\* xml_error is any value of xmlParserErrors, or -1.
Codes == Documented \cup {"xml_error"}

Expat == backend = "expat"

\* The functions that keep their state in a parser context.
UsesContext == entry = "context" \/ (~Expat /\ entry = "fd")

\* The functions that read in a loop of their own.
Loops == entry \in {"fp", "fd"} \/ (Expat /\ entry = "file")

-----------------------------------------------------------------------------
(***************************************************************************)
(* The XML parser, and the handlers it calls.                              *)
(***************************************************************************)
GrowsTo == [partial |-> {"partial", "whole", "broken"},
            whole   |-> {"whole", "broken"},
            broken  |-> {"broken"}]

\* Once the parser has reported an error it calls no handler any more.
Silent == fed = "broken" /\ (UsesContext \/ r # "ok")

\* Mutation: the parser is not told which chunk is the last.
XmlParseNeverLast(grown, last) ==
  /\ fed' \in grown
  /\ error' \in IF MemoryMayFail /\ ~Silent /\ "session" \in held
                THEN {error, "bad_alloc"} ELSE {error}
  /\ "session" \in held \/ fed' # "whole"
  /\ UNCHANGED told

\* Mutation: the error of an earlier chunk is reset.
XmlParseForgetsError(grown, last) ==
  /\ fed' \in grown
  /\ told' = (told \/ last)
  /\ error' \in IF MemoryMayFail /\ ~Silent /\ "session" \in held
                THEN {"ok", "bad_alloc"} ELSE {"ok"}
  /\ "session" \in held \/ fed' # "whole"

\* The parser is given a chunk, or none, and is told whether it is the last.
\* Handlers may run out of memory, which leaves an error in the session or, as
\* a missing session does, crashes them (HandlerCrashes).
XmlParse(grown, last) ==
  /\ fed' \in grown
  /\ told' = (told \/ last)
  /\ error' \in IF MemoryMayFail /\ ~Silent /\ "session" \in held
                THEN {error, "bad_alloc"} ELSE {error}
  /\ "session" \in held \/ fed' # "whole"

ParserError == IF Expat THEN "parser_error" ELSE "xml_error"

Rejected == fed' = "broken" \/ (told' /\ fed' # "whole")

Parsing == pc \in {"feed", "feedNothing", "final", "last", "atOnce"}

\* The XML parser runs and calls handlers; a context of libxml2 creates it when
\* it is first given something.
HandlersRun ==
  /\ Parsing
  /\ "parser" \in held \/ pc = "atOnce" \/ UsesContext
  /\ ~Silent

\* Every handler dereferences the session it is passed.  What handlers allocate
\* and use without a look at it: libxml2's block of attribute values, a buffer
\* of characters, and the text of a buffer that was to grow.
HandlerCrashes ==
  /\ HandlersRun
  /\ "session" \notin held \/ MemoryMayFail
  /\ pc' = "crashed"
  /\ UNCHANGED <<backend, entry, held, left, document, r, results, ghosts>>

-----------------------------------------------------------------------------
(***************************************************************************)
(* Calling, and what is set up before the first byte is read.              *)
(***************************************************************************)
Call(b, e) ==
  /\ pc = "idle"
  /\ <<b, e>> \in Calls
  /\ backend' = b
  /\ entry' = e
  /\ pc' = IF b = "expat" /\ e = "file" THEN "fopen" ELSE "setup"
  /\ held' = {}
  /\ left' \in 0..MaxChunks
  /\ fed' = "partial" /\ told' = FALSE /\ error' = "ok"
  /\ r' = "ok" /\ code' = "none" /\ res' = FALSE
  /\ warned' = FALSE /\ lost' = FALSE

Open ==
  /\ pc = "fopen"
  /\ \/ pc' = "setup" /\ UNCHANGED code
     \/ pc' = "idle" /\ code' = "cannot_open_file"
  /\ UNCHANGED <<backend, entry, held, left, document, r, res, ghosts>>

\* metalink_session_data_new: fails with NULL if the session itself cannot be
\* allocated, and crashes if one of its parts cannot (see Construct).
AfterSession ==
  IF Expat THEN "parser" ELSE IF entry = "fp" THEN "first" ELSE "atOnce"

NewSession ==
  /\ pc = "setup"
  /\ ~UsesContext
  /\ \/ held' = held \cup {"session"} /\ pc' = AfterSession
     \/ MemoryMayFail /\ UNCHANGED held /\ pc' \in {AfterSession, "crashed"}
  /\ UNCHANGED <<backend, entry, left, document, r, results, ghosts>>

\* setup_parser does not look at what XML_ParserCreateNS returned; the setters
\* of expat crash on NULL or, in later versions, ignore it.
SetupParser ==
  /\ pc = "parser"
  /\ LET next == IF Loops THEN "read" ELSE "atOnce"
     IN \/ held' = held \cup {"parser"} /\ pc' = next
        \/ MemoryMayFail /\ UNCHANGED held /\ pc' \in {next, "crashed"}
  /\ UNCHANGED <<backend, entry, left, document, r, results, ghosts>>

\* Mutation: only the context itself is checked.
ContextNewUnchecked ==
  /\ pc = "setup"
  /\ UsesContext
  /\ \/ /\ held' \in {{"context", "parser"}, {"context", "session", "parser"}}
        /\ pc' = IF entry = "fd" THEN "read" ELSE "open"
        /\ UNCHANGED code
     \/ /\ MemoryMayFail
        /\ UNCHANGED held
        /\ pc' = "idle"
        /\ code' = "bad_alloc"
  /\ UNCHANGED <<backend, entry, left, document, r, res, ghosts>>

\* metalink_parser_context_new: whatever fails, what was allocated before is
\* deleted and NULL returned (or the process crashes, see above); _fd turns
\* NULL into METALINK_ERR_BAD_ALLOC, and so does the model for "context".
ContextNew ==
  /\ pc = "setup"
  /\ UsesContext
  /\ \/ /\ held' = {"context", "session"} \cup IF Expat THEN {"parser"} ELSE {}
        /\ pc' = IF entry = "fd" THEN "read" ELSE "open"
        /\ UNCHANGED code
     \/ /\ MemoryMayFail
        /\ UNCHANGED held
        /\ \/ pc' = "idle" /\ code' = "bad_alloc"
           \/ pc' = "crashed" /\ UNCHANGED code
  /\ UNCHANGED <<backend, entry, left, document, r, res, ghosts>>

-----------------------------------------------------------------------------
(***************************************************************************)
(* The read loops.                                                         *)
(***************************************************************************)
AtRead == pc = "read" /\ (Expat => "parser" \in held)

\* Mutation: nothing read counts as data.
ReadDataUnchecked ==
  /\ AtRead
  /\ left' = left - 1
  /\ pc' = "feed"
  /\ UNCHANGED <<backend, entry, held, document, r, results, ghosts>>

ReadData ==
  /\ AtRead
  /\ left > 0
  /\ left' = left - 1
  /\ pc' = "feed"
  /\ UNCHANGED <<backend, entry, held, document, r, results, ghosts>>

\* Where a loop goes when the source has ended.
AfterEnd == IF Expat THEN "result" ELSE IF entry = "fp" THEN "last" ELSE "final"

\* Mutation: the end of the source counts as an interruption.
ReadEndRetries ==
  /\ AtRead
  /\ left = 0
  /\ pc' = "retry"
  /\ UNCHANGED <<backend, entry, held, left, document, r, results, ghosts>>

ReadEnd ==
  /\ AtRead
  /\ left = 0
  /\ pc' = AfterEnd
  /\ UNCHANGED <<backend, entry, held, left, document, r, results, ghosts>>

\* A read that fails ends the loop; but metalink_parse_fd of the libxml2 back
\* end passes the -1 on as the number of bytes read.
ReadFails ==
  /\ ReadsMayFail
  /\ AtRead
  /\ IF ~Expat /\ entry = "fd"
     THEN pc' = "feedNothing" /\ UNCHANGED r
     ELSE pc' = AfterEnd /\ r' = "parser_error"
  /\ UNCHANGED <<backend, entry, held, left, document, results, ghosts>>

\* EINTR: only read is asked again.
ReadInterrupted ==
  /\ AtRead
  /\ entry = "fd"
  /\ pc' = "retry"
  /\ UNCHANGED <<backend, entry, held, left, document, r, results, ghosts>>

Retry ==
  /\ pc = "retry"
  /\ pc' = "read"
  /\ UNCHANGED <<backend, entry, held, left, document, r, results, ghosts>>

\* XML_GetBuffer returns NULL: out of memory, or there is no parser.
BufferFails ==
  /\ pc = "read"
  /\ Expat
  /\ MemoryMayFail \/ "parser" \notin held
  /\ r' = "parser_error"
  /\ pc' = "result"
  /\ UNCHANGED <<backend, entry, held, left, document, results, ghosts>>

\* The loops of expat and of metalink_parse_fp: one more chunk, never the last.
FeedLoop ==
  /\ pc = "feed"
  /\ ~UsesContext
  /\ XmlParse(GrowsTo[fed], FALSE)
  /\ IF Rejected
     THEN r' = "parser_error" /\ pc' = AfterEnd
     ELSE UNCHANGED r /\ pc' = "read"
  /\ UNCHANGED <<backend, entry, held, left, results, ghosts>>

\* metalink_parse_fp of libxml2 reads four bytes, unchecked, and creates the
\* parser with them; nothing is parsed yet.
FirstRead ==
  /\ pc = "first"
  /\ \/ left > 0 /\ left' = left - 1 /\ fed' \in GrowsTo[fed]
     \/ (left = 0 \/ ReadsMayFail) /\ UNCHANGED <<left, fed>>
  /\ \/ /\ held' = held \cup {"parser"}
        /\ pc' = "read"
        /\ UNCHANGED r
     \/ /\ MemoryMayFail
        /\ r' = "parser_error"
        /\ pc' = "last"
        /\ UNCHANGED held
  /\ UNCHANGED <<backend, entry, told, error, results, ghosts>>

\* ... and tells the parser about the end, but drops its verdict.
LastChunk ==
  /\ pc = "last"
  /\ IF "parser" \in held THEN XmlParse({fed}, TRUE) ELSE UNCHANGED document
  /\ pc' = "result"
  /\ UNCHANGED <<backend, entry, held, left, r, results, ghosts>>

-----------------------------------------------------------------------------
(***************************************************************************)
(* The whole document at once: metalink_parse_memory of both back ends and *)
(* metalink_parse_file of libxml2, which reads by itself and reports a     *)
(* file that cannot be opened or a missing parser as an error of its own.  *)
(***************************************************************************)
ParseAtOnce ==
  /\ pc = "atOnce"
  /\ \/ /\ Expat => "parser" \in held
        /\ XmlParse(GrowsTo[fed], TRUE)
        /\ r' = IF Rejected THEN ParserError ELSE "ok"
     \/ /\ IF Expat THEN "parser" \notin held ELSE entry = "file" \/ MemoryMayFail
        /\ r' = ParserError
        /\ UNCHANGED document
  /\ pc' = "result"
  /\ UNCHANGED <<backend, entry, held, left, results, ghosts>>

-----------------------------------------------------------------------------
(***************************************************************************)
(* The parser context.  metalink_parse_fd of libxml2 uses it from inside.  *)
(***************************************************************************)
\* What an update and the last call see of the parser's verdict: libxml2's own
\* code is passed on, and after it the error of the handlers.
Verdict == IF Rejected THEN ParserError ELSE error'

UpdateReturns(v) ==
  IF entry = "fd"
  THEN /\ pc' = IF v = "ok" THEN "read" ELSE "idle"
       /\ code' = IF v = "ok" THEN code ELSE v
       /\ UNCHANGED warned
  ELSE /\ pc' = "open"
       /\ code' = v
       /\ warned' = (warned \/ v # "ok")

\* metalink_parse_update; libxml2 creates its parser with the first chunk, and
\* when it cannot, the chunk is lost and the next one becomes the first.
Update ==
  /\ pc = "feed"
  /\ UsesContext
  /\ \/ /\ XmlParse(GrowsTo[fed], FALSE)
        /\ held' = held \cup {"parser"}
        /\ UpdateReturns(Verdict)
        /\ UNCHANGED lost
     \/ /\ "parser" \notin held
        /\ MemoryMayFail
        /\ UpdateReturns("parser_error")
        /\ lost' = TRUE
        /\ UNCHANGED <<document, held>>
  /\ UNCHANGED <<backend, entry, left, r, res>>

\* The update with -1 bytes: a new parser is given four bytes of an
\* uninitialized buffer, one that exists nothing at all; xmlParseChunk takes a
\* negative size for an empty chunk.
UpdateNothing ==
  /\ pc = "feedNothing"
  /\ \/ /\ XmlParse(IF "parser" \in held THEN {fed} ELSE GrowsTo[fed], FALSE)
        /\ held' = held \cup {"parser"}
        /\ UpdateReturns(Verdict)
     \/ /\ "parser" \notin held
        /\ MemoryMayFail
        /\ UpdateReturns("parser_error")
        /\ UNCHANGED <<document, held>>
  /\ UNCHANGED <<backend, entry, left, r, res, lost>>

\* metalink_parse_final up to metalink_handle_parse_result; expat leaves the
\* error of the handlers to that function, libxml2 does not.  _fd passes no
\* data with the last call.
Final ==
  /\ pc = "final"
  /\ \/ /\ XmlParse(IF entry = "fd" THEN {fed} ELSE GrowsTo[fed], TRUE)
        /\ held' = held \cup {"parser"}
        /\ r' = IF Expat /\ ~Rejected THEN "ok" ELSE Verdict
        /\ UNCHANGED lost
     \/ /\ "parser" \notin held
        /\ MemoryMayFail
        /\ r' = "parser_error"
        /\ lost' = TRUE
        /\ UNCHANGED <<document, held>>
  /\ pc' = "result"
  /\ UNCHANGED <<backend, entry, left, results, warned>>

\* What the application does with an open context.
Continue ==
  /\ pc = "open"
  /\ pc' \in {"feed", "final"}
  /\ UNCHANGED <<backend, entry, held, left, document, r, results, ghosts>>

\* Mutation: the session is not deleted with its context.
ContextDeleteKeepsSession ==
  /\ pc = "open"
  /\ held' = {"session"}
  /\ pc' = "idle"
  /\ code' = "none"
  /\ UNCHANGED <<backend, entry, left, document, r, res, ghosts>>

\* metalink_parser_context_delete.
ContextDelete ==
  /\ pc = "open"
  /\ held' = {}
  /\ pc' = "idle"
  /\ code' = "none"
  /\ UNCHANGED <<backend, entry, left, document, r, res, ghosts>>

-----------------------------------------------------------------------------
\* Mutation: the metalink is handed out whatever the handlers reported.
DetachesAlways == r = "ok"

\* metalink_handle_parse_result detaches the metalink for the application ...
Detaches == r = "ok" /\ error = "ok"

\* ... and makes a parser error of any error the back end reports.
ResultCode == IF r # "ok" THEN "parser_error" ELSE error

\* Mutation: metalink_parse_final does not delete its context.
RemainingContext == held \cap {"context"}

\* What is still allocated after session, parser and context are deleted.
Remaining == {}

ReturnResult ==
  /\ pc = "result"
  /\ r # "ok" \/ "session" \in held
  /\ res' = Detaches
  /\ code' = ResultCode
  /\ held' = Remaining
  /\ pc' = "idle"
  /\ UNCHANGED <<backend, entry, left, document, r, ghosts>>

\* Without an error from the parser it dereferences the session.
ReturnResultCrashes ==
  /\ pc = "result"
  /\ r = "ok" /\ "session" \notin held
  /\ pc' = "crashed"
  /\ UNCHANGED <<backend, entry, held, left, document, r, results, ghosts>>

ApiInit ==
  /\ \E c \in Calls : backend = c[1] /\ entry = c[2]
  /\ pc = "idle"
  /\ held = {}
  /\ left = 0
  /\ fed = "partial" /\ told = FALSE /\ error = "ok"
  /\ r = "ok" /\ code = "none" /\ res = FALSE
  /\ warned = FALSE /\ lost = FALSE

Setup == Open \/ NewSession \/ SetupParser \/ ContextNew \/ FirstRead

ReadReturns == ReadData \/ ReadEnd

Read == ReadReturns \/ ReadFails \/ ReadInterrupted \/ Retry \/ BufferFails

Feed ==
  \/ FeedLoop
  \/ LastChunk
  \/ ParseAtOnce
  \/ Update
  \/ UpdateNothing
  \/ Final
  \/ HandlerCrashes

Return == ReturnResult \/ ReturnResultCrashes

Application == Continue \/ ContextDelete \/ \E c \in AllCalls : Call(c[1], c[2])

ApiNext == Setup \/ Read \/ Feed \/ Return \/ Application

ApiSpec == ApiInit /\ [][ApiNext]_apiVars

\* A call runs on by itself, except that a read waits for its source, which may
\* interrupt it but not forever.  The application owes no step.
ApiFairSpec ==
  /\ ApiSpec
  /\ WF_apiVars(Setup \/ Retry \/ BufferFails \/ Feed \/ Return)
  /\ SF_apiVars(ReadReturns \/ ReadFails)

-----------------------------------------------------------------------------
(***************************************************************************)
(* Properties.                                                             *)
(***************************************************************************)
ApiTypeOK ==
  /\ <<backend, entry>> \in Calls
  /\ pc \in {"idle", "open", "fopen", "setup", "parser", "first", "read",
             "retry", "feed", "feedNothing", "last", "final", "atOnce",
             "result", "crashed"}
  /\ held \subseteq {"context", "session", "parser"}
  /\ left \in 0..MaxChunks
  /\ fed \in DOMAIN GrowsTo
  /\ error \in {"ok", "bad_alloc"}
  /\ r \in Codes
  /\ code \in Codes \cup {"none"}
  /\ told \in BOOLEAN
  /\ res \in BOOLEAN
  /\ warned \in BOOLEAN
  /\ lost \in BOOLEAN

\* A program that looks only at the code or only at *res sees the same: when a
\* parse is over, *res was set exactly if the code is 0, and an update never
\* sets it.
ResultIffSuccess ==
  /\ pc = "idle" => (res <=> code = "ok")
  /\ pc # "idle" => ~res

\* A call that returned has deleted its session, parser and context, unless it
\* was metalink_parse_fd of libxml2 and an update failed in it.
OnlyFdKeepsItsContext ==
  pc = "idle" /\ held # {} =>
    /\ <<backend, entry>> = <<"libxml2", "fd">>
    /\ code # "ok"

\* The functions that tell the parser about the end and look at its verdict.
ChecksTheEnd == entry \in {"memory", "context"} \/ (~Expat /\ entry \in {"file", "fd"})

\* They never succeed with a document that breaks off, however it was cut into
\* chunks, whatever earlier updates returned, with a parser created late.
SuccessIsWhole == res /\ ChecksTheEnd => fed = "whole"

\* An error an update returned is not forgotten: final fails too, unless the
\* parser could not be created and the chunk was lost with it.
ErrorsStick == res /\ warned => lost

\* A function that works on a context, metalink_parse_fd of libxml2 included,
\* never misses the session, whichever allocations failed when the context was
\* created: it crashes at most inside a handler that has its session, when that
\* runs out of memory, and not where the library asks for the error or the
\* result.  The other functions do not check that there is a session.
ContextKeepsSession ==
  [][UsesContext /\ "context" \in held /\ pc' = "crashed" =>
       "session" \in held /\ HandlersRun /\ MemoryMayFail]_apiVars

Returned == pc \in {"idle", "open", "crashed"}

\* Every call comes back, however often its reads are interrupted, unless it is
\* metalink_parse_fd of libxml2 and its reads fail again and again.
CallsReturn == []<>Returned \/ []<>(pc = "feedNothing")

\* metalink_parse_file(3) of _fd too: "When error occurred, non-zero value error
\* code is returned".
EveryCallReturns == ~Returned ~> Returned

-----------------------------------------------------------------------------
(***************************************************************************)
(* What metalink_parser.h promises.                                        *)
(***************************************************************************)
Outcome ==
  CASE code = "none" \/ pc # "idle" -> "none"
    [] res   -> "result"
    [] OTHER -> "error"

Phase == IF pc \in {"idle", "open", "crashed"} THEN pc ELSE "busy"

\* A context that metalink_parse_fd of libxml2 has left behind is out of
\* anybody's reach, and nobody can be said to hold it.  That it is the only one
\* is OnlyFdKeepsItsContext.
Forgotten == pc = "idle" /\ ~Expat /\ entry = "fd"

Promise == INSTANCE ParseContract WITH
             phase <- Phase, holds <- held # {} /\ ~Forgotten, outcome <- Outcome

\* The calls keep the contract of the header, but for what is forgotten.
ImplementsContract == Promise!ContractSpec

=============================================================================
