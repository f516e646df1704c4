--------------------------- MODULE ParseApiProofs ---------------------------
(***************************************************************************)
(* Proofs about ParseApi: what the public functions leave allocated and    *)
(* hand out, for any source, any allocation and any read that fails; that  *)
(* they implement ParseContract; that success means a whole document,      *)
(* wherever the end is told; and that a context keeps its error and can be *)
(* used until it is deleted (Remembered).                                  *)
(***************************************************************************)
EXTENDS ParseApi, TLAPS

\* The inductive invariant: nothing is allocated before the call sets up, no
\* result is out before it returns, and a context exists while it is used.
Inv ==
  /\ ApiTypeOK
  /\ pc \in {"fopen", "setup"} => held = {}
  /\ pc # "idle" => ~res
  /\ pc = "idle" => (res <=> code = "ok")
  /\ pc = "open" => entry = "context"
  /\ pc = "first" => ~Expat /\ entry = "fp"
  /\ pc \in {"read", "retry"} => Loops
  /\ pc = "feed" => Loops \/ entry = "context"
  /\ pc = "feedNothing" => ~Expat /\ entry = "fd"
  /\ pc = "final" => UsesContext
  /\ entry = "context" /\ pc \in {"open", "feed", "final"} => "context" \in held
  /\ OnlyFdKeepsItsContext

LEMMA Backend ==
  ASSUME ParseApiAssumption, ApiTypeOK PROVE backend \in {"expat", "libxml2"}
BY DEF ParseApiAssumption, ApiTypeOK, AllCalls

LEMMA InitInv == ASSUME ParseApiAssumption, ApiInit PROVE Inv
<1>1. PICK c \in Calls : backend = c[1] /\ entry = c[2]
  BY DEF ApiInit
<1>2. <<backend, entry>> \in Calls
  BY <1>1 DEF ParseApiAssumption, AllCalls
<1>3. left \in 0..MaxChunks
  BY DEF ApiInit, ParseApiAssumption
<1> QED
  BY <1>2, <1>3 DEF ApiInit, Inv, ApiTypeOK, OnlyFdKeepsItsContext, GrowsTo,
  Codes, Documented, Expat, UsesContext, Loops

USE DEF apiVars, document, results, ghosts

\* What a call of the XML parser does to the document keeps the types.
LEMMA XmlParseType ==
  ASSUME ApiTypeOK, NEW grown, grown \subseteq DOMAIN GrowsTo, NEW last \in BOOLEAN,
         XmlParse(grown, last)
  PROVE  /\ fed' \in DOMAIN GrowsTo
         /\ told' \in BOOLEAN
         /\ error' \in {"ok", "bad_alloc"}
BY DEF ApiTypeOK, XmlParse

LEMMA GrowsToType ==
  ASSUME ApiTypeOK
  PROVE  /\ GrowsTo[fed] \subseteq DOMAIN GrowsTo
         /\ {fed} \subseteq DOMAIN GrowsTo
<1>1. /\ DOMAIN GrowsTo = {"partial", "whole", "broken"}
      /\ GrowsTo["partial"] = {"partial", "whole", "broken"}
      /\ GrowsTo["whole"] = {"whole", "broken"}
      /\ GrowsTo["broken"] = {"broken"}
  BY DEF GrowsTo
<1>2. fed \in DOMAIN GrowsTo
  BY DEF ApiTypeOK
<1>3. fed \in {"partial", "whole", "broken"}
  BY <1>1, <1>2
<1>4. GrowsTo[fed] \subseteq {"partial", "whole", "broken"}
  BY <1>1, <1>3
<1> QED
  BY <1>1, <1>3, <1>4

LEMMA SetupInv == ASSUME ParseApiAssumption, Inv, Setup PROVE Inv'
<1> USE DEF Inv, OnlyFdKeepsItsContext, UsesContext, Loops, Expat
<1>1. CASE Open
  <2>1. code' \in Codes \cup {"none"}
    BY <1>1 DEF Open, ApiTypeOK, Codes, Documented
  <2> QED BY <1>1, <2>1 DEF Open, ApiTypeOK
<1>2. CASE NewSession
  <2>1. held' \subseteq {"context", "session", "parser"}
    BY <1>2 DEF NewSession, ApiTypeOK
  <2> QED BY <1>2, <2>1 DEF NewSession, AfterSession, ApiTypeOK
<1>3. CASE SetupParser
  <2>1. held' \subseteq {"context", "session", "parser"}
    BY <1>3 DEF SetupParser, ApiTypeOK
  <2> QED BY <1>3, <2>1 DEF SetupParser, ApiTypeOK
<1>4. CASE ContextNew
  <2>1. held' \subseteq {"context", "session", "parser"}
    BY <1>4 DEF ContextNew, ApiTypeOK
  <2>2. code' \in Codes \cup {"none"}
    BY <1>4 DEF ContextNew, ApiTypeOK, Codes, Documented
  <2>3. pc' = "open" => "context" \in held'
    BY <1>4 DEF ContextNew
  <2> QED BY <1>4, <2>1, <2>2, <2>3 DEF ContextNew, ApiTypeOK
<1>5. CASE FirstRead
  <2>1. held' \subseteq {"context", "session", "parser"}
    BY <1>5 DEF FirstRead, ApiTypeOK
  <2>2. fed' \in DOMAIN GrowsTo
    BY <1>5, GrowsToType DEF FirstRead, ApiTypeOK
  <2>3. left' \in 0..MaxChunks
    BY <1>5, ParseApiAssumption DEF FirstRead, ApiTypeOK, ParseApiAssumption
  <2>4. r' \in Codes
    BY <1>5 DEF FirstRead, ApiTypeOK, Codes, Documented
  <2> QED BY <1>5, <2>1, <2>2, <2>3, <2>4 DEF FirstRead, ApiTypeOK
<1> QED BY <1>1, <1>2, <1>3, <1>4, <1>5 DEF Setup

LEMMA ReadInv == ASSUME ParseApiAssumption, Inv, Read PROVE Inv'
<1> USE DEF Inv, ApiTypeOK, OnlyFdKeepsItsContext, GrowsTo, Codes, Documented,
        UsesContext, Loops, Expat, AtRead, AfterEnd
<1>1. CASE ReadData BY <1>1, ParseApiAssumption DEF ReadData, ParseApiAssumption
<1>2. CASE ReadEnd BY <1>2 DEF ReadEnd
<1>3. CASE ReadFails BY <1>3 DEF ReadFails
<1>4. CASE ReadInterrupted BY <1>4 DEF ReadInterrupted
<1>5. CASE Retry BY <1>5 DEF Retry
<1>6. CASE BufferFails BY <1>6 DEF BufferFails
<1> QED BY <1>1, <1>2, <1>3, <1>4, <1>5, <1>6 DEF Read, ReadReturns

\* What a step of Feed leaves behind, but for pc, r, code and the ghosts.
LEMMA FeedType ==
  ASSUME ParseApiAssumption, Inv, Feed
  PROVE  /\ <<backend', entry'>> = <<backend, entry>> /\ <<backend', entry'>> \in Calls
         /\ left' \in 0..MaxChunks
         /\ res' = FALSE
         /\ fed' \in DOMAIN GrowsTo /\ told' \in BOOLEAN /\ error' \in {"ok", "bad_alloc"}
         /\ held' \in {held, held \cup {"parser"}}
<1>1. GrowsTo[fed] \subseteq DOMAIN GrowsTo /\ {fed} \subseteq DOMAIN GrowsTo
  BY GrowsToType DEF Inv
<1> DEFINE Types == /\ fed' \in DOMAIN GrowsTo /\ told' \in BOOLEAN
                    /\ error' \in {"ok", "bad_alloc"}
<1>2. ASSUME NEW grown, grown \in {GrowsTo[fed], {fed}}, NEW last \in BOOLEAN,
             XmlParse(grown, last)
      PROVE  Types
  BY <1>1, <1>2, XmlParseType DEF Inv
<1>0. ASSUME UNCHANGED document PROVE Types
  BY <1>0 DEF Inv, ApiTypeOK
<1>3. Types
  <2> HIDE DEF Types
  <2>1. CASE FeedLoop \/ ParseAtOnce \/ HandlerCrashes
    BY <1>0, <1>2, <2>1, Zenon DEF FeedLoop, ParseAtOnce, HandlerCrashes
  <2>2. CASE LastChunk \/ Update
    BY <1>0, <1>2, <2>2, Zenon DEF LastChunk, Update
  <2>3. (IF "parser" \in held THEN {fed} ELSE GrowsTo[fed]) \in {GrowsTo[fed], {fed}}
        /\ (IF entry = "fd" THEN {fed} ELSE GrowsTo[fed]) \in {GrowsTo[fed], {fed}}
    OBVIOUS
  <2>4. CASE UpdateNothing \/ Final
    BY <1>0, <1>2, <2>3, <2>4, Zenon DEF UpdateNothing, Final
  <2> QED
    BY <2>1, <2>2, <2>4 DEF Feed
<1>4. <<backend', entry'>> = <<backend, entry>> /\ left' = left /\ res' = res
  BY DEF Feed, FeedLoop, LastChunk, ParseAtOnce, Update, UpdateNothing, Final, HandlerCrashes
<1>5. held' \in {held, held \cup {"parser"}}
  BY DEF Feed, FeedLoop, LastChunk, ParseAtOnce, Update, UpdateNothing, Final, HandlerCrashes
<1>6. pc # "idle"
  BY DEF Feed, FeedLoop, LastChunk, ParseAtOnce, Update, UpdateNothing, Final,
     HandlerCrashes, HandlersRun, Parsing
<1>7. res = FALSE
  BY <1>6 DEF Inv, ApiTypeOK
<1>8. <<backend', entry'>> \in Calls /\ left' \in 0..MaxChunks
  BY <1>4 DEF Inv, ApiTypeOK
<1> QED
  BY <1>3, <1>4, <1>5, <1>7, <1>8 DEF Types

LEMMA UpdateInv ==
  ASSUME ParseApiAssumption, Inv, Update \/ UpdateNothing PROVE Inv'
<1> DEFINE Held == held' \subseteq {"context", "session", "parser"}
<1>1. /\ <<backend', entry'>> = <<backend, entry>> /\ <<backend', entry'>> \in Calls
      /\ left' \in 0..MaxChunks
      /\ fed' \in DOMAIN GrowsTo /\ told' \in BOOLEAN /\ error' \in {"ok", "bad_alloc"}
      /\ res' = FALSE /\ Held /\ held \subseteq held'
  BY FeedType DEF Feed, Inv, ApiTypeOK
<1>2. PICK v \in Codes : UpdateReturns(v)
  <2>1. Verdict \in Codes /\ "parser_error" \in Codes
    BY <1>1 DEF Verdict, ParserError, Codes, Documented
  <2> QED
    BY <2>1 DEF Update, UpdateNothing
<1>3. r' = r /\ lost' \in BOOLEAN /\ warned' \in BOOLEAN
  BY <1>2 DEF Update, UpdateNothing, UpdateReturns, Inv, ApiTypeOK
<1>4. code' \in Codes \cup {"none"}
  BY <1>2 DEF UpdateReturns, Inv, ApiTypeOK
<1>5. r \in Codes
  BY DEF Inv, ApiTypeOK
<1>6. entry = "context" \/ (~Expat /\ entry = "fd")
  BY DEF Update, UpdateNothing, UsesContext, Inv
<1>7. CASE entry = "context"
  <2>1. pc' = "open" /\ "context" \in held
    BY <1>2, <1>7 DEF UpdateReturns, Update, UpdateNothing, Inv
  <2> QED
    BY <1>1, <1>3, <1>4, <1>5, <1>7, <2>1
    DEF Inv, ApiTypeOK, OnlyFdKeepsItsContext, UsesContext, Loops, Expat
<1>8. CASE ~Expat /\ entry = "fd"
  <2>1. pc' = "read" \/ (pc' = "idle" /\ code' # "ok")
    BY <1>2, <1>8 DEF UpdateReturns
  <2>2. backend = "libxml2"
    BY <1>8, Backend DEF Expat, Inv
  <2> QED
    BY <1>1, <1>3, <1>4, <1>5, <1>8, <2>1, <2>2
    DEF Inv, ApiTypeOK, OnlyFdKeepsItsContext, UsesContext, Loops, Expat
<1> QED
  BY <1>6, <1>7, <1>8

LEMMA FeedInv == ASSUME ParseApiAssumption, Inv, Feed PROVE Inv'
<1> DEFINE Held == held' \subseteq {"context", "session", "parser"}
<1>1. /\ <<backend', entry'>> = <<backend, entry>> /\ <<backend', entry'>> \in Calls
      /\ left' \in 0..MaxChunks
      /\ fed' \in DOMAIN GrowsTo /\ told' \in BOOLEAN /\ error' \in {"ok", "bad_alloc"}
      /\ res' = FALSE /\ Held
  BY FeedType DEF Inv, ApiTypeOK
<1>2. CASE FeedLoop
  <2>1. /\ r' \in Codes /\ UNCHANGED <<code, ghosts>>
        /\ pc' \in {"read", AfterEnd}
    BY <1>2 DEF FeedLoop, Inv, ApiTypeOK, Codes, Documented
  <2>2. Loops /\ ~UsesContext
    BY <1>2 DEF FeedLoop, Inv, UsesContext
  <2> QED
    BY <1>1, <2>1, <2>2 DEF Inv, ApiTypeOK, OnlyFdKeepsItsContext, UsesContext, Loops,
       Expat, AfterEnd
<1>3. CASE LastChunk \/ ParseAtOnce \/ Final \/ HandlerCrashes
  <2>1. pc' \in {"result", "crashed"} /\ UNCHANGED code
    BY <1>3 DEF LastChunk, ParseAtOnce, Final, HandlerCrashes
  <2>2. r' \in Codes
    BY <1>1, <1>3 DEF LastChunk, ParseAtOnce, Final, HandlerCrashes, Verdict, ParserError,
       Inv, ApiTypeOK, Codes, Documented
  <2>3. warned' \in BOOLEAN /\ lost' \in BOOLEAN
    BY <1>3 DEF LastChunk, ParseAtOnce, Final, HandlerCrashes, Inv, ApiTypeOK
  <2> QED
    BY <1>1, <2>1, <2>2, <2>3 DEF Inv, ApiTypeOK, OnlyFdKeepsItsContext, UsesContext,
       Loops, Expat
<1> QED
  BY <1>2, <1>3, UpdateInv DEF Feed

LEMMA CallReturnsInv == ASSUME ParseApiAssumption, Inv, Return PROVE Inv'
<1> USE DEF Inv, ApiTypeOK, OnlyFdKeepsItsContext, Codes, Documented, UsesContext, Loops, Expat
<1>1. CASE ReturnResult
  BY <1>1 DEF ReturnResult, ResultCode, Detaches, Remaining
<1>2. CASE ReturnResultCrashes
  BY <1>2 DEF ReturnResultCrashes
<1> QED BY <1>1, <1>2 DEF Return

LEMMA ApplicationInv == ASSUME ParseApiAssumption, Inv, Application PROVE Inv'
<1> USE DEF Inv, ApiTypeOK, OnlyFdKeepsItsContext, Codes, Documented, UsesContext, Loops, Expat
<1>1. CASE Continue BY <1>1 DEF Continue
<1>2. CASE ContextDelete BY <1>2 DEF ContextDelete
<1>3. ASSUME NEW c \in AllCalls, Call(c[1], c[2]) PROVE Inv'
  BY <1>3 DEF Call, GrowsTo
<1> QED BY <1>1, <1>2, <1>3 DEF Application

LEMMA NextInv == ASSUME ParseApiAssumption, Inv, [ApiNext]_apiVars PROVE Inv'
<1>1. CASE UNCHANGED apiVars
  BY <1>1 DEF Inv, ApiTypeOK, OnlyFdKeepsItsContext, UsesContext, Loops, Expat
<1> QED
  BY <1>1, SetupInv, ReadInv, FeedInv, CallReturnsInv, ApplicationInv DEF ApiNext

\* Inv holds of every state of every behaviour.
THEOREM Invariance == ASSUME ParseApiAssumption PROVE ApiSpec => []Inv
<1>1. ApiInit => Inv BY InitInv
<1>2. Inv /\ [ApiNext]_apiVars => Inv' BY NextInv
<1> QED BY <1>1, <1>2, PTL DEF ApiSpec

\* Whatever is read, whatever fails: *res is set exactly by the calls that
\* return 0, so a program may test either.
THEOREM ResultMatchesCode ==
  ASSUME ParseApiAssumption PROVE ApiSpec => []ResultIffSuccess
<1>1. Inv => ResultIffSuccess BY DEF Inv, ResultIffSuccess
<1> QED BY <1>1, Invariance, PTL

\* Whatever is read, whatever fails: a call that returned leaves nothing
\* allocated, except metalink_parse_fd of libxml2 when an update failed.
THEOREM NothingIsKept ==
  ASSUME ParseApiAssumption PROVE ApiSpec => []OnlyFdKeepsItsContext
<1>1. Inv => OnlyFdKeepsItsContext BY DEF Inv
<1> QED BY <1>1, Invariance, PTL

-----------------------------------------------------------------------------
(***************************************************************************)
(* The refinement of ParseContract.                                        *)
(***************************************************************************)
\* An update goes on, returns with its context open, or ends metalink_parse_fd.
LEMMA UpdateStep ==
  ASSUME ParseApiAssumption, Inv, Inv', pc \in {"feed", "feedNothing"}, UsesContext,
         NEW v \in Codes, UpdateReturns(v), UNCHANGED <<backend, entry, res>>
  PROVE  Promise!ContractNext
<1> USE DEF Promise!ContractNext, Promise!contractVars, Phase, Outcome, Forgotten, Expat
<1>a. ~res /\ backend \in {"expat", "libxml2"}
  BY Backend DEF Inv
<1>1. CASE entry = "fd" /\ v = "ok"
  BY <1>a, <1>1 DEF UpdateReturns, UsesContext, Promise!Work
<1>2. CASE entry = "fd" /\ v # "ok"
  <2>1. pc' = "idle" /\ code' = v /\ ~res'
    BY <1>a, <1>2 DEF UpdateReturns
  <2>2. v # "none"
    BY DEF Codes, Documented
  <2>3. Forgotten'
    BY <1>2, <2>1 DEF UsesContext
  <2> QED
    BY <1>a, <1>2, <2>1, <2>2, <2>3 DEF Promise!Leave
<1>3. CASE entry # "fd"
  <2>1. pc' = "open" /\ entry = "context"
    BY <1>3 DEF UpdateReturns, UsesContext
  <2>2. "context" \in held'
    BY <2>1 DEF Inv
  <2> QED
    BY <1>a, <1>3, <2>1, <2>2 DEF Promise!Suspend
<1> QED
  BY <1>1, <1>2, <1>3

LEMMA ContractStep ==
  ASSUME ParseApiAssumption, Inv, Inv', [ApiNext]_apiVars
  PROVE  [Promise!ContractNext]_(Promise!contractVars)
<1> USE DEF Promise!ContractNext, Promise!contractVars, Phase, Outcome, Forgotten, Expat
<1>a. backend \in {"expat", "libxml2"}
  BY Backend DEF Inv
<1>v. Verdict \in Codes
  BY DEF Inv, ApiTypeOK, Verdict, ParserError, Codes, Documented
<1>1. CASE UNCHANGED apiVars
  BY <1>1
<1>2. CASE Setup
  <2> USE DEF Inv, Promise!Work, Promise!Leave, Promise!Suspend
  <2>1. CASE Open BY <2>1 DEF Open
  <2>2. CASE NewSession BY <2>2 DEF NewSession, AfterSession
  <2>3. CASE SetupParser BY <2>3 DEF SetupParser
  <2>4. CASE ContextNew BY <2>4 DEF ContextNew
  <2>5. CASE FirstRead BY <2>5 DEF FirstRead
  <2> QED BY <1>2, <2>1, <2>2, <2>3, <2>4, <2>5 DEF Setup
<1>3. CASE Read
  BY <1>3 DEF Promise!Work, Read, ReadReturns, ReadData, ReadEnd, ReadFails,
    ReadInterrupted, Retry, BufferFails, AtRead, AfterEnd
<1>4. CASE Feed
  <2> USE DEF Promise!Work
  <2>1. CASE FeedLoop BY <2>1 DEF FeedLoop, AfterEnd
  <2>2. CASE LastChunk BY <2>2 DEF LastChunk
  <2>3. CASE ParseAtOnce BY <2>3 DEF ParseAtOnce
  <2>4. CASE Update
    <3>1. \E v \in Codes : UpdateReturns(v)
      BY <1>v, <2>4 DEF Update, Inv, Codes, Documented
    <3> QED
      BY <2>4, <3>1, UpdateStep DEF Update
  <2>5. CASE UpdateNothing
    <3>1. \E v \in Codes : UpdateReturns(v)
      BY <1>v, <2>5 DEF UpdateNothing, Inv, Codes, Documented
    <3>2. UsesContext
      BY <2>5 DEF UpdateNothing, Inv, UsesContext
    <3> QED
      BY <2>5, <3>1, <3>2, UpdateStep DEF UpdateNothing
  <2>6. CASE Final BY <2>6 DEF Final
  <2>7. CASE HandlerCrashes BY <2>7 DEF HandlerCrashes, HandlersRun, Parsing
  <2> QED BY <1>4, <2>1, <2>2, <2>3, <2>4, <2>5, <2>6, <2>7 DEF Feed
<1>5. CASE Return
  <2>1. CASE ReturnResult
    BY <2>1 DEF ReturnResult, ResultCode, Detaches, Remaining, Inv, ApiTypeOK,
      Codes, Documented, Promise!Leave
  <2>2. CASE ReturnResultCrashes
    BY <2>2 DEF ReturnResultCrashes, Promise!Work
  <2> QED BY <1>5, <2>1, <2>2 DEF Return
<1>6. CASE Application
  <2>1. CASE Continue BY <2>1 DEF Continue, Promise!Resume
  <2>2. CASE ContextDelete
    BY <2>2 DEF ContextDelete, Promise!Abandon
  <2>3. ASSUME NEW c \in AllCalls, Call(c[1], c[2])
        PROVE  Promise!ContractNext
    BY <2>3 DEF Call, Promise!Enter
  <2> QED BY <1>6, <2>1, <2>2, <2>3 DEF Application
<1> QED
  BY <1>1, <1>2, <1>3, <1>4, <1>5, <1>6 DEF ApiNext

\* Every function keeps the contract of metalink_parser.h: a result or an error,
\* and nothing left that is within reach.
THEOREM KeepsContract ==
  ASSUME ParseApiAssumption PROVE ApiSpec => ImplementsContract
<1>1. ApiInit => Promise!ContractInit
  BY DEF ApiInit, Promise!ContractInit, Phase, Outcome
<1>2. Inv /\ Inv' /\ [ApiNext]_apiVars => [Promise!ContractNext]_(Promise!contractVars)
  BY ContractStep
<1> QED
  BY <1>1, <1>2, Invariance, PTL
  DEF ApiSpec, ImplementsContract, Promise!ContractSpec

-----------------------------------------------------------------------------
(***************************************************************************)
(* What a successful call says about the document, and what a context      *)
(* remembers of its updates.                                               *)
(***************************************************************************)
\* Nobody is told of the end before the last call, and only metalink_parse_fp
\* of libxml2 has a last chunk of its own.
Order ==
  /\ told => pc \in {"result", "idle", "crashed"}
  /\ pc = "last" => ~Expat /\ entry = "fp"
  /\ pc = "atOnce" => ~UsesContext
  /\ pc = "parser" => ~UsesContext

\* A parser that was told of the end and reports nothing has seen a document.
Verdicts == pc = "result" /\ r = "ok" /\ ChecksTheEnd => fed = "whole"

\* What the parser or the handlers reported to an update is still there when
\* the context is used again and when its result is handed out.
Memory ==
  /\ warned => entry = "context" /\ pc \notin {"fopen", "setup"}
  /\ warned /\ pc \in {"open", "feed", "final"} =>
       fed = "broken" \/ error # "ok" \/ lost
  /\ pc = "result" /\ r = "ok" /\ warned => error # "ok" \/ lost

\* A context is created with its session and loses it only with itself.
ContextHasSession == "context" \in held => "session" \in held

Remembered ==
  /\ Order
  /\ Verdicts
  /\ SuccessIsWhole
  /\ Memory
  /\ ErrorsStick
  /\ ContextHasSession

LEMMA InitKept == ASSUME ApiInit PROVE Remembered
BY DEF ApiInit, Remembered, Order, Verdicts, SuccessIsWhole, Memory, ErrorsStick,
   ContextHasSession

\* The XML parser does not take back an error.
LEMMA XmlParseKeeps ==
  ASSUME ApiTypeOK, NEW last \in BOOLEAN, NEW grown, XmlParse(grown, last),
         grown \subseteq GrowsTo[fed]
  PROVE  /\ told' = (told \/ last)
         /\ error # "ok" => error' # "ok"
         /\ fed = "broken" => fed' = "broken"
BY DEF ApiTypeOK, XmlParse, GrowsTo

LEMMA Staying == ASSUME ApiTypeOK PROVE {fed} \subseteq GrowsTo[fed]
BY DEF ApiTypeOK, GrowsTo

LEMMA SetupKept ==
  ASSUME ParseApiAssumption, Inv, Remembered, Setup PROVE Remembered'
<1> USE DEF Remembered, Order, Verdicts, SuccessIsWhole, Memory, ErrorsStick,
            ContextHasSession, ChecksTheEnd, UsesContext, Loops, Expat
<1>1. CASE Open BY <1>1 DEF Open, Inv
<1>2. CASE NewSession BY <1>2 DEF NewSession, AfterSession, Inv
<1>3. CASE SetupParser BY <1>3 DEF SetupParser, Inv
<1>4. CASE ContextNew BY <1>4 DEF ContextNew, Inv
<1>5. CASE FirstRead BY <1>5 DEF FirstRead, Inv
<1> QED BY <1>1, <1>2, <1>3, <1>4, <1>5 DEF Setup

LEMMA ReadKept == ASSUME ParseApiAssumption, Inv, Remembered, Read PROVE Remembered'
<1> USE DEF Remembered, Order, Verdicts, SuccessIsWhole, Memory, ErrorsStick, AtRead, Inv,
            AfterEnd, ContextHasSession, ChecksTheEnd, UsesContext, Loops, Expat
<1>1. CASE ReadData BY <1>1 DEF ReadData
<1>2. CASE ReadEnd BY <1>2 DEF ReadEnd
<1>3. CASE ReadFails BY <1>3 DEF ReadFails
<1>4. CASE ReadInterrupted BY <1>4 DEF ReadInterrupted
<1>5. CASE Retry BY <1>5 DEF Retry
<1>6. CASE BufferFails BY <1>6 DEF BufferFails
<1> QED BY <1>1, <1>2, <1>3, <1>4, <1>5, <1>6 DEF Read, ReadReturns

\* An update that reports an error leaves a trace of it.
LEMMA UpdateKept ==
  ASSUME ParseApiAssumption, Inv, Remembered, Update \/ UpdateNothing PROVE Remembered'
<1> USE DEF UsesContext, Expat
<1>1. pc \in {"feed", "feedNothing"} /\ ~told /\ ~res
  BY DEF Update, UpdateNothing, Remembered, Order, Inv
<1>2. UsesContext /\ ApiTypeOK
  BY DEF Update, UpdateNothing, Inv
<1>3. PICK v \in Codes :
        /\ UpdateReturns(v)
        /\ \/ v = Verdict /\ UNCHANGED lost
              /\ \E grown \in SUBSET GrowsTo[fed] : XmlParse(grown, FALSE)
           \/ pc = "feedNothing" /\ UNCHANGED <<document, lost>>
           \/ lost' /\ UNCHANGED document
  <2>1. Verdict \in Codes
    <3>1. error' \in {"ok", "bad_alloc"}
      BY <1>2 DEF Update, UpdateNothing, XmlParse, ApiTypeOK
    <3> QED
      BY <3>1 DEF Verdict, ParserError, Codes, Documented
  <2>2. "parser_error" \in Codes
    BY DEF Codes, Documented
  <2>3. CASE Update
    BY <2>1, <2>2, <2>3 DEF Update
  <2>4. CASE UpdateNothing
    <3>1. (IF "parser" \in held THEN {fed} ELSE GrowsTo[fed]) \in SUBSET GrowsTo[fed]
      BY <1>2, Staying
    <3> QED
      BY <2>1, <2>2, <2>4, <3>1 DEF UpdateNothing
  <2> QED
    BY <2>3, <2>4
<1>4. /\ ~told'
      /\ error # "ok" => error' # "ok"
      /\ fed = "broken" => fed' = "broken"
      /\ lost => lost'
  <2>1. CASE v = Verdict /\ UNCHANGED lost
             /\ \E grown \in SUBSET GrowsTo[fed] : XmlParse(grown, FALSE)
    <3>1. PICK grown : grown \subseteq GrowsTo[fed] /\ XmlParse(grown, FALSE)
      BY <2>1
    <3>2. told = FALSE /\ told' = (told \/ FALSE)
      BY <1>1, <1>2, <3>1, XmlParseKeeps DEF ApiTypeOK
    <3> QED
      BY <1>2, <2>1, <3>1, <3>2, XmlParseKeeps
  <2>2. CASE UNCHANGED <<document, lost>> \/ (lost' /\ UNCHANGED document)
    BY <1>1, <2>2 DEF document
  <2> QED
    BY <1>3, <2>1, <2>2
<1>5. v # "ok" /\ entry # "fd" => fed' = "broken" \/ error' # "ok" \/ lost'
  BY <1>1, <1>3, <1>4 DEF Verdict, Rejected, Inv
<1>6. /\ "context" \in held' => "context" \in held
      /\ "session" \in held => "session" \in held'
      /\ UNCHANGED <<backend, entry, r, res>>
  BY DEF Update, UpdateNothing
<1>7. Order' /\ Verdicts' /\ SuccessIsWhole' /\ ErrorsStick'
  BY <1>1, <1>3, <1>4, <1>6
  DEF UpdateReturns, Order, Verdicts, SuccessIsWhole, ErrorsStick
<1>8. ContextHasSession'
  BY <1>6 DEF Remembered, ContextHasSession
<1>9. Memory'
  <2>1. CASE entry = "fd"
    BY <1>3, <1>6, <2>1 DEF UpdateReturns, Remembered, Memory
  <2>2. CASE entry # "fd"
    <3>1. pc = "feed"
      BY <1>1, <2>2 DEF Inv
    <3> QED
      BY <1>2, <1>3, <1>4, <1>5, <1>6, <2>2, <3>1 DEF UpdateReturns, Remembered, Memory
  <2> QED
    BY <2>1, <2>2
<1> QED
  BY <1>7, <1>8, <1>9 DEF Remembered

LEMMA FinalKept == ASSUME ParseApiAssumption, Inv, Remembered, Final PROVE Remembered'
<1>1. pc = "final" /\ pc' = "result" /\ ~told /\ ~res /\ UNCHANGED <<entry, backend, warned, res>>
  BY DEF Final, Remembered, Order, Inv
<1>2. ApiTypeOK /\ UsesContext
  BY <1>1 DEF Inv
<1>3. /\ "context" \in held' => "context" \in held
      /\ "session" \in held => "session" \in held'
  BY DEF Final
<1>4. ASSUME r' = "ok" PROVE fed' = "whole" /\ (warned => error' # "ok" \/ lost')
  <2>1. PICK grown : grown \subseteq GrowsTo[fed] /\ XmlParse(grown, TRUE)
    BY <1>2, <1>4, Staying DEF Final
  <2>2. /\ ~Rejected
        /\ UNCHANGED lost
    BY <1>4 DEF Final, Verdict, ParserError
  <2>3. /\ told'
        /\ error # "ok" => error' # "ok"
        /\ fed = "broken" => fed' = "broken"
    BY <1>2, <2>1, XmlParseKeeps
  <2>4. fed' = "whole"
    BY <2>2, <2>3 DEF Rejected
  <2> QED
    BY <1>1, <2>2, <2>3, <2>4 DEF Remembered, Memory
<1>5. Order' /\ SuccessIsWhole' /\ ErrorsStick' /\ ContextHasSession'
  BY <1>1, <1>3 DEF Remembered, Order, SuccessIsWhole, ErrorsStick, ContextHasSession
<1> QED
  BY <1>1, <1>4, <1>5 DEF Remembered, Verdicts, Memory

LEMMA FeedKept == ASSUME ParseApiAssumption, Inv, Remembered, Feed PROVE Remembered'
<1> USE DEF Remembered, Order, Verdicts, SuccessIsWhole, Memory, ErrorsStick, Inv,
            ContextHasSession, ChecksTheEnd, UsesContext, Loops, Expat
<1>1. CASE FeedLoop
  <2>1. told = FALSE
    BY <1>1 DEF FeedLoop, ApiTypeOK
  <2>2. told' = FALSE
    BY <1>1, <2>1 DEF FeedLoop, XmlParse
  <2> QED
    BY <1>1, <2>2 DEF FeedLoop, AfterEnd
<1>2. CASE LastChunk
  BY <1>2 DEF LastChunk
<1>3. CASE ParseAtOnce
  <2>1. ASSUME r' = "ok" PROVE fed' = "whole"
    BY <1>3, <2>1 DEF ParseAtOnce, XmlParse, Rejected, ParserError
  <2> QED
    BY <1>3, <2>1 DEF ParseAtOnce
<1>4. CASE Update \/ UpdateNothing
  BY <1>4, UpdateKept
<1>5. CASE Final
  BY <1>5, FinalKept
<1>6. CASE HandlerCrashes
  BY <1>6 DEF HandlerCrashes
<1> QED BY <1>1, <1>2, <1>3, <1>4, <1>5, <1>6 DEF Feed

LEMMA OtherKept ==
  ASSUME ParseApiAssumption, Inv, Remembered, Return \/ Application PROVE Remembered'
<1> USE DEF Remembered, Order, Verdicts, SuccessIsWhole, Memory, ErrorsStick, Inv,
            ContextHasSession, ChecksTheEnd, UsesContext, Loops, Expat
<1>1. CASE ReturnResult
  BY <1>1 DEF ReturnResult, Detaches, Remaining
<1>2. CASE ReturnResultCrashes
  BY <1>2 DEF ReturnResultCrashes
<1>3. CASE Continue
  BY <1>3 DEF Continue
<1>4. CASE ContextDelete
  BY <1>4 DEF ContextDelete
<1>5. ASSUME NEW c \in AllCalls, Call(c[1], c[2]) PROVE Remembered'
  BY <1>5 DEF Call
<1> QED BY <1>1, <1>2, <1>3, <1>4, <1>5 DEF Return, Application

\* Remembered holds of every state of every behaviour.
THEOREM AlwaysKept == ASSUME ParseApiAssumption PROVE ApiSpec => []Remembered
<1>1. ApiInit => Remembered
  BY InitKept
<1>2. Inv /\ Remembered /\ [ApiNext]_apiVars => Remembered'
  <2> SUFFICES ASSUME Inv, Remembered, [ApiNext]_apiVars PROVE Remembered'
    OBVIOUS
  <2>1. CASE UNCHANGED apiVars
    BY <2>1 DEF Remembered, Order, Verdicts, SuccessIsWhole, Memory, ErrorsStick,
      ContextHasSession, ChecksTheEnd, UsesContext, Expat
  <2> QED
    BY <2>1, SetupKept, ReadKept, FeedKept, OtherKept DEF ApiNext
<1> QED BY <1>1, <1>2, Invariance, PTL DEF ApiSpec

\* The functions that tell the parser of the end and look at its verdict never
\* succeed with a document that breaks off: not with any number of chunks, and
\* not after any updates before (metalink_parse_memory, metalink_parse_final).
THEOREM NoTruncatedResult ==
  ASSUME ParseApiAssumption PROVE ApiSpec => []SuccessIsWhole
<1>1. Remembered => SuccessIsWhole BY DEF Remembered
<1> QED BY <1>1, AlwaysKept, PTL

\* A context in which metalink_parse_update reported an error hands out no
\* result, unless its first chunk was lost with the parser that was to be
\* created for it.
THEOREM ErrorsAreKept == ASSUME ParseApiAssumption PROVE ApiSpec => []ErrorsStick
<1>1. Remembered => ErrorsStick BY DEF Remembered
<1> QED BY <1>1, AlwaysKept, PTL

\* metalink_parser_context_new leaves no context without a session behind: what
\* works on a context crashes at most inside a handler that has its session, and
\* only where allocations fail.
THEOREM ContextCrashesInHandlers ==
  ASSUME ParseApiAssumption PROVE ApiSpec => ContextKeepsSession
<1> DEFINE Step == UsesContext /\ "context" \in held /\ pc' = "crashed" =>
                     "session" \in held /\ HandlersRun /\ MemoryMayFail
<1>1. Inv /\ Remembered /\ [ApiNext]_apiVars => [Step]_apiVars
  <2> SUFFICES ASSUME Inv, Remembered, ApiNext, UsesContext, "context" \in held,
                      pc' = "crashed"
               PROVE  HandlersRun /\ MemoryMayFail /\ "session" \in held
    OBVIOUS
  <2>1. "session" \in held
    BY DEF Remembered, ContextHasSession
  <2>2. ~Setup
    <3>1. pc \notin {"setup", "parser"}
      BY DEF Inv, Remembered, Order
    <3> QED
      BY <3>1 DEF Setup, Open, NewSession, SetupParser, ContextNew, FirstRead
  <2>3. ~Read
    BY DEF Read, ReadReturns, ReadData, ReadEnd, ReadFails, ReadInterrupted, Retry,
      BufferFails, AfterEnd
  <2>4. Feed => HandlerCrashes
    BY DEF Feed, FeedLoop, LastChunk, ParseAtOnce, Update, UpdateNothing, UpdateReturns,
      Final, AfterEnd
  <2>5. ~Return
    BY <2>1 DEF Return, ReturnResult, ReturnResultCrashes
  <2>6. ~Application
    BY DEF Application, Continue, ContextDelete, Call
  <2> QED
    BY <2>1, <2>2, <2>3, <2>4, <2>5, <2>6 DEF ApiNext, HandlerCrashes
<1> QED
  BY <1>1, Invariance, AlwaysKept, PTL DEF ApiSpec, ContextKeepsSession

=============================================================================
