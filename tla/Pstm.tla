-------------------------------- MODULE Pstm --------------------------------
(***************************************************************************)
(* The state machine of libmetalink that turns element events into calls   *)
(* of the transaction layer: lib/metalink_pstm.c, lib/metalink_pstate.c,   *)
(* lib/metalink_pstate_v3.c and lib/metalink_pstate_v4.c, driven by the    *)
(* start and end element handlers of the parser back ends and ended by     *)
(* lib/metalink_parser_common.c.                                           *)
(*                                                                         *)
(* The pair (start_fun, end_fun) of the code is `fun`, named after the     *)
(* pair: "url" is url_state_start_fun and url_state_end_fun, "file_v3" is  *)
(* file_state_start_fun_v3 and file_state_end_fun_v3, and so on.           *)
(* The environment is the XML parser: it reports the elements of any       *)
(* well-formed document, or stops in the middle of one.                    *)
(***************************************************************************)
EXTENDS Pctrl

CONSTANTS
  ForeignInText, \* a text element may contain elements of other namespaces
  Repeats,       \* documents may repeat <files>, or <pieces> in one file
  FinalChunk,    \* the entry point tells the parser where the input ends
  Assertions,    \* the library is built with assert, that is without NDEBUG
  MaxDepth,      \* bound: open elements
  MaxSkip        \* bound: open elements inside an ignored one

\* "v3" and "v4" are the Metalink namespaces, "other" is any other or none.
Ns == {"v3", "v4", "other"}

ASSUME PstmAssumption ==
  /\ ForeignInText \in BOOLEAN
  /\ Repeats \in BOOLEAN
  /\ FinalChunk \in BOOLEAN
  /\ Assertions \in BOOLEAN
  /\ MaxDepth \in Nat
  /\ MaxSkip \in Nat

VARIABLES
  fun,          \* stm->state->start_fun and end_fun
  before_fun,   \* before_skip_state_start_fun and _end_fun
  skip_depth,
  buffering,    \* character_buffering
  version,      \* ctrl->metalink->version
  error,        \* ctrl->error
  ns_uri,       \* session_data->ns_uri: of the element that started last
  depth,        \* environment: elements open in the document
  rootDone,     \* environment: the root element has been closed
  ended,        \* ghost: the files whose end tag was read, in that order
  run,          \* "parsing", "done", or how the process was stopped
  oom           \* ghost: some allocation failed

stateVars == <<fun, before_fun, skip_depth, buffering>>
envVars == <<ns_uri, depth, rootDone, ended>>
vars == <<pctrlVars, stateVars, envVars, version, error, run, oom>>

-----------------------------------------------------------------------------
(***************************************************************************)
(* The states.  The handlers of a text element are called with the         *)
(* characters of the element; those of the shared ones serve both versions *)
(* and choose the state to return to by the namespace they are passed.     *)
(***************************************************************************)
SharedText == {"size", "version", "language", "os", "url", "hash", "piece_hash"}

OwnText ==
  {"identity_v3", "tags_v3", "generator_v4", "origin_v4", "published_v4",
   "updated_v4", "description_v4", "copyright_v4", "identity_v4", "logo_v4",
   "signature_v4", "metaurl_v4"}

Text == SharedText \cup OwnText

ContainerV3 == {"metalink_v3", "files_v3", "file_v3", "resources_v3",
                "verification_v3", "pieces_v3"}

ContainerV4 == {"metalink_v4", "file_v4", "pieces_v4"}

Container == ContainerV3 \cup ContainerV4

Fun == Text \cup Container \cup {"initial", "null", "fin", "skip"}

NsOf(f) == IF f \in ContainerV3 THEN "v3" ELSE "v4"

\* Children that only change the state: <<state, element, next state>>.
Plain ==
  {<<"metalink_v3", "tags", "tags_v3">>,
   <<"metalink_v3", "identity", "identity_v3">>,
   <<"metalink_v3", "files", "files_v3">>,
   <<"file_v3", "verification", "verification_v3">>,
   <<"file_v3", "resources", "resources_v3">>,
   <<"metalink_v4", "generator", "generator_v4">>,
   <<"metalink_v4", "origin", "origin_v4">>,
   <<"metalink_v4", "published", "published_v4">>,
   <<"metalink_v4", "updated", "updated_v4">>,
   <<"file_v4", "description", "description_v4">>,
   <<"file_v4", "copyright", "copyright_v4">>,
   <<"file_v4", "identity", "identity_v4">>,
   <<"file_v4", "logo", "logo_v4">>}
  \cup {<<f, s, s>> : f \in {"file_v3", "file_v4"},
                      s \in {"size", "version", "language", "os"}}

\* Children that open a transaction: in state `in`, an element opens one of
\* kind `tx` and leads to `to`.  `check` says when a required attribute is
\* looked at: before the transaction is opened, after, or there is none;
\* `copies`, whether the handler goes on to copy an attribute into it.
Opening ==
  {[in |-> "files_v3", tx |-> "file", to |-> "file_v3",
    check |-> "before", copies |-> TRUE],
   [in |-> "resources_v3", tx |-> "resource", to |-> "url",
    check |-> "after", copies |-> TRUE],
   [in |-> "verification_v3", tx |-> "checksum", to |-> "hash",
    check |-> "before", copies |-> TRUE],
   [in |-> "verification_v3", tx |-> "chunk", to |-> "pieces_v3",
    check |-> "before", copies |-> TRUE],
   [in |-> "pieces_v3", tx |-> "piece_hash", to |-> "piece_hash",
    check |-> "before", copies |-> FALSE],
   [in |-> "metalink_v4", tx |-> "file", to |-> "file_v4",
    check |-> "before", copies |-> TRUE],
   [in |-> "file_v4", tx |-> "resource", to |-> "url",
    check |-> "none", copies |-> TRUE],
   [in |-> "file_v4", tx |-> "metaurl", to |-> "metaurl_v4",
    check |-> "after", copies |-> TRUE],
   [in |-> "file_v4", tx |-> "checksum", to |-> "hash",
    check |-> "before", copies |-> TRUE],
   [in |-> "file_v4", tx |-> "chunk", to |-> "pieces_v4",
    check |-> "before", copies |-> TRUE],
   [in |-> "file_v4", tx |-> "signature", to |-> "signature_v4",
    check |-> "before", copies |-> TRUE],
   [in |-> "pieces_v4", tx |-> "piece_hash", to |-> "piece_hash",
    check |-> "none", copies |-> FALSE]}

\* The state a text element returns to.
FileText == {"size", "version", "language", "os"}

\* Mutation: version 3 leaves <hash> for the file, as version 4 does.
SharedReturnHashToFile(f, ns) ==
  CASE f \in FileText   -> IF ns = "v3" THEN "file_v3" ELSE "file_v4"
    [] f = "url"        -> IF ns = "v3" THEN "resources_v3" ELSE "file_v4"
    [] f = "hash"       -> IF ns = "v3" THEN "file_v3" ELSE "file_v4"
    [] f = "piece_hash" -> IF ns = "v3" THEN "pieces_v3" ELSE "pieces_v4"

SharedReturn(f, ns) ==
  CASE f \in FileText   -> IF ns = "v3" THEN "file_v3" ELSE "file_v4"
    [] f = "url"        -> IF ns = "v3" THEN "resources_v3" ELSE "file_v4"
    [] f = "hash"       -> IF ns = "v3" THEN "verification_v3" ELSE "file_v4"
    [] f = "piece_hash" -> IF ns = "v3" THEN "pieces_v3" ELSE "pieces_v4"

\* Mutation: <published> and <updated> return to the file.
OwnReturnDatesToFile(f) ==
  CASE f \in {"identity_v3", "tags_v3"}     -> "metalink_v3"
    [] f \in {"generator_v4", "origin_v4"}  -> "metalink_v4"
    [] OTHER                                -> "file_v4"

OwnReturn(f) ==
  CASE f \in {"identity_v3", "tags_v3"} -> "metalink_v3"
    [] f \in {"generator_v4", "origin_v4", "published_v4", "updated_v4"} ->
         "metalink_v4"
    [] OTHER -> "file_v4"

\* The open object the end handler of a text element writes to; those of the
\* other text elements write to the metalink or to a list.
ScalarOfFile ==
  {"size", "version", "description_v4", "copyright_v4", "identity_v4", "logo_v4"}

ItemText == {"url", "hash", "piece_hash", "metaurl_v4", "signature_v4"}

Target ==
  [f \in ScalarOfFile \cup ItemText |->
     CASE f = "url"          -> "resource"
       [] f = "hash"         -> "checksum"
       [] f = "piece_hash"   -> "piece_hash"
       [] f = "metaurl_v4"   -> "metaurl"
       [] f = "signature_v4" -> "signature"
       [] OTHER              -> "file"]

-----------------------------------------------------------------------------
(***************************************************************************)
(* What a handler does last: the metalink_pstm_enter_* functions,          *)
(* error_handler, and the two ways it stops the process.                   *)
(***************************************************************************)
Enter(f) ==
  /\ fun' = f
  /\ buffering' = (f \in Text)
  /\ UNCHANGED <<before_fun, skip_depth, error, run>>

EnterSkip ==
  /\ before_fun' = fun
  /\ fun' = "skip"
  /\ buffering' = FALSE
  /\ skip_depth' = 1
  /\ UNCHANGED <<error, run>>

\* Mutation: buffering is switched on after every ignored element.
BufferAfterSkip == TRUE

\* exit_skip restores buffering from before_skip_character_buffering, which
\* stays as memset left it.  before_fun is dead from here on: it is reset only
\* to keep it from telling states apart.
BeforeSkipBuffering == FALSE

\* Mutation: the skip state is left with the depth still counted.
ExitSkipKeepsDepth ==
  /\ fun' = before_fun
  /\ buffering' = BeforeSkipBuffering
  /\ before_fun' = "null"
  /\ UNCHANGED <<skip_depth, error, run>>

ExitSkip ==
  /\ fun' = before_fun
  /\ buffering' = BeforeSkipBuffering
  /\ before_fun' = "null"
  /\ skip_depth' = 0
  /\ UNCHANGED <<error, run>>

ErrorHandler(e) ==
  /\ error' = e
  /\ fun' = "null"
  /\ buffering' = FALSE
  /\ UNCHANGED <<before_fun, skip_depth, run>>

Stop(how) == run' = how /\ UNCHANGED <<stateVars, error>>

Stay == UNCHANGED <<stateVars, error, run>>

\* Leaving a text element.  A namespace that is neither Metalink 3 nor 4 ends
\* in assert(0), which an NDEBUG build leaves out.
Return ==
  IF fun \in OwnText THEN Enter(OwnReturn(fun))
  ELSE IF ns_uri # "other" THEN Enter(SharedReturn(fun, ns_uri))
  ELSE IF Assertions THEN Stop("aborted") ELSE Stay

Succeeds == oom' = oom
Fails == MallocMayFail /\ oom' = TRUE

-----------------------------------------------------------------------------
(***************************************************************************)
(* Start tags.                                                             *)
(***************************************************************************)
\* start_element_handler records the namespace, then calls start_fun.
StartElement(ns) ==
  /\ run = "parsing"
  /\ depth < MaxDepth
  /\ ~rootDone
  /\ depth' = depth + 1
  /\ ns_uri' = ns
  /\ UNCHANGED <<rootDone, ended>>

InsideText == fun \in Text \/ (fun = "skip" /\ before_fun \in Text)

StartIgnored(ns) ==
  /\ fun \in {"null", "fin"}
  /\ StartElement(ns)
  /\ Stay
  /\ Succeeds
  /\ UNCHANGED <<pctrlVars, version>>

StartInSkip(ns) ==
  /\ fun = "skip"
  /\ skip_depth < MaxSkip
  /\ InsideText => ForeignInText \/ ns = version
  /\ StartElement(ns)
  /\ skip_depth' = skip_depth + 1
  /\ Succeeds
  /\ UNCHANGED <<pctrlVars, fun, before_fun, buffering, version, error, run>>

\* initial_state_start_fun on <metalink>; a v3 origin attribute is copied and
\* a failure of that is not noticed.
StartMetalink(ns) ==
  /\ fun = "initial"
  /\ ns \in {"v3", "v4"}
  /\ StartElement(ns)
  /\ version' = ns
  /\ Enter(IF ns = "v3" THEN "metalink_v3" ELSE "metalink_v4")
  /\ Succeeds \/ (ns = "v3" /\ Fails)
  /\ UNCHANGED pctrlVars

\* Every element that is skipped with all it contains: an unknown root, any
\* child of a text element, and in a container an element of another
\* namespace, an unknown one, or one without an attribute that is required
\* and looked at before a transaction is opened.
StartSkipped(ns) ==
  /\ fun \in Text \cup Container \cup {"initial"}
  /\ InsideText => ForeignInText \/ ns = version
  /\ StartElement(ns)
  /\ EnterSkip
  /\ Succeeds
  /\ UNCHANGED <<pctrlVars, version>>

\* <resources> sets maxconnections of the open file.
StartPlain(c) ==
  /\ fun = c[1]
  /\ c[2] = "files" /\ ~Repeats => files = <<>>
  /\ StartElement(NsOf(fun))
  /\ IF c[2] = "resources" /\ temp["file"] = NULL THEN Stop("crashed")
     ELSE Enter(c[3])
  /\ Succeeds
  /\ UNCHANGED <<pctrlVars, version>>

\* <publisher> copies its attributes into the open file and is then skipped.
StartPublisher ==
  /\ fun = "file_v4"
  /\ StartElement(NsOf(fun))
  /\ IF temp["file"] = NULL THEN Stop("crashed") /\ Succeeds
     ELSE \/ EnterSkip /\ Succeeds
          \/ ErrorHandler("bad_alloc") /\ Fails
  /\ UNCHANGED <<pctrlVars, version>>

\* Mutation: the result of opening the transaction is not looked at.
StartTransactionUnchecked(c) ==
  /\ fun = c.in
  /\ StartElement(NsOf(fun))
  /\ \/ NewTransaction(c.tx, Unranked) /\ Succeeds
     \/ NewTransactionFails(c.tx) /\ Fails
  /\ Enter(c.to)
  /\ UNCHANGED version

StartTransaction(c) ==
  /\ fun = c.in
  /\ c.tx = "chunk" /\ ~Repeats =>
       temp["file"] # NULL /\ own[temp["file"]]["chunk_checksum"] = <<>>
  /\ StartElement(NsOf(fun))
  /\ \/ \E p \in Priorities(c.tx) : NewTransaction(c.tx, p) /\ Enter(c.to) /\ Succeeds
     \/ c.check = "after" /\ NewTransaction(c.tx, Unranked) /\ EnterSkip /\ Succeeds
     \/ NewTransactionFails(c.tx) /\ ErrorHandler("bad_alloc") /\ Fails
     \/ c.copies /\ NewTransaction(c.tx, Unranked) /\ ErrorHandler("bad_alloc") /\ Fails
  /\ UNCHANGED version

Start ==
  \/ \E ns \in Ns : \/ StartIgnored(ns)
                    \/ StartInSkip(ns)
                    \/ StartMetalink(ns)
                    \/ StartSkipped(ns)
  \/ \E c \in Plain : StartPlain(c)
  \/ StartPublisher
  \/ \E c \in Opening : StartTransaction(c)

-----------------------------------------------------------------------------
(***************************************************************************)
(* End tags.                                                               *)
(***************************************************************************)
\* end_element_handler passes the namespace of the element started last.
EndElement ==
  /\ run = "parsing"
  /\ depth > 0
  /\ depth' = depth - 1
  /\ rootDone' = (depth = 1)
  /\ ended' = IF fun \in {"file_v3", "file_v4"} /\ temp["file"] # NULL
              THEN Append(ended, temp["file"]) ELSE ended
  /\ UNCHANGED <<ns_uri, version>>

EndIgnored ==
  /\ fun \in {"null", "fin", "initial"}
  /\ EndElement
  /\ Stay
  /\ Succeeds
  /\ UNCHANGED pctrlVars

EndInSkip ==
  /\ fun = "skip"
  /\ EndElement
  /\ IF skip_depth = 1 THEN ExitSkip
     ELSE /\ skip_depth' = skip_depth - 1
          /\ UNCHANGED <<fun, before_fun, buffering, error, run>>
  /\ Succeeds
  /\ UNCHANGED pctrlVars

Dangling == fun \in DOMAIN Target /\ temp[Target[fun]] = NULL

\* Text stored by one setter.  <size> and the dates allocate nothing; for
\* <generator> and <origin> a failed copy is not noticed.
EndScalar ==
  /\ fun \in Text \ (ItemText \cup {"version", "language", "os"})
  /\ EndElement
  /\ IF Dangling THEN Stop("crashed") /\ Succeeds
     ELSE \/ Return /\ Succeeds
          \/ fun \in {"generator_v4", "origin_v4"} /\ Return /\ Fails
          \/ /\ fun \notin {"size", "published_v4", "updated_v4",
                            "generator_v4", "origin_v4"}
             /\ ErrorHandler("bad_alloc")
             /\ Fails
  /\ UNCHANGED pctrlVars

\* version_state_end_fun: whatever the setter returned, the handler goes on
\* to choose the next state, which undoes the state error_handler entered.
EndVersion ==
  /\ fun = "version"
  /\ EndElement
  /\ IF Dangling THEN Stop("crashed") /\ Succeeds
     ELSE \E failed \in BOOLEAN :
       /\ IF failed THEN Fails ELSE Succeeds
       /\ IF ns_uri = "other" /\ Assertions THEN Stop("aborted")
          ELSE /\ fun' = IF ns_uri # "other" THEN SharedReturn(fun, ns_uri)
                         ELSE IF failed THEN "null" ELSE "file_v3"
               /\ buffering' = FALSE
               /\ error' = IF failed THEN "bad_alloc" ELSE error
               /\ UNCHANGED <<before_fun, skip_depth, run>>
  /\ UNCHANGED pctrlVars

StringListOf == [language |-> "languages", os |-> "oses"]

EndString ==
  /\ fun \in DOMAIN StringListOf
  /\ EndElement
  /\ \/ AddString(StringListOf[fun]) /\ Return /\ Succeeds
     \/ AddStringAppendFails /\ ErrorHandler("bad_alloc") /\ Fails
     \/ UNCHANGED pctrlVars /\ ErrorHandler("bad_alloc") /\ Fails

\* Text that completes an object: it is set and the object is committed.  The
\* set or the append may fail; for a piece hash the former is not noticed.
CommitTarget ==
  IF fun = "signature_v4"
  THEN IF temp["file"] = NULL THEN Stop("crashed") /\ Succeeds /\ UNCHANGED pctrlVars
       ELSE CommitSignature /\ Return /\ Succeeds
  ELSE \/ CommitItem(Target[fun]) /\ Return /\ Succeeds
       \/ CommitItem(Target[fun]) /\ fun = "piece_hash" /\ Return /\ Fails

EndItem ==
  /\ fun \in ItemText
  /\ EndElement
  /\ IF Dangling THEN Stop("crashed") /\ Succeeds /\ UNCHANGED pctrlVars
     ELSE \/ CommitTarget
          \/ UNCHANGED pctrlVars /\ ErrorHandler("bad_alloc") /\ Fails

\* Mutation: </metalink> of version 4 does not hand the files over.
EndFilesOfV3 ==
  /\ fun \in {"files_v3", "metalink_v4"}
  /\ EndElement
  /\ IF fun = "files_v3" THEN AccumulateFiles /\ Enter("metalink_v3")
     ELSE UNCHANGED pctrlVars /\ Enter("fin")
  /\ Succeeds

\* </files> of version 3 and </metalink> of version 4 hand the files over.
EndFiles ==
  /\ fun \in {"files_v3", "metalink_v4"}
  /\ EndElement
  /\ \/ /\ AccumulateFiles
        /\ Enter(IF fun = "files_v3" THEN "metalink_v3" ELSE "fin")
        /\ Succeeds
     \/ AccumulateFilesFails /\ ErrorHandler("bad_alloc") /\ Fails

EndFile ==
  /\ fun \in {"file_v3", "file_v4"}
  /\ EndElement
  /\ IF temp["file"] = NULL
     THEN ErrorHandler("no_file_transaction") /\ UNCHANGED pctrlVars /\ Succeeds
     ELSE \/ /\ CommitFile("none")
             /\ Enter(IF fun = "file_v3" THEN "files_v3" ELSE "metalink_v4")
             /\ Succeeds
          \/ \E fail \in CommitFailures \ {"none"} :
               CommitFile(fail) /\ ErrorHandler("bad_alloc") /\ Fails

EndPieces ==
  /\ fun \in {"pieces_v3", "pieces_v4"}
  /\ EndElement
  /\ IF temp["chunk"] = NULL
     THEN ErrorHandler("no_chunk_checksum_transaction") /\ UNCHANGED pctrlVars /\ Succeeds
     ELSE IF temp["file"] = NULL
     THEN ErrorHandler("no_file_transaction") /\ UNCHANGED pctrlVars /\ Succeeds
     ELSE \/ /\ CommitChunk
             /\ Enter(IF fun = "pieces_v3" THEN "verification_v3" ELSE "file_v4")
             /\ Succeeds
          \/ CommitChunkFails /\ ErrorHandler("bad_alloc") /\ Fails

EndPlain ==
  /\ fun \in {"metalink_v3", "resources_v3", "verification_v3"}
  /\ EndElement
  /\ Enter(IF fun = "metalink_v3" THEN "fin" ELSE "file_v3")
  /\ Succeeds
  /\ UNCHANGED pctrlVars

End ==
  \/ EndIgnored \/ EndInSkip
  \/ EndScalar \/ EndVersion \/ EndString \/ EndItem
  \/ EndFiles \/ EndFile \/ EndPieces \/ EndPlain

-----------------------------------------------------------------------------
(***************************************************************************)
(* The end of the parse: metalink_handle_parse_result and the deletion of  *)
(* the session.  The parser is content with a whole document, and with the *)
(* beginning of one if it is not told that the input ended.                *)
(***************************************************************************)
Finish(ok) ==
  /\ run = "parsing"
  /\ ok /\ FinalChunk => rootDone
  /\ DeleteSession(ok /\ error = "none")
  /\ run' = "done"
  /\ UNCHANGED <<stateVars, envVars, version, error, oom>>

Delete == AppDelete /\ UNCHANGED <<stateVars, envVars, version, error, run, oom>>

Terminated ==
  /\ run \in {"aborted", "crashed"} \/ (run = "done" /\ holder = "none")
  /\ UNCHANGED vars

Init ==
  /\ PctrlInit
  /\ fun = "initial"
  /\ before_fun = "null"
  /\ skip_depth = 0
  /\ buffering = FALSE
  /\ version = "none"
  /\ error = "none"
  /\ ns_uri = "other"
  /\ depth = 0
  /\ rootDone = FALSE
  /\ ended = <<>>
  /\ run = "parsing"
  /\ oom = FALSE

Next ==
  \/ Start
  \/ End
  \/ \E ok \in BOOLEAN : Finish(ok)
  \/ Delete
  \/ Terminated

Spec == Init /\ [][Next]_vars

-----------------------------------------------------------------------------
(***************************************************************************)
(* Properties.                                                             *)
(***************************************************************************)
Errors == {"none", "bad_alloc", "no_file_transaction",
           "no_chunk_checksum_transaction"}

HandlerTypeOK ==
  /\ fun \in Fun
  /\ before_fun \in Fun \ {"skip"}
  /\ skip_depth \in Nat
  /\ fun = "skip" <=> skip_depth > 0
  /\ buffering \in BOOLEAN
  /\ error \in Errors
  /\ run \in {"parsing", "done", "aborted", "crashed"}

DocumentTypeOK ==
  /\ version \in {"none", "v3", "v4"}
  /\ ns_uri \in Ns
  /\ depth \in Nat
  /\ rootDone \in BOOLEAN
  /\ ended \in Seq(Addr)
  /\ oom \in BOOLEAN

\* The variables hold what the C declarations allow, and an element is being
\* skipped exactly when skip_depth counts it.
TypeOK == PctrlTypeOK /\ HandlerTypeOK /\ DocumentTypeOK

\* The handlers that are in charge once the ignored elements are closed.
Here == IF fun = "skip" THEN before_fun ELSE fun

InFile ==
  (Text \cup Container) \
    {"metalink_v3", "files_v3", "metalink_v4", "identity_v3", "tags_v3",
     "generator_v4", "origin_v4", "published_v4", "updated_v4"}

InPieces == {"pieces_v3", "pieces_v4", "piece_hash"}

\* What holds of the transactions while state h is in charge.
OpenIn(h) ==
  /\ h \in InFile => temp["file"] # NULL
  /\ h \in InPieces => temp["chunk"] # NULL
  /\ h \in DOMAIN Target => temp[Target[h]] # NULL
  /\ h \notin InFile => temp["file"] = NULL /\ \A l \in FileLists : list[l] = <<>>

\* Transaction discipline.  The setters use ctrl->temp_* without a check, and
\* the states are the only thing that makes this safe: in the states inside a
\* file a file is open, inside <pieces> a chunk checksum, in a text element the
\* object it belongs to; and before the next file is opened the last one has
\* taken everything that was collected for it.
TransactionsOpen == run = "parsing" /\ Here # "null" => OpenIn(Here)

\* No document and no failing allocation makes the library report one of the
\* transaction errors that lib/metalink_helper.c calls a bug, or use a NULL
\* transaction.
NoInternalError ==
  /\ error \in {"none", "bad_alloc"}
  /\ run # "crashed"

\* What was found inside a file is attached to that file, and a piece hash to
\* the <pieces> it stood in, although temp_resource and the other transactions
\* of an abandoned element stay open and the lists are shared by all files.
FilesKeepTheirOwn ==
  /\ \A f \in Live : kind[f] \in {"file", "chunk"} => \A a \in Fields(f) : home[a] = f
  /\ run = "parsing" /\ Here \in InFile =>
       \A l \in FileLists : \A a \in Range(list[l]) : home[a] = temp["file"]

\* What the parse leaves allocated beyond the result it hands out.
Leaked == Live \ IF holder = "app" THEN Trees(Range(files)) ELSE {}

\* After the session is deleted nothing is left but the result, except copies
\* of <language> and <os> text, and those only if the document broke off or
\* an allocation failed.
OnlyStringsLeak ==
  run = "done" => \A a \in Leaked : kind[a] = "string" /\ (oom \/ ~rootDone)

\* The array the application is handed for a whole document is the files whose
\* end tags were read, each once and in the order of the document, and none of
\* them was freed: committing appends to a list, which the end of <files> or of
\* <metalink> turns into the array, overwriting the one that was there.
EveryFileHandedOver ==
  [][run = "parsing" /\ holder' = "app" /\ rootDone =>
       files' = ended /\ \A f \in Range(ended) : kind'[f] = "file"]_vars

(***************************************************************************)
(* What comments, assertions and the manual say and the code does not do.  *)
(***************************************************************************)
\* No assert(0) is reached: the text handlers are only called for elements of
\* one of the two Metalink namespaces.
NoAssertionFails == run # "aborted"

\* The comment on error_handler: it enters the null state, "where no further
\* state transition takes place".
ErrorIsFinal == run = "parsing" /\ error # "none" => fun = "null"

\* The manual page of metalink_parse_file: "When error occurred, non-zero value
\* error code is returned and metalink_t structure is not allocated."
ErrorsAreReported == holder = "app" => ~oom

\* The comment in delete_metalink_pctrl: "metalink_list_delete takes care of
\* freeing the pointers in those lists", the lists of languages and oses.
NothingLeaks == run = "done" => Leaked = {}

(***************************************************************************)
(* The abstract view of the states: ElementPath.                           *)
(***************************************************************************)
FilePath == IF version = "v3" THEN <<"metalink", "files", "file">>
                              ELSE <<"metalink", "file">>

Sub(parent, names) == {<<parent, n>> : n \in names}

\* The elements the two versions of the format recognise, and where.
NestingOf(v) ==
  IF v = "v3"
  THEN LET file   == <<"metalink", "files", "file">>
           verify == Append(file, "verification")
       IN  Sub(<<"metalink">>, {"identity", "tags", "files"})
           \cup Sub(<<"metalink", "files">>, {"file"})
           \cup Sub(file, {"size", "version", "language", "os", "verification",
                           "resources"})
           \cup Sub(Append(file, "resources"), {"url"})
           \cup Sub(verify, {"hash", "pieces"})
           \cup Sub(Append(verify, "pieces"), {"hash"})
  ELSE LET file == <<"metalink", "file">>
       IN  Sub(<<"metalink">>, {"file", "generator", "origin", "published", "updated"})
           \cup Sub(file, {"size", "version", "language", "os", "url", "metaurl",
                           "hash", "pieces", "signature", "description",
                           "copyright", "identity", "logo"})
           \cup Sub(Append(file, "pieces"), {"hash"})

AllNesting == Sub(<<>>, {"metalink"}) \cup NestingOf("v3") \cup NestingOf("v4")

\* The path a state stands for.
PathOf(f) ==
  LET file   == FilePath
      verify == IF version = "v3" THEN Append(file, "verification") ELSE file
  IN  CASE f \in {"metalink_v3", "metalink_v4"} -> <<"metalink">>
        [] f = "files_v3"        -> <<"metalink", "files">>
        [] f \in {"file_v3", "file_v4"} -> file
        [] f = "resources_v3"    -> Append(file, "resources")
        [] f = "verification_v3" -> Append(file, "verification")
        [] f \in {"pieces_v3", "pieces_v4"} -> Append(verify, "pieces")
        [] f = "piece_hash"      -> verify \o <<"pieces", "hash">>
        [] f = "hash"            -> Append(verify, "hash")
        [] f = "url" -> IF version = "v3" THEN file \o <<"resources", "url">>
                                          ELSE Append(file, "url")
        [] f \in FileText        -> Append(file, f)
        [] f = "identity_v3"     -> <<"metalink", "identity">>
        [] f = "tags_v3"         -> <<"metalink", "tags">>
        [] f = "generator_v4"    -> <<"metalink", "generator">>
        [] f = "origin_v4"       -> <<"metalink", "origin">>
        [] f = "published_v4"    -> <<"metalink", "published">>
        [] f = "updated_v4"      -> <<"metalink", "updated">>
        [] f = "description_v4"  -> Append(file, "description")
        [] f = "copyright_v4"    -> Append(file, "copyright")
        [] f = "identity_v4"     -> Append(file, "identity")
        [] f = "logo_v4"         -> Append(file, "logo")
        [] f = "signature_v4"    -> Append(file, "signature")
        [] f = "metaurl_v4"      -> Append(file, "metaurl")
        [] OTHER                 -> <<>>

Abstract == INSTANCE ElementPath
  WITH Nesting <- AllNesting,
       path    <- PathOf(Here),
       ignored <- IF fun = "skip" THEN skip_depth ELSE 0,
       failed  <- Here = "null"

\* The states implement ElementPath ...
ImplementsElementPath == Abstract!Spec

\* ... and stay level with the document: the open elements are the path and
\* the ignored ones.
InStep ==
  run = "parsing" /\ Here # "null" => depth = Len(PathOf(Here)) + skip_depth

=============================================================================
