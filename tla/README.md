# A verification of libmetalink in TLA+

libmetalink is a C library that parses Metalink 3 and Metalink 4 documents into
a `metalink_t`.  It is sequential: one XML parser (expat or libxml2) calls the
library's SAX handlers, these drive a state machine of function pointers, and
the state machine drives a transaction layer that builds the result.  What is
hard about it is not concurrency but *protocol*: two layers below the parser
trust the order of the calls they get, any `malloc` may fail in the middle of a
hand-over of pointers, and a document may be any sequence of elements, and may
stop anywhere.

This directory holds TLA+ modules translated from the code, the configurations
TLC checks them with, and proofs that TLAPS checks.  `PROJECT.json` is the index:
the components, the runs, the source lines every definition models, for every
property a change of the code that TLC finds with it, the hazards, the findings
and the theorems.

## Inventory

| Component | State | Operations | Who calls it |
| --- | --- | --- | --- |
| Entry points (`metalink_parse_file`, `_fp`, `_fd`, `_memory`; context `new`, `update`, `final`, `delete`), one set per back end | parser, session, result | read loop, feed a chunk, finish | the application |
| SAX handlers (`lib/libexpat_metalink_parser.c`, `lib/libxml2_metalink_parser.c`) | - | start element, end element, characters | the XML parser |
| Session data, stack, string buffer (`lib/metalink_session_data.c`, `metalink_stack.c`, `metalink_string_buffer.c`) | stack of buffers; name and namespace of the last started element | push, pop, top, append, delete | the SAX handlers |
| State machine (`lib/metalink_pstm.c`, `metalink_pstate.c`, `_v3.c`, `_v4.c`) | `start_fun`, `end_fun`, the pair to return to, `skip_depth`, `character_buffering` | 32 pairs of handlers, `enter_*`, `exit_skip`, `error_handler` | the SAX handlers |
| Transaction layer (`lib/metalink_pctrl.c`) | seven lists, seven open objects, the metalink, the error | new, set, commit, add, accumulate, detach, delete | the handlers |
| Objects (`lib/metalink_types.c`) | arrays and strings of each object | setters, destructors | the transaction layer, the application |
| List (`lib/metalink_list.c`) | cells | append, clear, for_each, to_array | the transaction layer |
| Path check, namespace match (`lib/metalink_helper.c`) | none | check a path, match a namespace | the handlers |
| Dates and numbers (`parse_date`, `lib/timegm.c`, `strtol` in each handler) | none | read a date, read a number | the handlers |
| Token lookup (`lib/metalink_pstate.c`, generated), `lib/strptime.c`, error strings | none | lookups | the SAX handlers, `parse_date`, the application |

Interaction: everything is a direct call within one SAX callback.  State is
shared in two places.  The handlers and the transaction layer share `temp_*`
and the lists, which the setters dereference without a check.  The SAX handlers and
the state machine share `character_buffering`, which the machine writes and the
handlers read to decide whether there is a buffer to push or to pop.

What each must get right:

* **Transaction layer**: every object has one owner and is freed once, by the
  destructor of its kind; lists of one file do not reach the next; a committed
  file is sorted; a commit that failed half-way can be repeated or abandoned.
* **State machine**: its state is the place in the document; whatever stands
  where it is not expected is ignored with all it contains, and nothing else is;
  a setter or a commit is called only while its transaction is open.
* **SAX handlers**: a text element gets its own characters, all of them, and the
  buffer stack is never popped empty.
* **Entry points**: a call returns; it returns 0 exactly if it hands out a
  result; whatever it allocated is gone when it has returned, and on no path
  twice.  The two back ends have eight loops and drivers for the same ten
  functions, and each deals with the end of the input, a failed read, an
  interrupted read and a missing session in its own way.
* **Constructors and destructors**: an allocation that fails half-way gives back
  everything, once; destructors run on half-made objects.
* **Containers, strings, numbers, dates, paths**: what went in comes out, inside
  the memory there is and the range there is.
* **Result**: a document read to its end hands over every file; nothing else
  stays allocated; an error is reported and nothing is handed out.

## Modules

| Module | Models | Correspondence |
| --- | --- | --- |
| `Pctrl` | `metalink_pctrl.c`, destructors of `metalink_types.c` | Pointers are kept: `kind`, `own`, `prio` describe the heap, `list` and `temp` are the members of `metalink_pctrl_t`, `files` and `holder` its metalink.  One action per function, and one per way it fails. |
| `Pstm` | `metalink_pstm.c`, `metalink_pstate*.c`, `metalink_parser_common.c` | `fun` is the pair of function pointers, named after it.  One action per handler or per family of handlers that differ only in names; the tables `Plain`, `Opening`, `SharedReturn`, `OwnReturn`, `Target` hold those.  The environment is an XML parser that reports the elements of any well-formed document or stops. |
| `ElementPath` | - (abstract) | The path of recognised elements that are open, how many are ignored, and that an end tag closes exactly one.  `Pstm` implements it by `PathOf`. |
| `Session` | the SAX handlers of both back ends, stack, buffers | Extends `Pstm`; a buffer is the sequence of numbered pieces of text appended to it, `NULL` one that was not allocated. |
| `ParseApi` | `metalink_parse_*`, the parser context, `metalink_parser_common.c`, in both back ends | `pc` is the place in the call, `held` what it has allocated, `r`, `code`, `res` its variables.  The XML parser is `fed`, what it has seen of the document, and `told`, whether it knows that this was all; the source has `left` chunks and may fail or be interrupted. |
| `ParseContract` | the promises of `metalink_parser.h` (abstract) | A call ends with a result or an error and holds nothing, or leaves a context open that is finished or deleted. |
| `Construct` | constructors and destructors of context, session, state machine, transaction layer and list members | `agenda` is the C call stack, the calls that are still to be made, in order. |
| `Ranking` | the handlers of `<url>` and `<metaurl>`, preference and priority, the comparators | An `int` is `IntMin..IntMax` with wraparound; `qsort` may return any order if its comparison is none. |
| `Numbers` | each place where a handler calls `strtol` or `strtoll` | The text is a number, or none, with or without something behind it; the widths of `int`, `long`, `long long` are kept. |
| `Calendar` | `parse_date`, `timegm.c` | The same formulas, in minutes, with the division of C and a `time_t` of any range; next to it a calendar that only knows the lengths of the months. |
| `SafePath` | `metalink_check_safe_path` | `ReadChar` is a turn of the loop over the characters, `Judge` the checks behind it. |
| `MetalinkList` | `metalink_list.c` | `next` and `data` are the cells; a function with a loop is one action per turn, so that clearing and walking are seen in the middle. |
| `ListContract` | the list as a sequence (abstract) | One action per function of the header. `MetalinkList` implements it. |
| `StringBuffer` | `metalink_string_buffer.c` | `buffer` up to the capacity, with the bytes nobody wrote. |
| `Attributes` | the attribute loops of both `start_element_handler`s | The block of libxml2 byte by byte, with the two loops that measure and fill it. |
| `Fields` | the string setters and destructors of `metalink_types.c` | `field` is the pointer, `content` the heap blocks; `allocate_copy_string` frees, then allocates, and can fail between. |
| `MCPctrl` | - | `Pstm` in any document next to `Pctrl` under any caller, one of the two per behaviour. |
| `MCPstm`, `MCSession`, `MCParseApi` | - | Instances of those modules for TLC. |
| `MCCalls` | - | One instance of `ParseApi`, `Construct`, `MetalinkList` and `StringBuffer`. |
| `MCValues` | - | One instance of `Attributes`, `Numbers`, `Ranking`, `Calendar`, `SafePath` and `Fields`. |
| `*Proofs` | - | The proofs. |

`Pstm` extends `Pctrl` and `Session` extends `Pstm`, so a run of `Session` runs all
three layers together: a start tag is one step from the SAX handler through the
state handler to the transaction, as it is one call in the code.  The other
modules stand alone: the code they model is called with a value and returns one,
and what the layers above rely on is their contract.  `ParseApi` meets the
handlers in one variable, the error they leave in `metalink_pctrl_t`; `Session`
takes a string buffer to be the sequence of its pieces, which is `StringIsText`
in `TextInBlock` of `StringBuffer`; `Pctrl` takes a list to be a sequence, which is
`ImplementsList`; `Pstm` takes an attribute to be usable or not, which `Numbers`
and `Ranking` spell out.

`MCCalls` and `MCValues` put modules that share no variable and no step into one
run.  `part` is chosen at the start and says which of them takes the steps, so
that a behaviour of the run is a behaviour of one module while the variables of
the others rest in a state in which they could be; no property relates two of
them, and none is checked in fewer states than by itself.

Abstractions.  Element and attribute names are tokens, as they are in the code
after the lookup.  Attribute values are "usable" or not: an element with a
missing or unusable required attribute is `StartSkipped`, or, where the code opens
the transaction first, the `check = "after"` case of `StartTransaction`.
The strings that are fields of an object (name, url, hash ...) are part of the
object; copies in the lists of languages and oses are objects of their own, since
they change owner.  `home`, `ended` and `oom` are ghosts: where an object was found, which
files had their end tag read, and whether an allocation failed.  In `Ranking` an
address keeps, beside its numbers, the attribute they were made of.

`Assertions` says whether the library is built with `assert`.  With it a handler
that reaches `assert(0)` stops the process (`run = "aborted"`); a NULL
transaction used by a setter stops it too (`run = "crashed"`).  An address is
never reused, so a dangling pointer stays visible.

Operators marked `Mutation:` just above a definition are not used by the
specifications.  Each is a form of the next definition that a plausible mistake
in the code would give; `PROJECT.json` names the property that finds it.

## Runs

| Run | Instance | What it shows |
| --- | --- | --- |
| `pctrl` | `MCPctrl.cfg`: the functions in any order, 4 objects, 2 priorities, allocations fail | `SingleOwner`, `NoDanglingNoConfusion`, `CommittedFilesSorted`. |
| | the handlers of any document, 3 objects, everything allowed, the input may end early unnoticed | The same, and `FilesKeepTheirOwn` (`DocumentsKeepTheirOwn`): the ownership of objects does not depend on the restrictions of `pstm_in_step`.  (That the transaction protocol does not is proved.) |
| `pstm_in_step` | `MCPstmInStep.cfg`: 4 objects, depth 8, allocations fail, no foreign element inside a text element, no second `<files>` or `<pieces>` | `InStep` and `ImplementsElementPath`: the machine is where the document is.  `TransactionsOpen`, `NoInternalError`: the transaction protocol.  `FilesKeepTheirOwn`: nothing is attached to the wrong file.  `OnlyStringsLeak`: what is left.  `EveryFileHandedOver`: the array that is handed over is the files whose end tags were read. |
| `session` | `MCSession.cfg`: both back ends, 2 objects, 2 pieces of text, buffer allocations fail | `TextIsOwn`, `BuffersBalanced`, `OneBufferPerElement`. |
| `assertions` | `MCPstmAssert.cfg` | violated: `NoAssertionFails` |
| `error_final` | `MCPstmError.cfg` | violated: `ErrorIsFinal` |
| `errors_reported` | `MCPstmReport.cfg` | violated: `ErrorsAreReported` |
| `leaks` | `MCPstmLeak.cfg` | violated: `NothingLeaks` |
| `skip_text` | `MCSessionSkipText.cfg` | violated: `CollectsAfterSkip` |
| `calls` | `MCCalls.cfg`: all ten functions, 3 chunks, reads and allocations fail | `ResultIffSuccess`, `OnlyFdKeepsItsContext`: the code, `*res` and what stays allocated agree.  `SuccessIsWhole`: the functions that tell the parser about the end only succeed with whole documents.  `ErrorsStick`, `ContextKeepsSession`: the context over several updates.  `ImplementsContract`: the contract of the header.  `CallsReturn`: every call comes back. |
| | a context or a session, any allocation fails | `FreesAllOnce`: nothing is left and nothing freed twice, on the way out of a failed constructor and in a destructor. |
| | lists of 3 cells and 2 data | `ListIsSound`, `ImplementsList`, `WalksEnd` |
| | string buffers with a capacity from 1, pieces of up to 3, text of up to 6 | `TextInBlock` |
| `values` | `MCValues.cfg`: 3 attributes, values of up to 2 | `InsideBlock`, `AttributesArrive` |
| | `INT_MAX = 3`, `LLONG_MAX = 31`, `long` like either, numbers to 40 either way | `NumbersArrive` |
| | `int` up to 15, pivot 10, three addresses, with any of ten numbers around all limits, a text without digits, or none | `RankedAsAsked` |
| | every day of 26 years between 1967 and 2104, in five zones | `DatesRead` |
| | every path of up to 6 characters | `JudgedByComponents` |
| | 2 objects of any class, 3 blocks | `StringsOwned` |
| `api_loop` | `MCParseApiLoop.cfg`: all functions, `ApiFairSpec` | violated: `EveryCallReturns` |
| `context_new` | `MCConstructNew.cfg`: a context of libxml2 | violated: `NewReturns` |

`CallsTypeOK` and `ValuesTypeOK` are the type invariants of their modules
together.  Several properties are conjunctions of named parts, each stated and
commented by itself in its module.

Bounds, all constants:

* `Addr`, the objects allocated in a behaviour.  Four are a file with three
  objects in it, two files with one each and one more, or a chunk checksum with
  two piece hashes; that is every pair of kinds that meet in one list, array or
  field, and a second object to replace or follow the first.
* `MaxDepth`, the open elements.  Version 3 nests
  metalink/files/file/verification/pieces/hash, six deep; 8 leaves room for two
  ignored elements at the bottom.  `session` stops at 5, which is the `<hash>`
  and `<url>` of a file and an ignored element inside every other text.
* `MaxSkip`, elements inside an ignored one.  Only 1, 2 and "more" differ.
* `MaxPieces`, pieces of text.  Two are enough for a text with a child between
  them, or for two elements with a piece each that could be mixed up.
* `MaxBuffers`, buffers on the stack: those of the open elements and those left
  behind by earlier ones.

Deadlock is checked in the runs of `Pctrl`, `Pstm` and `Session` (`Terminated` is the
step of a parse that is over, `NothingToCall` that of a control block that is
gone with its metalink).

`ForeignInText = FALSE` in `pstm_in_step` is not a convenience.  A foreign child
of a text element makes the end handler fail its assertion (run `assertions`),
and in a build with `NDEBUG` the state machine stays in the text state, so
`InStep` is false there.  `Repeats = FALSE` keeps the two leaks by overwriting,
of a second `<files>` and of a second `<pieces>`, out of `OnlyStringsLeak`, and the
loss of the files of the first `<files>` out of `EveryFileHandedOver`.  `pctrl`
allows both.

The bounds of the smaller modules:

* `MaxChunks = 3` in `ParseApi`: a first chunk, which creates the parser of
  libxml2, one in the middle and a last one; the document may break in each.
* `MaxPath = 6` in `SafePath`: two components of two characters, with a slash
  between and at one end.  A check that looks at three characters at a time at
  both ends and at four in the middle cannot tell longer paths apart, and the
  theorems are for any length.
* `IntMax = 15`, `Pivot = 10`, `NoPriority = 9` in `Ranking` keep the order of the
  code's INT_MAX, 1000000 and 999999; `Numbers` has the values at and beside each
  and outside of `int` on both sides.
* `Years` in `Calendar`: the years around the epoch, around 2000 and around 2100,
  which are leap years by each rule, a century that is one and a century that is
  not, and both ends of `time_t`, which is set to end in 2102.
  Zones are 5:45 hours apart, so that hours, minutes and the date all change.
* `MaxNumber = 40` in `Numbers` is beyond `LLONG_MAX = 31`, with `INT_MAX = 3`;
  `long` has either width.
* `InitialCapacity = 1` in `StringBuffer` is outgrown by a first piece, and the
  capacity then grows with every piece, to exactly the text, on the way to 6.
* `MaxAttrs = 3` in `Attributes`: a known attribute before and behind one that is
  skipped, or two of one name and a third.
* Two objects and three blocks in `Fields`: a block that was freed can be given
  to another field, and the last allocation fails.

`CHECK_DEADLOCK FALSE` stands in `MCCalls.cfg`, `MCValues.cfg`, `MCConstructNew.cfg`
and `MCParseApiLoop.cfg`, whose systems stop: a call that crashed, an object that was
deleted, a number that was read, a path that was judged, an array that was
sorted, the day behind the last year.

Fairness.  The library is one thread, so within a call the next step is always
taken: weak fairness on its steps (`ApiFairSpec` of `ParseApi`, `ListFairSpec` of
`MetalinkList` on the turns of the loops; `Spec` of `MCCalls` has both).  A read
waits for its source.  `ApiFairSpec` assumes, strongly because an interruption
disables it for a moment, that it is not interrupted for ever: it comes back with
data, the end or an error.  Nothing is assumed of the application, which may leave
a context open for ever.  `CallsReturn` holds under this: a behaviour is again and
again between two calls, or again and again in the one loop that does not stop
at an error of `read` (`pc = "feedNothing"`).  `EveryCallReturns`, without this
exception, does not hold: finding 6.
No liveness is stated of `Pstm` and `Session`: they are driven by the input,
which may stop at any step.

## Findings

What the runs with an expected violation show, with the lines, is under
`findings` in `PROJECT.json`:

1. A child of another namespace inside `<size>`, `<url>`, `<hash>` ... leads to
   `assert(0)`: the end handler is passed the namespace of the child.
2. `version_state_end_fun` goes on after `error_handler`, and the document is
   processed with the error set.
3. A failed copy of origin, generator or a piece hash is not reported.
4. Languages and oses of an unfinished file leak; a comment says they are freed.
5. With expat a text element with a child element loses its text, because the
   flag to restore is never saved; with libxml2 it does not.
6. `metalink_parse_fd` of libxml2 passes the -1 of a failed read on as a length
   and asks again; if reads keep failing it never returns.  How `xmlParseChunk`
   takes a negative size depends on the version of libxml2: the model is of those
   that take it for an empty chunk.
7. `metalink_parser_context_new` crashes, instead of returning NULL as the header
   says, when the session can be allocated only in part: its destructor looks into
   a stack, or the transaction layer's into a list, that is not there.

Seen on the way, and what the passing properties say of it instead:

* `metalink_parse_fd` of libxml2 does not delete its context when an update fails
  (`OnlyFdKeepsItsContext` says that nothing else is left, and by nothing else;
  `ImplementsContract` counts that context as held by nobody, `Forgotten`).
* `metalink_parse_update` of libxml2 returns codes of libxml2, which
  `metalink_error.h` does not have (`Codes` next to `Documented`), and its
  `metalink_parse_final` makes a parser error of an allocation that failed in a
  handler; `ResultIffSuccess` and `ErrorsStick` hold all the same.
* `metalink_parse_fp`, and `_fd` and `_file` of expat, accept a document that breaks
  off, since they never say that it has ended (`SuccessIsWhole` is about the
  others, `ChecksTheEnd`).
* The entry functions but those on a context do not check whether there is a
  session, and crash without one (`HandlerCrashes`, `ReturnResultCrashes`).
* Handlers use memory that they did not get: the block for attribute values of
  libxml2, a string buffer, the text of one that could not grow.  `HandlerCrashes`
  of `ParseApi` allows this of any handler; `Attributes`, `Session` and
  `StringBuffer` have the places (`CopyCrashes`, `EndHandlerCrashes`,
  `AppendCrashes`).  `ContextKeepsSession` says that a function on a context
  crashes for no other reason.
* With expat, `setup_parser` calls setters on a parser that may be NULL
  (`CrashesUnset`, `SetupParser`); what they do then depends on the version of
  expat.
* `metalink_pctrl_file_set_language` and `_set_os` leave the list NULL when it
  cannot be replaced, which `delete_metalink_pctrl` does not expect.  No handler
  calls them: `Pctrl` has them (`FileSetString`), `Construct` does not.
* A second `<files>` replaces the array of the first, whose files are lost and leak;
  `EveryFileHandedOver` and `OnlyStringsLeak` are about documents with one.
* The string buffer copies to NULL when it cannot grow (`AppendCrashes`).
* Piece lengths that are not positive are accepted: 0, and text without digits.
  `NumbersArrive` allows 0 for those.
* A priority without digits, such as `priority="high"` or `priority=""`, is read as 0
  and so puts its address before all others in version 4, while a missing,
  negative or too large one puts it last (`WordsComeFirst`, `UnrankedLast`).  A
  preference without digits is 0 as well, which in version 3 is last.
* `preference` is 1000000 - priority where a comment in `metalink_types.h` has
  100000, and `count_leap_year` does not count the year 0; neither changes an
  order or a date (`RankedAsAsked`, `DatesRead`).
* libxml2 reports attributes by local name, so that a later attribute of a foreign
  namespace replaces the plain one.  `PlainAttributeWins` excepts it; expat gives
  names with their namespace and is not affected.
* A number with something behind it is read up to there; in a narrow `time_t` the
  offset of the zone is added to the -1 of `timegm`; the check of the last
  component's ending in `metalink_check_safe_path` overlaps with the search
  before it.

## Proofs

TLC checks the properties for small instances.  The theorems hold for any set of
addresses, any priorities, documents of any depth and length, any number of
chunks, paths of any length, lists and buffers of any size, any width of `int`,
any number of attributes and any year.

| Module | Theorems | Hypotheses |
| --- | --- | --- |
| `PctrlProofs` | `PctrlTypeCorrect`; `NoObjectHeldTwice` (`SingleOwner`), `NothingHeldIsFreed` (`NoDanglingNoConfusion`), `CommittedStaySorted` (`CommittedFilesSorted`) | - |
| `PstmProofs` | `TypeCorrect`; `ImplementsPctrl`, that `Spec` implies `PctrlSpec`, and with it `ParseHoldsOnce`, `ParseHoldsLive`, `ParseStaysSorted` | - |
| | `TransactionDiscipline` (`TransactionsOpen`), `NoTransactionErrors` (`NoInternalError`), `NothingStrays` (`FilesKeepTheirOwn`) | `Assertions` |
| `ElementPathProofs` | `StaysInStep` (`InStep`), `ElementPathImplemented` (`ImplementsElementPath`) | `~ForeignInText` |
| | `FilesHandedOver` (`EveryFileHandedOver`), `OnlyStringsAreLost` (`OnlyStringsLeak`) | `Assertions`, `~ForeignInText`, `~Repeats` |
| `SessionProofs` | `TextStaysOwn` (`TextIsOwn`), `BuffersStayBalanced` (`BuffersBalanced`), `OneBufferEach` (`OneBufferPerElement`) | `Assertions` |
| `ParseApiProofs` | `ResultMatchesCode`, `NothingIsKept`, `KeepsContract` (`ImplementsContract`); `NoTruncatedResult` (`SuccessIsWhole`), `ErrorsAreKept` (`ErrorsStick`), `ContextCrashesInHandlers` (`ContextKeepsSession`) | - |
| `CallsProofs` | `StaysSound` (`ListIsSound`), `IsTheSequence` (`ImplementsList`); `HoldsTheText` (`TextInBlock`); `FreedAllOnce` (`FreesAllOnce`) | - |
| | `CallsTyped` (`CallsTypeOK`) | `MCCallsAssumption` |
| `ValuesProofs` | `NumbersAlwaysArrive`, `RanksAsAsked`, `ReadsEveryDate`, `JudgesRightly`, `StringsStayOwned` | - |
| `AttributesProofs` | `NeverPastTheBlock` (`InsideBlock`), `AttributesAlwaysArrive` (`AttributesArrive`); `ValuesTyped` (`ValuesTypeOK`) | - |

Besides the hypotheses of the last column, the theorems assume what the modules
assume of their constants (`PctrlAssumption`, `PstmAssumption`,
`ParseApiAssumption` ...): types, ranges, and that NULL is no address, no buffer
and no character.  The bounds of the runs (`MaxDepth`, `MaxSkip`, `MaxPieces` ...)
are constants too and may have any value.

`Assertions`: without it a text state can be left half-way, with its object
already committed, and the next end tag finds the transaction closed.  What is
proved without it is what such a build can still rely on: types, ownership and
order.  `~ForeignInText` is needed for the place in the document for the same reason
as in the runs: a foreign child of a text element closes the element too early.
`~Repeats` is needed for `OnlyStringsAreLost` and `FilesHandedOver`: a second `<files>`
replaces the array of files, and a second `<pieces>` the chunk checksum, that the
first one left.

### The transaction layer

`SingleOwner` is not inductive, since `Held` collects what several operators
reach from the control block.  `Ownership` says it place by place:
`Holds(in, at, x)` is that the member or field `at` of `in` holds `x`, with `in` = NULL
for the control block.  Then

* `Shape`: an open transaction is one object, and a freed object has no fields;
* `Alone`: what one place holds no other holds;
* `Once`: no place holds an object twice;
* `RightKind`: what a place holds is live and of the kind that its destructor
  casts to.

A lemma per operation shows that whatever a place holds afterwards it got from one
place that lost it (`PlacesMove`), or is fresh.  `commit_file` is the long one,
since each of its lists can fail to become an array, and what was moved before
stays moved.  `FreeingOwns` is the lemma under every destructor: a tree that is
freed whole takes with it all that its members hold.  `CommittedFilesSorted` needs
`Ownership`, because an array stays sorted only if no other place can change its
file or its members.

### The state machine

`NoInternalError` is not inductive: a handler crashes when the
transaction it uses is not open, which depends on the state it is called in.
`TransactionsOpen` says of every state which transactions are open, and is not
enough by itself either, since a skipped element interrupts any state; it is
therefore stated of `Here`, the state that is in charge once ignored elements are
closed.  It also says that outside a file the lists of a file are empty, which
`commit_file` establishes because it moves *all* of them: forgetting one is the
mutation that violates it.  `Inv` is `TypeOK` with `Safe`, the conjunction of
`TransactionsOpen` and `NoInternalError`; every action has one lemma that it
preserves `Inv`, and those of the handlers rest on `EnterSafe`, `ReturnSafe` and
`ErrorSafe`, what the last call of a handler establishes, and on `KeepsOpen`.

`ImplementsPctrl` says that a handler is at most one call of the transaction layer
that changes its state, so what holds of that layer for calls in any order holds of
a parse.  `BelongInv` adds where objects were found: everything that hangs on a
file or waits in one of its lists was found in that file, and a file that is not
open gets nothing more.

`Placed` gives each state its place: `PathOf` of the state in charge is the path
that is open, and the state to return to from an ignored element is one above.
That the handlers go to the right place is a matter of tables, and lemmas
on them (`PathsV3`, `PathsV4`, `ParentAbove`, `ContainersBelow`) say that each entry
of `Plain`, `Opening`, `Target`, `SharedReturn` and `OwnReturn` goes one element
down or up.  `Handed` adds that a file is committed below `metalink` only, and
that the list of files is empty once the element that hands it over has ended.
`FilesHandedOver` rests on `Recorded`: as long as there is no error, the files whose
end tag was read are all in the list, in their order, or all in the array.  Only two
steps move them.  A commit appends to the list and needs the array to be still empty;
the hand-over replaces the array and needs the list to hold every file so far.  Both
come from `RoomAhead`, so that they fail for a document with a second `<files>`,
whose hand-over replaces an array that is in use.

`OnlyStringsLeak` is about the end of a session, and follows from an invariant of the
whole parse, `LeakInv`, that nothing is lost on the way.  `Astray` are the live
objects that no place holds, the other half of `Ownership`.  `Lossless` says that they
are copies of languages and oses that a full memory kept out of their list.  A lemma
per operation of `Pctrl` shows that it lets go of nothing (`Retains`), if the places
that it overwrites without freeing are empty: a committed file takes over the
lists, a committed chunk checksum the piece hashes and its place in the file, and the
hand-over replaces the array of files.  `RoomAhead` says which of these places are
empty in which state, and is where `~Repeats` comes in; `ChunkEmpty` says it of
the piece hashes, and `ErrorsHaveCause` that an error is one of allocation.
`FinishLeaves` takes this over the end of the session, which frees all that the
control block holds but the strings in its two lists of them.  `~ForeignInText` is
needed there: at the end of a whole document those lists are empty because the
machine is outside of every file.

### The SAX handlers

`SessionInv` is stronger for libxml2, where the stack is at all times the characters
of the open elements, one buffer each, than for expat, where buffers may be left
behind and the top is only known while text is wanted: `buffering` implies a text
state and that the top is the buffer of the innermost element.  `Sound` is weaker
than `Safe`, since the handlers crash on a buffer that was not allocated.

### The others

In `ParseApi` the results only agree because of what is true in the
middle of a call: `Inv` says where in a call what is allocated and which code `r`
may have.  The refinement maps a call in progress to `busy`, and what it holds to
"anything allocated", but for the context `Forgotten` by `metalink_parse_fd` of
libxml2; `UpdateStep` is the step in which that happens.  `Remembered` adds what the
parser was fed: a success at the place where the end is told is of a whole document,
and an error that was returned is still there, in the session or in the parser.

In `Ranking` the difference of two priorities fits because all
entries of one array come from one handler, so that they lie between
`Pivot - IntMax` and `Pivot` or between 0 and `IntMax`; `InRange` is that, and says
which number each kind of attribute becomes, so that the order of the array is
an order of attributes (`InvOrders`).
In `Calendar` the invariant is that local time less zone is the instant; the
lemma under it is that `Days` grows by one from each day to the next, month by
month, with `count_leap_year` growing by one exactly at leap years.  The induction
over the days is the one over the steps of the walk.  In `SafePath` the
invariant is that `filename_idx` is where the last component starts; that the
code's handful of positions and searches are equivalent to the statement
about components is proved from it without induction.  In `MetalinkList` `ListInv`
has the cursor
of a walk: it stands behind the turns made, and a clear has freed exactly the
cells before it.  In `Numbers` the clamp of the handler leaves what the cast to
`int` does not change (`CastKeeps`); the limits are constants, so nothing depends
on their being one less than a power of two.  In `Fields` no two fields point to one copy
(`Alone`), every copy is pointed to (`Found`), and only from a field its
destructor frees (`OwnFields`).

In `Construct` the agenda is the calls that are still to be made, so the invariant
`ConstructInv` is about its entries.  While the session is built, whatever is still to
be allocated has an owner that is there.  While it is deleted, the parts of an object
come before it (`PartsFirst`) and the object itself is freed after all of its parts
(`FreedLast`); a call is made by the destructor of the owner, or by the constructor
that failed, whose caller goes on with the owner (`CalledByOwner`); and an owner
that still points to what was freed does not use it again (`NoneAgain`).

In `Attributes` the end of the block is known only as a sum over the attributes,
by recursion.  The library's induction theorems take an operator and cannot be
instantiated, but its theorem that a well-founded relation has minimal elements
takes a set: `UpTo` is induction for a *set* of numbers, the set of those for which
the formula holds.  `RoomSums` is the equation of `Room` that follows.  The invariant
is that what was copied so far takes as much room as was measured for it, and that
it stands where the array says.

### The components of a run together

The runs `calls` and `values` have several components side by side, while the theorems
are about the specification of each.  `SideBySide`, in `CallsProofs` and in
`AttributesProofs`, is the conjunction of their invariants, and is an invariant of
the instance that is checked: a component that rests is in a state that its
invariant allows.  `CallsTyped` and `ValuesTyped` follow.  They say more than the
shape of the variables in two places: preference and priority of an address never
leave the range of `int` (`EntriesFit`), and `parse_date` always returns a `time_t`,
since what it adds to the -1 or to the end of the range is less than a day
(`ResultFits`).  `MCCallsAssumption` is that the instance has all calls, both
objects to construct and the data that its configuration gives it.

### Only model-checked

Liveness under fairness (`CallsReturn`, `WalksEnd`) and `ENABLED` are out of the
prover's reach.

Everything else that the passing runs check is also proved, under the hypotheses of
the table.

## Plan

In this order; all of them are done.

1. `Pctrl` and `MCPctrl`: ownership in the transaction layer.
2. `Pstm` and `MCPstm`: the handlers of both versions on top of it.
3. `ElementPath`: the abstract specification, implemented by `Pstm`.
4. `Session` and `MCSession`: the SAX handlers of both back ends.
5. `PctrlProofs`: type correctness.
6. `PstmProofs`: type correctness, transaction discipline, no internal errors.
7. `ParseApi`, `ParseContract`: the entry points and the parser context of both
   back ends, fairness of `read`, the contract of the header.
8. `Construct`: constructors that fail half-way, destructors on what there is.
9. `Ranking`, `Numbers`: the integers of a document.
10. `MetalinkList` with `ListContract`, `StringBuffer`, `Fields`, `Attributes`: the
    memory under the sequences and strings of the other modules.
11. `SafePath`, `Calendar`: the pure algorithms against reference definitions.
12. Proofs about 7, 9, 10 and 11.
13. Proofs of `SingleOwner`, `NoDanglingNoConfusion` and `CommittedFilesSorted` of
    `Pctrl`; that `Pstm` implements `Pctrl`, so that they hold of a parse; of
    `InStep` of `Pstm` and the refinement of `ElementPath`; of the properties of
    `Session`.
14. Proofs about `Attributes`, `Fields`, `Numbers`, and of `SuccessIsWhole`,
    `ErrorsStick` and `ContextKeepsSession` of `ParseApi`.
15. Proof of `OnlyStringsLeak`: that nothing is lost, next to `Ownership`, that
    nothing is held twice; proofs about 8.

## Not modelled

* The generated token lookup, by name length and letters: a table without state,
  whose model would be the same table.
* `strptime.c`, third-party code for systems without it: a scanner of text.
  `Calendar` starts from the fields it delivers, or from its refusal.
* `metalink_strerror` and `metalink_get_version`, constants; the setters that assign
  one scalar, of which only the ones that compute (preference, priority) are in
  `Ranking`; the build system.
* What the XML parsers do inside, and their versions: they are environment.
* That a setter is given a string of its own object: `allocate_copy_string`
  would free it first.  No caller in the library does.
