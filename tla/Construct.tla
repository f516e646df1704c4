----------------------------- MODULE Construct -----------------------------
(***************************************************************************)
(* Building and tearing down a parsing session: metalink_parser_context_t, *)
(* metalink_session_data_t, metalink_pstm_t and metalink_pctrl_t with the  *)
(* lists, the state and the stack they own.  Any allocation may fail.      *)
(*                                                                         *)
(* Each constructor allocates its object, then the parts in order; when    *)
(* one cannot be had it calls the destructor on what there is and returns  *)
(* NULL to the constructor that called it, which does the same.  Some      *)
(* destructors accept NULL, the functions on lists and stacks do not.      *)
(*                                                                         *)
(* A running constructor or destructor is an agenda: the calls still to be *)
(* made, in order.                                                         *)
(***************************************************************************)
EXTENDS Sequences, SequencesExt

CONSTANTS
  Roots,       \* what is constructed: "context" (either back end) or "session"
  HasParser    \* the context creates the XML parser (expat) or not (libxml2)

ASSUME ConstructAssumption ==
  /\ Roots \subseteq {"context", "session"}
  /\ Roots # {}
  /\ HasParser \in BOOLEAN

VARIABLES
  root,
  live,      \* the objects that are allocated
  freed,     \* those that were freed; a member in neither set is NULL
  agenda,    \* calls to be made: <<what, object>>
  status     \* "building", "ready", "failing", "null", "deleting", "deleted",
             \* "crashed"

constructVars == <<root, live, freed, agenda, status>>

-----------------------------------------------------------------------------
ListMembers == <<"files", "languages", "oses", "resources", "metaurls",
                 "checksums", "piece_hashes">>

Objects == {"context", "session", "parser", "stm", "stack", "ctrl", "state",
            "metalink"} \cup ToSet(ListMembers)

\* What the constructor of o allocates after o itself, in order.
Parts(o) ==
  CASE o = "context" -> <<"session">> \o IF HasParser THEN <<"parser">> ELSE <<>>
    [] o = "session" -> <<"stm", "stack">>
    [] o = "stm"     -> <<"ctrl", "state">>
    [] o = "ctrl"    -> <<"metalink">> \o ListMembers
    [] OTHER         -> <<>>

\* What the destructor of o deletes before o itself, in order.
Deletes(o) == Parts(o)

Owner(o) == CHOOSE p \in Objects : o \in ToSet(Parts(p))

\* The destructors that return on NULL; free does, XML_ParserFree too.
NullSafe == {"context", "session", "stm", "ctrl", "state", "metalink", "parser"}

\* Mutation: only the innermost constructor cleans up.
OwnersInnermost(o) == IF o = root THEN <<>> ELSE <<Owner(o)>>

\* The objects whose constructors are running when o is allocated, innermost
\* first; the nesting is at most four deep.
Owners(o) ==
  LET Up(s) == IF s = <<>> \/ Last(s) = root THEN s ELSE Append(s, Owner(Last(s)))
  IN IF o = root THEN <<>> ELSE Up(Up(Up(<<Owner(o)>>)))

CallsTo(what, objects) == [i \in DOMAIN objects |-> <<what, objects[i]>>]

-----------------------------------------------------------------------------
At(what, o) == agenda # <<>> /\ Head(agenda) = <<what, o>>

Alloc(o) ==
  /\ At("new", o)
  /\ live' = live \cup {o}
  /\ agenda' = CallsTo("new", Parts(o)) \o Tail(agenda)
  /\ UNCHANGED <<root, freed, status>>

\* setup_parser calls the setters of the XML parser whether there is one or not;
\* what they do without one depends on the library.
CrashesUnset(o) == o = "parser" /\ agenda' = <<>> /\ status' = "crashed"

AllocFails(o) ==
  /\ At("new", o)
  /\ \/ agenda' = CallsTo("delete", Owners(o)) /\ status' = "failing"
     \/ CrashesUnset(o)
  /\ UNCHANGED <<root, live, freed>>

Destroy(o) ==
  /\ At("delete", o)
  /\ o \in live
  /\ agenda' = CallsTo("delete", Deletes(o)) \o <<<<"free", o>>>> \o Tail(agenda)
  /\ UNCHANGED <<root, live, freed, status>>

DestroyNull(o) ==
  /\ At("delete", o)
  /\ o \notin live \cup freed
  /\ IF o \in NullSafe
     THEN agenda' = Tail(agenda) /\ UNCHANGED status
     ELSE agenda' = <<>> /\ status' = "crashed"
  /\ UNCHANGED <<root, live, freed>>

\* A constructor that gives up returns NULL to the next on the agenda.
GivesUp(o) ==
  status = "failing" /\ o # root /\ Tail(agenda) # <<>>
    /\ agenda[2] = <<"delete", Owner(o)>>

FreeObject(o) ==
  /\ At("free", o)
  /\ live' = live \ {o}
  /\ freed' = IF GivesUp(o) THEN freed ELSE freed \cup {o}
  /\ agenda' = Tail(agenda)
  /\ UNCHANGED <<root, status>>

\* The call that was made first returns.
Returns ==
  /\ agenda = <<>>
  /\ \/ status = "building" /\ status' = "ready"
     \/ status = "failing"  /\ status' = "null"
     \/ status = "deleting" /\ status' = "deleted"
  /\ UNCHANGED <<root, live, freed, agenda>>

DeleteRoot ==
  /\ status = "ready"
  /\ agenda' = <<<<"delete", root>>>>
  /\ status' = "deleting"
  /\ UNCHANGED <<root, live, freed>>

ConstructInit ==
  /\ root \in Roots
  /\ live = {}
  /\ freed = {}
  /\ agenda = <<<<"new", root>>>>
  /\ status = "building"

ConstructNext ==
  \/ \E o \in Objects :
       Alloc(o) \/ AllocFails(o) \/ Destroy(o) \/ DestroyNull(o) \/ FreeObject(o)
  \/ Returns
  \/ DeleteRoot

ConstructSpec == ConstructInit /\ [][ConstructNext]_constructVars

-----------------------------------------------------------------------------
(***************************************************************************)
(* Properties.                                                             *)
(***************************************************************************)
ConstructTypeOK ==
  /\ root \in Roots
  /\ live \subseteq Objects
  /\ freed \subseteq Objects
  /\ agenda \in Seq((IF status = "building" THEN {"new"} ELSE {"delete", "free"})
                     \X Objects)
  /\ status \in {"building", "ready", "failing", "null", "deleting", "deleted",
                 "crashed"}

\* A constructor that returns NULL has given back everything it had allocated,
\* whichever of the allocations failed.
NullHoldsNothing == status = "null" => live = {}

\* The destructor of a finished object frees all of it.
DeleteFreesAll == status = "deleted" => live = {}

\* No object is reached by two destructors, on the way back out of a failed
\* constructor or when a finished one is deleted.
DestroyedOnce ==
  /\ live \cap freed = {}
  /\ \A o \in freed : ~At("delete", o) /\ ~At("free", o)

\* Constructors and destructors, whichever allocations fail: nothing is left,
\* and nothing is freed twice.
FreesAllOnce ==
  /\ NullHoldsNothing
  /\ DeleteFreesAll
  /\ DestroyedOnce

\* The comment on metalink_parser_context_new in metalink_parser.h: "@return a
\* parser context on success, otherwise NULL".
NewReturns == root = "context" => status # "crashed"

=============================================================================
