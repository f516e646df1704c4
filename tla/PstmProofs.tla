----------------------------- MODULE PstmProofs -----------------------------
(***************************************************************************)
(* Proofs about the state machine, for documents of any size.              *)
(*                                                                         *)
(* Types and transactions: the inductive invariant is Inv.  A handler finds*)
(* the transaction it uses because every way into its state opened it, and *)
(* nothing on the way closed it.                                           *)
(*                                                                         *)
(* Ownership: every step of a handler is a step of PctrlSpec or leaves the *)
(* transaction layer alone, so that the theorems about that layer hold of a*)
(* parse.                                                                  *)
(*                                                                         *)
(* Files: a language, resource, checksum ... that was found in a file stays*)
(* with that file (BelongInv).                                             *)
(*                                                                         *)
(* Leaks: no object is out of reach while the parse goes on (LeakInv).     *)
(***************************************************************************)
EXTENDS Pstm, PctrlProofs

Safe == TransactionsOpen /\ NoInternalError

Inv == TypeOK /\ Safe

(***************************************************************************)
(* The tables.                                                             *)
(***************************************************************************)
LEMMA TextStates ==
  /\ Text \subseteq Fun \ {"skip", "null", "fin", "initial"}
  /\ Container \subseteq Fun \ {"skip", "null", "fin", "initial"}
  /\ Text \cap Container = {}
  /\ {"initial", "null", "fin", "skip"} \subseteq Fun
  /\ {"initial", "null", "fin", "skip"} \cap InFile = {}
  BY DEF Text, SharedText, OwnText, Container, ContainerV3, ContainerV4, Fun, InFile

LEMMA Containers ==
  /\ Container \cap InPieces = {"pieces_v3", "pieces_v4"}
  /\ Container \cap InFile =
       {"file_v3", "file_v4", "resources_v3", "verification_v3",
        "pieces_v3", "pieces_v4"}
  /\ InPieces \subseteq InFile
  BY DEF Text, SharedText, OwnText, Container, ContainerV3, ContainerV4, InFile, InPieces

LEMMA Targets ==
  /\ DOMAIN Target = ScalarOfFile \cup ItemText
  /\ DOMAIN Target \subseteq Text
  /\ DOMAIN Target \subseteq InFile
  /\ \A f \in DOMAIN Target : Target[f] \in Tx
  /\ \A f \in ScalarOfFile : Target[f] = "file"
  /\ Target["url"] = "resource"
  /\ Target["hash"] = "checksum"
  /\ Target["piece_hash"] = "piece_hash"
  /\ Target["metaurl_v4"] = "metaurl"
  /\ Target["signature_v4"] = "signature"
  BY DEF Target, ScalarOfFile, ItemText, Text, SharedText, OwnText, InFile, Tx

LEMMA OpeningTable ==
  ASSUME NEW c \in Opening
  PROVE  /\ c.tx \in Tx
         /\ c.in \in Container
         /\ c.to \in Fun \ {"skip", "null"}
         /\ c.to \in InFile
         /\ c.in \in InFile <=> c.tx # "file"
         /\ c.to \in InPieces => c.in \in InPieces \/ c.tx = "chunk"
         /\ c.to \in DOMAIN Target => c.tx = Target[c.to]
         /\ c.check = "after" => c.tx \in {"resource", "metaurl"}
  BY Targets DEF Opening, Tx, Container, ContainerV3, ContainerV4, Fun, Text,
     SharedText, OwnText, InFile, InPieces, ScalarOfFile, ItemText

LEMMA PlainTable ==
  ASSUME NEW c \in Plain
  PROVE  /\ c[1] \in Container
         /\ c[3] \in Fun \ {"skip", "null"}
         /\ c[1] \in InFile <=> c[3] \in InFile
         /\ c[3] \notin InPieces
         /\ c[3] \in DOMAIN Target => Target[c[3]] = "file" /\ c[1] \in InFile
  BY Targets DEF Plain, Container, ContainerV3, ContainerV4, Fun, Text,
     SharedText, OwnText, InFile, InPieces, ScalarOfFile, ItemText

\* The states a text element may return to.
ReturnsTo(f) ==
  {h \in Container : /\ h \in InFile <=> f \in InFile
                     /\ h \in InPieces => f \in InPieces}

LEMMA Returns ==
  ASSUME HandlerTypeOK, ns_uri \in Ns, fun \in Text, Return
  PROVE  \/ \E h \in ReturnsTo(fun) : Enter(h)
         \/ Assertions /\ Stop("aborted")
         \/ ~Assertions /\ Stay
  <1>1. CASE fun \in OwnText
    <2>1. OwnReturn(fun) \in ReturnsTo(fun)
      BY <1>1 DEF OwnReturn, OwnText, ReturnsTo, Container, ContainerV3,
         ContainerV4, InFile, InPieces, Text, SharedText
    <2> QED
      BY <1>1, <2>1 DEF Return
  <1>2. CASE fun \in SharedText /\ fun \notin OwnText /\ ns_uri # "other"
    <2>1. SharedReturn(fun, ns_uri) \in ReturnsTo(fun)
      BY <1>2 DEF SharedReturn, FileText, SharedText, ReturnsTo, Container,
         ContainerV3, ContainerV4, InFile, InPieces, Text, OwnText
    <2> QED
      BY <1>2, <2>1 DEF Return
  <1>3. CASE fun \notin OwnText /\ ns_uri = "other"
    BY <1>3 DEF Return
  <1> QED
    BY <1>1, <1>2, <1>3 DEF Text

-----------------------------------------------------------------------------
(***************************************************************************)
(* Types.                                                                  *)
(***************************************************************************)
LEMMA EnterType ==
  ASSUME HandlerTypeOK, fun # "skip", NEW h \in Fun \ {"skip"}, Enter(h)
  PROVE  HandlerTypeOK'
  BY DEF HandlerTypeOK, Enter

LEMMA EnterSkipType ==
  ASSUME HandlerTypeOK, fun # "skip", EnterSkip
  PROVE  HandlerTypeOK'
  <1>1. skip_depth' \in Nat /\ skip_depth' > 0
    BY DEF EnterSkip
  <1>2. fun' = "skip" /\ fun' \in Fun /\ before_fun' \in Fun \ {"skip"}
    BY TextStates DEF HandlerTypeOK, EnterSkip
  <1>3. buffering' \in BOOLEAN /\ error' = error /\ run' = run
    BY DEF EnterSkip
  <1> QED
    BY <1>1, <1>2, <1>3 DEF HandlerTypeOK

LEMMA ErrorHandlerType ==
  ASSUME HandlerTypeOK, fun # "skip", NEW e \in Errors, ErrorHandler(e)
  PROVE  HandlerTypeOK'
  BY TextStates DEF HandlerTypeOK, ErrorHandler

LEMMA BadAllocIsError == "bad_alloc" \in Errors
  BY DEF Errors

LEMMA StopType ==
  ASSUME HandlerTypeOK, NEW how \in {"aborted", "crashed"}, Stop(how)
  PROVE  HandlerTypeOK'
  BY DEF HandlerTypeOK, Stop, stateVars

LEMMA StayType ==
  ASSUME HandlerTypeOK, Stay
  PROVE  HandlerTypeOK'
  BY DEF HandlerTypeOK, Stay, stateVars

LEMMA ReturnType ==
  ASSUME HandlerTypeOK, ns_uri \in Ns, fun \in Text, Return
  PROVE  HandlerTypeOK'
  <1>1. fun # "skip"
    BY TextStates
  <1>2. ReturnsTo(fun) \subseteq Fun \ {"skip"}
    BY TextStates DEF ReturnsTo
  <1> QED
    BY <1>1, <1>2, Returns, EnterType, StopType, StayType

LEMMA StartElementType ==
  ASSUME DocumentTypeOK, NEW ns \in Ns, StartElement(ns), Succeeds \/ Fails,
         version' \in {"none", "v3", "v4"}
  PROVE  DocumentTypeOK'
  <1>1. depth' \in Nat
    BY DEF DocumentTypeOK, StartElement
  <1>2. rootDone' \in BOOLEAN /\ ns_uri' \in Ns /\ ended' \in Seq(Addr)
    BY Zenon DEF DocumentTypeOK, StartElement
  <1>3. oom' \in BOOLEAN
    BY Zenon DEF DocumentTypeOK, Succeeds, Fails
  <1> QED
    BY <1>1, <1>2, <1>3 DEF DocumentTypeOK

LEMMA EndElementType ==
  ASSUME TypeOK, EndElement, Succeeds \/ Fails
  PROVE  DocumentTypeOK'
  <1> USE DEF TypeOK
  <1>1. depth' \in Nat
    BY DEF DocumentTypeOK, EndElement
  <1>2. rootDone' \in BOOLEAN /\ ns_uri' = ns_uri /\ version' = version
    BY Zenon DEF EndElement
  <1>3. oom' \in BOOLEAN
    BY Zenon DEF DocumentTypeOK, Succeeds, Fails
  <1>4. ended' \in Seq(Addr)
    <2>1. temp["file"] \in Addr \cup {NULL} /\ ended \in Seq(Addr)
      BY Names DEF PctrlTypeOK, CtrlTypeOK, DocumentTypeOK
    <2>2. temp["file"] # NULL => Append(ended, temp["file"]) \in Seq(Addr)
      BY <2>1
    <2> QED
      BY <2>1, <2>2 DEF EndElement
  <1> QED
    BY <1>1, <1>2, <1>3, <1>4 DEF DocumentTypeOK

-----------------------------------------------------------------------------
(***************************************************************************)
(* The transactions.                                                       *)
(***************************************************************************)
\* What a step that moves to state h must leave open for OpenIn to hold there.
LEMMA EnterSafe ==
  ASSUME NoInternalError, NEW h \in Fun \ {"skip"}, Enter(h), OpenIn(h)'
  PROVE  Safe'
  <1>1. TransactionsOpen'
    BY DEF TransactionsOpen, Here, Enter
  <1> QED
    BY <1>1 DEF Safe, NoInternalError, Enter

LEMMA EnterSkipSafe ==
  ASSUME NoInternalError, NEW h, h = fun, EnterSkip, OpenIn(h)'
  PROVE  Safe'
  <1>1. TransactionsOpen'
    BY DEF TransactionsOpen, Here, EnterSkip
  <1> QED
    BY <1>1 DEF Safe, NoInternalError, EnterSkip

LEMMA ErrorSafe ==
  ASSUME NoInternalError, ErrorHandler("bad_alloc")
  PROVE  Safe'
  BY DEF Safe, NoInternalError, TransactionsOpen, Here, ErrorHandler

LEMMA AbortSafe ==
  ASSUME NoInternalError, Stop("aborted")
  PROVE  Safe'
  BY DEF Safe, NoInternalError, TransactionsOpen, Stop

LEMMA StaySafe ==
  ASSUME Safe, Stay, UNCHANGED pctrlVars
  PROVE  Safe'
  BY DEF Safe, NoInternalError, TransactionsOpen, OpenIn, Here, Stay, stateVars, pctrlVars

LEMMA OpenHere ==
  ASSUME TransactionsOpen, run = "parsing", fun \in Fun \ {"skip", "null"}
  PROVE  OpenIn(fun)
  BY DEF TransactionsOpen, Here

\* The transactions of a file and of its chunk checksum suffice wherever text
\* returns to.
LEMMA ReturnSafe ==
  ASSUME NoInternalError, HandlerTypeOK, ns_uri \in Ns, fun \in Text, Return,
         Assertions,
         fun \in InFile => temp'["file"] # NULL,
         fun \in InPieces => temp'["chunk"] # NULL,
         fun \notin InFile =>
           temp'["file"] = NULL /\ \A l \in FileLists : list'[l] = <<>>
  PROVE  Safe'
  <1>1. CASE Stop("aborted")
    BY <1>1, AbortSafe
  <1>2. ASSUME NEW h \in ReturnsTo(fun), Enter(h)
        PROVE  Safe'
    <2>1. h \in Container /\ h \notin DOMAIN Target
      BY TextStates, Targets DEF ReturnsTo
    <2>2. OpenIn(h)'
      BY <2>1 DEF OpenIn, ReturnsTo
    <2>3. h \in Fun \ {"skip"}
      BY <2>1, TextStates
    <2> QED
      BY <1>2, <2>2, <2>3, EnterSafe
  <1> QED
    BY <1>1, <1>2, Returns

\* A step of the transaction layer that touches neither what a file collected
\* nor the open transactions keeps OpenIn.
LEMMA KeepsOpen ==
  ASSUME NEW h, OpenIn(h), temp' = temp, \A l \in FileLists : list'[l] = list[l]
  PROVE  OpenIn(h)'
  BY DEF OpenIn

LEMMA UnchangedKeepsOpen ==
  ASSUME NEW h, OpenIn(h), UNCHANGED pctrlVars
  PROVE  OpenIn(h)'
  BY DEF OpenIn, pctrlVars

-----------------------------------------------------------------------------
(***************************************************************************)
(* Start tags.                                                             *)
(***************************************************************************)
LEMMA StartIgnoredInv ==
  ASSUME TypeOK, NEW ns \in Ns, StartIgnored(ns)
  PROVE  TypeOK' /\ (Safe => Safe')
  <1>1. PctrlTypeOK' /\ HandlerTypeOK'
    BY PctrlUnchangedType, StayType DEF TypeOK, StartIgnored
  <1>2. DocumentTypeOK'
    BY StartElementType DEF TypeOK, DocumentTypeOK, StartIgnored
  <1> QED
    BY <1>1, <1>2, StaySafe DEF TypeOK, StartIgnored

LEMMA StartInSkipInv ==
  ASSUME TypeOK, NEW ns \in Ns, StartInSkip(ns)
  PROVE  TypeOK' /\ (Safe => Safe')
  <1>1. PctrlTypeOK'
    BY PctrlUnchangedType DEF TypeOK, StartInSkip
  <1>2. HandlerTypeOK'
    BY DEF TypeOK, HandlerTypeOK, StartInSkip
  <1>3. DocumentTypeOK'
    BY StartElementType DEF TypeOK, DocumentTypeOK, StartInSkip
  <1>4. Safe => Safe'
    BY DEF Safe, NoInternalError, TransactionsOpen, Here, OpenIn, StartInSkip, pctrlVars
  <1> QED
    BY <1>1, <1>2, <1>3, <1>4 DEF TypeOK

LEMMA StartMetalinkInv ==
  ASSUME TypeOK, NEW ns \in Ns, StartMetalink(ns)
  PROVE  TypeOK' /\ (Safe => Safe')
  <1> DEFINE h == IF ns = "v3" THEN "metalink_v3" ELSE "metalink_v4"
  <1>1. /\ h \in Fun \ {"skip"}
        /\ h \notin InFile
        /\ h \notin InPieces
        /\ h \notin DOMAIN Target
    BY TextStates, Containers, Targets DEF Container, ContainerV3, ContainerV4
  <1>2. Enter(h) /\ fun = "initial"
    BY DEF StartMetalink
  <1>3. PctrlTypeOK'
    BY PctrlUnchangedType DEF TypeOK, StartMetalink
  <1>4. HandlerTypeOK'
    BY <1>1, <1>2, EnterType DEF TypeOK
  <1>5. DocumentTypeOK'
    BY StartElementType DEF TypeOK, StartMetalink
  <1>6. ASSUME Safe PROVE Safe'
    <2>1. OpenIn("initial")
      BY <1>2, <1>6, TextStates, OpenHere DEF Safe, StartMetalink, StartElement
    <2>2. OpenIn(h)'
      BY <1>1, <2>1, TextStates, UnchangedKeepsOpen DEF StartMetalink, OpenIn, pctrlVars
    <2> QED
      BY <1>1, <1>2, <1>6, <2>2, EnterSafe DEF Safe
  <1> QED
    BY <1>3, <1>4, <1>5, <1>6 DEF TypeOK

LEMMA StartSkippedInv ==
  ASSUME TypeOK, NEW ns \in Ns, StartSkipped(ns)
  PROVE  TypeOK' /\ (Safe => Safe')
  <1>1. fun \in Fun \ {"skip", "null"}
    BY TextStates DEF StartSkipped
  <1>2. PctrlTypeOK'
    BY PctrlUnchangedType DEF TypeOK, StartSkipped
  <1>3. HandlerTypeOK'
    BY <1>1, EnterSkipType DEF TypeOK, StartSkipped
  <1>4. DocumentTypeOK'
    BY StartElementType DEF TypeOK, DocumentTypeOK, StartSkipped
  <1>5. ASSUME Safe PROVE Safe'
    <2>1. OpenIn(fun)
      BY <1>1, <1>5, OpenHere DEF Safe, StartSkipped, StartElement
    <2>2. PICK h : h = fun
      OBVIOUS
    <2>3. OpenIn(h)'
      BY <2>1, <2>2, UnchangedKeepsOpen DEF StartSkipped
    <2> QED
      BY <1>5, <2>2, <2>3, EnterSkipSafe DEF Safe, StartSkipped
  <1> QED
    BY <1>2, <1>3, <1>4, <1>5 DEF TypeOK

LEMMA StartPlainInv ==
  ASSUME TypeOK, NEW c \in Plain, StartPlain(c)
  PROVE  TypeOK' /\ (Safe => Safe')
  <1>1. fun = c[1] /\ fun \in Fun \ {"skip", "null"}
    BY PlainTable, TextStates DEF StartPlain
  <1>2. NsOf(fun) \in Ns
    BY DEF NsOf, Ns
  <1>3. PctrlTypeOK'
    BY PctrlUnchangedType DEF TypeOK, StartPlain
  <1>4. HandlerTypeOK'
    BY <1>1, PlainTable, EnterType, StopType DEF TypeOK, StartPlain
  <1>5. DocumentTypeOK'
    BY <1>2, StartElementType DEF TypeOK, DocumentTypeOK, StartPlain
  <1>6. ASSUME Safe PROVE Safe'
    <2>1. OpenIn(fun)
      BY <1>1, <1>6, OpenHere DEF Safe, StartPlain, StartElement
    <2>2. c[2] = "resources" => fun \in InFile
      BY <1>1 DEF Plain, InFile, Text, SharedText, Container, ContainerV3
    <2>3. Enter(c[3])
      BY <2>1, <2>2 DEF OpenIn, StartPlain
    <2>4. OpenIn(c[3])
      BY <1>1, <2>1, PlainTable DEF OpenIn
    <2>5. OpenIn(c[3])'
      BY <2>4, UnchangedKeepsOpen DEF StartPlain
    <2> QED
      BY <1>6, <2>3, <2>5, PlainTable, EnterSafe DEF Safe
  <1> QED
    BY <1>3, <1>4, <1>5, <1>6 DEF TypeOK

LEMMA StartPublisherInv ==
  ASSUME TypeOK, StartPublisher
  PROVE  TypeOK' /\ (Safe => Safe')
  <1>1. fun = "file_v4" /\ fun \in Fun \ {"skip", "null"} /\ fun \in InFile
    BY Containers, TextStates DEF StartPublisher, Container, ContainerV4
  <1>2. NsOf(fun) \in Ns
    BY DEF NsOf, Ns
  <1>3. PctrlTypeOK'
    BY PctrlUnchangedType DEF TypeOK, StartPublisher
  <1>4. HandlerTypeOK'
    BY <1>1, EnterSkipType, ErrorHandlerType, BadAllocIsError, StopType
    DEF TypeOK, StartPublisher
  <1>5. DocumentTypeOK'
    BY <1>2, StartElementType DEF TypeOK, DocumentTypeOK, StartPublisher
  <1>6. ASSUME Safe PROVE Safe'
    <2>1. OpenIn("file_v4")
      BY <1>1, <1>6, OpenHere DEF Safe, StartPublisher, StartElement
    <2>2. OpenIn("file_v4")'
      BY <2>1, UnchangedKeepsOpen DEF StartPublisher
    <2>3. EnterSkip \/ ErrorHandler("bad_alloc")
      BY <1>1, <2>1 DEF OpenIn, StartPublisher
    <2> QED
      BY <1>1, <1>6, <2>2, <2>3, EnterSkipSafe, ErrorSafe DEF Safe
  <1> QED
    BY <1>3, <1>4, <1>5, <1>6 DEF TypeOK

\* Opening a transaction of kind k keeps the others and, unless k is "file",
\* what the file collected; a new file starts with empty lists.
LEMMA NewTransactionOpen ==
  ASSUME PctrlTypeOK, NEW k \in Tx, NEW p, NewTransaction(k, p)
  PROVE  /\ temp'[k] # NULL
         /\ \A j \in Tx \ {k} : temp'[j] = temp[j]
         /\ k # "file" => \A l \in FileLists : list'[l] = list[l]
  <1>1. Fresh \in Addr
    BY FreshType DEF NewTransaction, FreeAndAlloc
  <1>2. temp' = [temp EXCEPT ![k] = Fresh] /\ temp \in [Tx -> Addr \cup {NULL}]
    BY DEF NewTransaction, PctrlTypeOK, CtrlTypeOK
  <1>3. k # "file" => \A l \in FileLists : l \notin Cleared(k)
    BY Names DEF Cleared
  <1>4. k # "file" => \A l \in FileLists : list'[l] = list[l]
    BY <1>3, Names DEF NewTransaction
  <1> QED
    BY <1>1, <1>2, <1>4, NullNotAddr

LEMMA StartTransactionInv ==
  ASSUME TypeOK, NEW c \in Opening, StartTransaction(c)
  PROVE  TypeOK' /\ (Safe => Safe')
  <1>1. fun = c.in /\ fun \in Fun \ {"skip", "null"} /\ c.tx \in Tx /\ fun \notin DOMAIN Target
    BY OpeningTable, TextStates, Targets DEF StartTransaction
  <1>2. NsOf(fun) \in Ns
    BY DEF NsOf, Ns
  <1>3. PctrlTypeOK'
    BY <1>1, NewTransactionType, NewTransactionFailsType, PrioritiesType, UnrankedType
    DEF TypeOK, StartTransaction
  <1>4. HandlerTypeOK'
    BY <1>1, OpeningTable, EnterType, EnterSkipType, ErrorHandlerType, BadAllocIsError
    DEF TypeOK, StartTransaction
  <1>5. DocumentTypeOK'
    BY <1>2, StartElementType DEF TypeOK, DocumentTypeOK, StartTransaction
  <1>6. ASSUME Safe PROVE Safe'
    <2>1. OpenIn(fun)
      BY <1>1, <1>6, OpenHere DEF Safe, StartTransaction, StartElement
    <2>2. ASSUME NEW p, NewTransaction(c.tx, p), Enter(c.to)
          PROVE  Safe'
      <3>1. c.to \in InFile => temp'["file"] # NULL
        BY <1>1, <2>1, <2>2, NewTransactionOpen, OpeningTable, Names DEF TypeOK, OpenIn
      <3>2. c.to \in InPieces => temp'["chunk"] # NULL
        BY <1>1, <2>1, <2>2, NewTransactionOpen, OpeningTable, Names DEF TypeOK, OpenIn
      <3>3. c.to \in DOMAIN Target => temp'[Target[c.to]] # NULL
        BY <1>1, <2>2, NewTransactionOpen, OpeningTable DEF TypeOK
      <3>4. OpenIn(c.to)'
        BY <3>1, <3>2, <3>3, OpeningTable DEF OpenIn
      <3> QED
        BY <1>6, <2>2, <3>4, OpeningTable, EnterSafe DEF Safe
    <2>3. ASSUME NEW p, NewTransaction(c.tx, p), EnterSkip, c.check = "after"
          PROVE  Safe'
      <3>1. c.tx \in {"resource", "metaurl"} /\ c.in \in InFile
        BY <2>3, OpeningTable
      <3>2. temp'["file"] # NULL
        BY <1>1, <2>1, <2>3, <3>1, NewTransactionOpen, Names DEF TypeOK, OpenIn
      <3>3. c.in \in InPieces => temp'["chunk"] # NULL
        BY <1>1, <2>1, <2>3, <3>1, NewTransactionOpen, Names DEF TypeOK, OpenIn
      <3>4. OpenIn(c.in)'
        BY <1>1, <3>1, <3>2, <3>3 DEF OpenIn
      <3> QED
        BY <1>1, <1>6, <2>3, <3>4, EnterSkipSafe DEF Safe
    <2> QED
      BY <1>6, <2>2, <2>3, ErrorSafe DEF Safe, StartTransaction
  <1> QED
    BY <1>3, <1>4, <1>5, <1>6 DEF TypeOK

LEMMA StartInv ==
  ASSUME TypeOK, Start
  PROVE  TypeOK' /\ (Safe => Safe')
  BY StartIgnoredInv, StartInSkipInv, StartMetalinkInv, StartSkippedInv, StartPlainInv,
     StartPublisherInv, StartTransactionInv DEF Start

-----------------------------------------------------------------------------
(***************************************************************************)
(* End tags.  That no assertion stops the process is not claimed: Safe     *)
(* holds of a library built with them, which stops before it goes wrong.   *)
(***************************************************************************)
LEMMA EndIgnoredInv ==
  ASSUME TypeOK, EndIgnored
  PROVE  TypeOK' /\ (Safe => Safe')
  <1>1. PctrlTypeOK' /\ HandlerTypeOK'
    BY PctrlUnchangedType, StayType DEF TypeOK, EndIgnored
  <1>2. DocumentTypeOK'
    BY EndElementType DEF TypeOK, EndIgnored
  <1> QED
    BY <1>1, <1>2, StaySafe DEF TypeOK, EndIgnored

LEMMA EndInSkipInv ==
  ASSUME TypeOK, EndInSkip
  PROVE  TypeOK' /\ (Safe => Safe')
  <1>1. PctrlTypeOK'
    BY PctrlUnchangedType DEF TypeOK, EndInSkip
  <1>2. DocumentTypeOK'
    BY EndElementType DEF TypeOK, EndInSkip
  <1>3. CASE skip_depth = 1
    <2>1. HandlerTypeOK'
      <3>1. fun' \in Fun \ {"skip"} /\ before_fun' \in Fun \ {"skip"} /\ skip_depth' = 0
        BY <1>3, TextStates DEF TypeOK, HandlerTypeOK, EndInSkip, ExitSkip
      <3>2. buffering' \in BOOLEAN
        BY <1>3 DEF EndInSkip, ExitSkip, BeforeSkipBuffering
      <3>3. error' = error /\ run' = run
        BY <1>3 DEF EndInSkip, ExitSkip
      <3> QED
        BY <3>1, <3>2, <3>3 DEF TypeOK, HandlerTypeOK
    <2>2. Safe => Safe'
      BY <1>3 DEF TypeOK, HandlerTypeOK, EndInSkip, ExitSkip, Safe, NoInternalError,
         TransactionsOpen, Here, OpenIn, pctrlVars
    <2> QED
      BY <1>1, <1>2, <2>1, <2>2 DEF TypeOK
  <1>4. CASE skip_depth # 1
    <2>1. HandlerTypeOK'
      BY <1>4 DEF TypeOK, HandlerTypeOK, EndInSkip
    <2>2. Safe => Safe'
      BY <1>4 DEF EndInSkip, Safe, NoInternalError, TransactionsOpen, Here, OpenIn, pctrlVars
    <2> QED
      BY <1>1, <1>2, <2>1, <2>2 DEF TypeOK
  <1> QED
    BY <1>3, <1>4

\* A text element finds its own transaction open, and so does not crash.
LEMMA NotDangling ==
  ASSUME Safe, run = "parsing", fun \in Text
  PROVE  /\ ~Dangling
         /\ OpenIn(fun)
  BY TextStates, OpenHere DEF Safe, Dangling, OpenIn

LEMMA EndScalarInv ==
  ASSUME TypeOK, EndScalar
  PROVE  TypeOK' /\ (Assertions /\ Safe => Safe')
  <1>1. fun \in Text /\ fun # "skip" /\ run = "parsing" /\ ns_uri \in Ns
    BY TextStates DEF EndScalar, EndElement, TypeOK, DocumentTypeOK
  <1>2. PctrlTypeOK'
    BY PctrlUnchangedType DEF TypeOK, EndScalar
  <1>3. HandlerTypeOK'
    BY <1>1, ReturnType, ErrorHandlerType, BadAllocIsError, StopType DEF TypeOK, EndScalar
  <1>4. DocumentTypeOK'
    BY EndElementType DEF TypeOK, EndScalar
  <1>5. ASSUME Assertions, Safe PROVE Safe'
    <2>1. Return \/ ErrorHandler("bad_alloc")
      BY <1>1, <1>5, NotDangling DEF EndScalar
    <2>2. OpenIn(fun) /\ temp' = temp /\ list' = list
      BY <1>1, <1>5, NotDangling DEF EndScalar, pctrlVars
    <2> QED
      BY <1>1, <1>5, <2>1, <2>2, ReturnSafe, ErrorSafe DEF Safe, TypeOK, OpenIn
  <1> QED
    BY <1>2, <1>3, <1>4, <1>5 DEF TypeOK

LEMMA EndStringInv ==
  ASSUME TypeOK, EndString
  PROVE  TypeOK' /\ (Assertions /\ Safe => Safe')
  <1>1. fun \in Text /\ fun \in InFile /\ fun \notin InPieces /\ StringListOf[fun] \in StringLists
    BY DEF EndString, StringListOf, StringLists, Text, SharedText, InFile, InPieces
  <1>2. fun # "skip" /\ run = "parsing" /\ ns_uri \in Ns
    BY <1>1, TextStates DEF EndString, EndElement, TypeOK, DocumentTypeOK
  <1>3. PctrlTypeOK'
    BY <1>1, AddStringType, AddStringAppendFailsType, PctrlUnchangedType
    DEF TypeOK, EndString
  <1>4. HandlerTypeOK'
    BY <1>1, <1>2, ReturnType, ErrorHandlerType, BadAllocIsError DEF TypeOK, EndString
  <1>5. DocumentTypeOK'
    BY EndElementType DEF TypeOK, EndString
  <1>6. ASSUME Assertions, Safe PROVE Safe'
    <2>1. CASE AddString(StringListOf[fun]) /\ Return
      <3>1. OpenIn(fun) /\ temp' = temp
        BY <1>1, <1>2, <1>6, <2>1, NotDangling DEF AddString
      <3> QED
        BY <1>1, <1>2, <1>6, <2>1, <3>1, ReturnSafe DEF Safe, TypeOK, OpenIn
    <2> QED
      BY <1>6, <2>1, ErrorSafe DEF Safe, EndString
  <1> QED
    BY <1>3, <1>4, <1>5, <1>6 DEF TypeOK

LEMMA EndVersionInv ==
  ASSUME TypeOK, EndVersion
  PROVE  TypeOK' /\ (Assertions /\ Safe => Safe')
  <1>1. /\ fun = "version"
        /\ fun \in Text \cap InFile \cap DOMAIN Target
        /\ fun # "skip"
        /\ run = "parsing"
        /\ Target[fun] = "file"
    BY Targets, TextStates DEF EndVersion, EndElement, ScalarOfFile
  <1>2. /\ SharedReturn(fun, ns_uri) \in {"file_v3", "file_v4"}
        /\ {"file_v3", "file_v4"} \subseteq Fun \ {"skip"}
        /\ {"file_v3", "file_v4"} \subseteq InFile
        /\ {"file_v3", "file_v4"} \cap (InPieces \cup DOMAIN Target) = {}
    BY <1>1, Containers, Targets, TextStates
    DEF SharedReturn, FileText, Container, ContainerV3, ContainerV4, InPieces
  <1>3. PctrlTypeOK'
    BY PctrlUnchangedType DEF TypeOK, EndVersion
  <1>4. DocumentTypeOK'
    BY EndElementType DEF TypeOK, EndVersion
  <1>5. CASE Stop("crashed")
    <2>1. HandlerTypeOK'
      BY <1>5, StopType DEF TypeOK
    <2>2. ASSUME Safe PROVE FALSE
      BY <1>1, <1>5, <2>2, NotDangling DEF EndVersion, Stop, stateVars, Safe, NoInternalError
    <2> QED
      BY <1>3, <1>4, <2>1, <2>2 DEF TypeOK
  <1>6. CASE Stop("aborted")
    <2>1. HandlerTypeOK'
      BY <1>6, StopType DEF TypeOK
    <2> QED
      BY <1>3, <1>4, <1>6, <2>1, AbortSafe DEF TypeOK, Safe
  <1>7. ASSUME ~Stop("crashed"), ~Stop("aborted")
        PROVE  TypeOK' /\ (Assertions /\ Safe => Safe')
    <2>1. PICK failed \in BOOLEAN :
            /\ ~(ns_uri = "other" /\ Assertions)
            /\ fun' = IF ns_uri # "other" THEN SharedReturn(fun, ns_uri)
                      ELSE IF failed THEN "null" ELSE "file_v3"
            /\ buffering' = FALSE
            /\ error' = IF failed THEN "bad_alloc" ELSE error
            /\ UNCHANGED <<before_fun, skip_depth, run>>
      BY <1>7 DEF EndVersion
    <2>2. fun' \in {"file_v3", "file_v4", "null"}
      BY <1>2, <2>1
    <2>3. ns_uri # "other" => fun' \in {"file_v3", "file_v4"}
      BY <1>2, <2>1
    <2>4. HandlerTypeOK'
      <3>1. fun' \in Fun \ {"skip"} /\ error' \in Errors /\ buffering' \in BOOLEAN
        BY <1>2, <2>1, <2>2, TextStates, BadAllocIsError DEF TypeOK, HandlerTypeOK
      <3> QED
        BY <1>1, <2>1, <3>1 DEF TypeOK, HandlerTypeOK
    <2>5. ASSUME Assertions, Safe PROVE Safe'
      <3>0. fun' \in {"file_v3", "file_v4"}
        BY <2>1, <2>3, <2>5
      <3>1. temp["file"] # NULL
        BY <1>1, <2>5, NotDangling DEF OpenIn
      <3>2. temp' = temp
        BY DEF EndVersion, pctrlVars
      <3>3. OpenIn("file_v3")' /\ OpenIn("file_v4")'
        BY <1>2, <3>1, <3>2 DEF OpenIn
      <3>4. TransactionsOpen'
        BY <3>0, <3>3 DEF TransactionsOpen, Here
      <3> QED
        BY <2>1, <2>5, <3>4 DEF Safe, NoInternalError
    <2> QED
      BY <1>3, <1>4, <2>4, <2>5 DEF TypeOK
  <1> QED
    BY <1>5, <1>6, <1>7

\* A text element that completes an object commits it and leaves the file and
\* the chunk checksum as they are.
LEMMA CommitTargetOpen ==
  ASSUME TypeOK, fun \in ItemText, Safe, run = "parsing", CommitTarget
  PROVE  /\ Return
         /\ fun \in InFile /\ temp'["file"] # NULL
         /\ fun \in InPieces => temp'["chunk"] # NULL
  <1>1. fun \in Text /\ fun \in InFile /\ fun \in DOMAIN Target
    BY Targets
  <1>2. OpenIn(fun)
    BY <1>1, NotDangling
  <1>3. temp["file"] # NULL /\ (fun \in InPieces => temp["chunk"] # NULL)
    BY <1>1, <1>2 DEF OpenIn
  <1>4. temp \in [Tx -> Addr \cup {NULL}]
    BY DEF TypeOK, PctrlTypeOK, CtrlTypeOK
  <1>5. CASE fun = "signature_v4"
    <2>1. CommitSignature /\ Return
      BY <1>3, <1>5 DEF CommitTarget
    <2>2. temp'["file"] = temp["file"] /\ temp'["chunk"] = temp["chunk"]
      BY <1>4, <2>1, Names DEF CommitSignature
    <2> QED
      BY <1>1, <1>3, <2>1, <2>2
  <1>6. CASE fun # "signature_v4"
    <2>1. CommitItem(Target[fun]) /\ Return
      BY <1>6 DEF CommitTarget
    <2>2. Target[fun] \in {"resource", "checksum", "piece_hash", "metaurl"}
      BY <1>6, Targets DEF ItemText
    <2>3. temp'["file"] = temp["file"] /\ temp'["chunk"] = temp["chunk"]
      BY <1>4, <2>1, <2>2, Names DEF CommitItem
    <2> QED
      BY <1>1, <1>3, <2>1, <2>3
  <1> QED
    BY <1>5, <1>6

LEMMA EndItemInv ==
  ASSUME TypeOK, EndItem
  PROVE  TypeOK' /\ (Assertions /\ Safe => Safe')
  <1>1. fun \in Text /\ fun \in InFile /\ fun # "skip" /\ run = "parsing" /\ ns_uri \in Ns
    BY Targets, TextStates DEF EndItem, EndElement, TypeOK, DocumentTypeOK
  <1>2. fun # "signature_v4" => Target[fun] \in Items
    BY Targets DEF EndItem, ItemText, Items, ListOf
  <1>3. PctrlTypeOK'
    BY <1>2, CommitItemType, CommitSignatureType, PctrlUnchangedType
    DEF TypeOK, EndItem, CommitTarget
  <1>4. HandlerTypeOK'
    BY <1>1, ReturnType, ErrorHandlerType, BadAllocIsError, StopType
    DEF TypeOK, EndItem, CommitTarget
  <1>5. DocumentTypeOK'
    BY EndElementType DEF TypeOK, EndItem, CommitTarget
  <1>6. ASSUME Assertions, Safe PROVE Safe'
    <2>1. CommitTarget \/ ErrorHandler("bad_alloc")
      BY <1>1, <1>6, NotDangling DEF EndItem
    <2>2. CASE CommitTarget
      BY <1>1, <1>6, <2>2, CommitTargetOpen, ReturnSafe DEF Safe, TypeOK, EndItem
    <2> QED
      BY <1>6, <2>1, <2>2, ErrorSafe DEF Safe
  <1> QED
    BY <1>3, <1>4, <1>5, <1>6 DEF TypeOK

LEMMA EndFilesInv ==
  ASSUME TypeOK, EndFiles
  PROVE  TypeOK' /\ (Safe => Safe')
  <1>0. PICK h : h = IF fun = "files_v3" THEN "metalink_v3" ELSE "fin"
    OBVIOUS
  <1>1. /\ fun \in Fun \ {"skip", "null"}
        /\ fun \notin InFile
        /\ run = "parsing"
    BY TextStates, Containers DEF EndFiles, EndElement, Container, ContainerV3, ContainerV4
  <1>2. /\ h \in Fun \ {"skip"}
        /\ h \notin InFile
        /\ h \notin InPieces
        /\ h \notin DOMAIN Target
    BY <1>0, TextStates, Containers, Targets DEF Container, ContainerV3, ContainerV4
  <1>3. PctrlTypeOK'
    BY AccumulateFilesType DEF TypeOK, EndFiles
  <1>4. HandlerTypeOK'
    BY <1>0, <1>1, <1>2, EnterType, ErrorHandlerType, BadAllocIsError DEF TypeOK, EndFiles
  <1>5. DocumentTypeOK'
    BY EndElementType DEF TypeOK, EndFiles
  <1>6. ASSUME Safe PROVE Safe'
    <2>1. CASE AccumulateFiles /\ Enter(h)
      <3>1. OpenIn(fun)
        BY <1>1, <1>6, OpenHere DEF Safe
      <3>2. temp' = temp /\ \A l \in FileLists : list'[l] = list[l]
        BY <2>1, Names DEF AccumulateFiles, TypeOK, PctrlTypeOK, CtrlTypeOK
      <3>3. OpenIn(h)'
        BY <1>1, <1>2, <3>1, <3>2 DEF OpenIn
      <3> QED
        BY <1>2, <1>6, <2>1, <3>3, EnterSafe DEF Safe
    <2> QED
      BY <1>0, <1>6, <2>1, ErrorSafe DEF Safe, EndFiles
  <1> QED
    BY <1>3, <1>4, <1>5, <1>6 DEF TypeOK

\* A commit that succeeds leaves nothing collected for the next file.
LEMMA CommitFileEmpties ==
  ASSUME PctrlTypeOK, CommitFile("none")
  PROVE  temp'["file"] = NULL /\ \A l \in FileLists : list'[l] = <<>>
  <1>1. FileLists \subseteq MovedBefore("none")
    <2>1. \A i \in DOMAIN CommitOrder : CommitOrder[i] \in FileLists
      BY DEF FileLists, Range
    <2>2. "none" \notin FileLists
      BY Names
    <2>3. DOMAIN CommitOrder = 1..5
      BY DEF CommitOrder
    <2>4. \A n \in DOMAIN CommitOrder : \A m \in 1..n : CommitOrder[m] # "none"
      BY <2>1, <2>2, <2>3
    <2> QED
      BY <2>4 DEF MovedBefore, FileLists, Range
  <1>2. \A l \in FileLists : list'[l] = <<>>
    BY <1>1, Names DEF CommitFile
  <1>3. temp'["file"] = NULL
    BY Names DEF CommitFile, PctrlTypeOK, CtrlTypeOK
  <1> QED
    BY <1>2, <1>3

LEMMA EndFileInv ==
  ASSUME TypeOK, EndFile
  PROVE  TypeOK' /\ (Safe => Safe')
  <1>0. PICK h : h = IF fun = "file_v3" THEN "files_v3" ELSE "metalink_v4"
    OBVIOUS
  <1>1. fun \in Fun \ {"skip", "null"} /\ fun \in InFile /\ run = "parsing"
    BY TextStates, Containers DEF EndFile, EndElement, Container, ContainerV3, ContainerV4
  <1>2. /\ h \in Fun \ {"skip"}
        /\ h \notin InFile
        /\ h \notin InPieces
        /\ h \notin DOMAIN Target
    BY <1>0, TextStates, Containers, Targets DEF Container, ContainerV3, ContainerV4
  <1>3. PctrlTypeOK'
    BY CommitFileType, PctrlUnchangedType DEF TypeOK, EndFile, CommitFailures
  <1>4. "no_file_transaction" \in Errors /\ "bad_alloc" \in Errors
    BY DEF Errors
  <1>5. HandlerTypeOK'
    BY <1>0, <1>1, <1>2, <1>4, EnterType, ErrorHandlerType DEF TypeOK, EndFile
  <1>6. DocumentTypeOK'
    BY EndElementType DEF TypeOK, EndFile
  <1>7. ASSUME Safe PROVE Safe'
    <2>1. temp["file"] # NULL
      BY <1>1, <1>7, OpenHere DEF Safe, OpenIn
    <2>2. CASE CommitFile("none") /\ Enter(h)
      <3>1. OpenIn(h)'
        BY <1>2, <2>2, CommitFileEmpties DEF OpenIn, TypeOK
      <3> QED
        BY <1>2, <1>7, <2>2, <3>1, EnterSafe DEF Safe
    <2> QED
      BY <1>0, <1>7, <2>1, <2>2, ErrorSafe DEF Safe, EndFile
  <1> QED
    BY <1>3, <1>5, <1>6, <1>7 DEF TypeOK

LEMMA EndPiecesInv ==
  ASSUME TypeOK, EndPieces
  PROVE  TypeOK' /\ (Safe => Safe')
  <1>0. PICK h : h = IF fun = "pieces_v3" THEN "verification_v3" ELSE "file_v4"
    OBVIOUS
  <1>1. /\ fun \in Fun \ {"skip", "null"}
        /\ fun \in InFile
        /\ fun \in InPieces
        /\ run = "parsing"
    BY TextStates, Containers DEF EndPieces, EndElement, Container, ContainerV3, ContainerV4
  <1>2. /\ h \in Fun \ {"skip"}
        /\ h \in InFile
        /\ h \notin InPieces
        /\ h \notin DOMAIN Target
    BY <1>0, TextStates, Containers, Targets DEF Container, ContainerV3, ContainerV4
  <1>3. PctrlTypeOK'
    BY CommitChunkType, CommitChunkFailsType, PctrlUnchangedType DEF TypeOK, EndPieces
  <1>4. {"no_chunk_checksum_transaction", "no_file_transaction", "bad_alloc"} \subseteq Errors
    BY DEF Errors
  <1>5. HandlerTypeOK'
    BY <1>0, <1>1, <1>2, <1>4, EnterType, ErrorHandlerType DEF TypeOK, EndPieces
  <1>6. DocumentTypeOK'
    BY EndElementType DEF TypeOK, EndPieces
  <1>7. ASSUME Safe PROVE Safe'
    <2>1. temp["file"] # NULL /\ temp["chunk"] # NULL
      BY <1>1, <1>7, OpenHere DEF Safe, OpenIn
    <2>2. CASE CommitChunk /\ Enter(h)
      <3>1. temp'["file"] # NULL
        BY <2>1, <2>2, Names DEF CommitChunk, TypeOK, PctrlTypeOK, CtrlTypeOK
      <3>2. OpenIn(h)'
        BY <1>2, <3>1 DEF OpenIn
      <3> QED
        BY <1>2, <1>7, <2>2, <3>2, EnterSafe DEF Safe
    <2> QED
      BY <1>0, <1>7, <2>1, <2>2, ErrorSafe DEF Safe, EndPieces
  <1> QED
    BY <1>3, <1>5, <1>6, <1>7 DEF TypeOK

LEMMA EndPlainInv ==
  ASSUME TypeOK, EndPlain
  PROVE  TypeOK' /\ (Safe => Safe')
  <1>0. PICK h : h = IF fun = "metalink_v3" THEN "fin" ELSE "file_v3"
    OBVIOUS
  <1>1. fun \in Fun \ {"skip", "null"} /\ run = "parsing"
    BY TextStates DEF EndPlain, EndElement, Container, ContainerV3
  <1>2. /\ h \in Fun \ {"skip"}
        /\ h \in InFile <=> fun \in InFile
        /\ h \notin InPieces
        /\ h \notin DOMAIN Target
    BY <1>0, TextStates, Containers, Targets DEF EndPlain, Container, ContainerV3
  <1>3. PctrlTypeOK'
    BY PctrlUnchangedType DEF TypeOK, EndPlain
  <1>4. HandlerTypeOK'
    BY <1>0, <1>1, <1>2, EnterType DEF TypeOK, EndPlain
  <1>5. DocumentTypeOK'
    BY EndElementType DEF TypeOK, EndPlain
  <1>6. ASSUME Safe PROVE Safe'
    <2>1. OpenIn(fun)
      BY <1>1, <1>6, OpenHere DEF Safe
    <2>2. OpenIn(h)'
      BY <1>2, <2>1 DEF OpenIn, EndPlain, pctrlVars
    <2> QED
      BY <1>0, <1>2, <1>6, <2>2, EnterSafe DEF Safe, EndPlain
  <1> QED
    BY <1>3, <1>4, <1>5, <1>6 DEF TypeOK

LEMMA EndInv ==
  ASSUME TypeOK, End
  PROVE  TypeOK' /\ (Assertions /\ Safe => Safe')
  BY EndIgnoredInv, EndInSkipInv, EndScalarInv, EndVersionInv, EndStringInv, EndItemInv,
     EndFilesInv, EndFileInv, EndPiecesInv, EndPlainInv DEF End

-----------------------------------------------------------------------------
(***************************************************************************)
(* The end of the parse, and the theorems.                                 *)
(***************************************************************************)
LEMMA FinishInv ==
  ASSUME TypeOK, NEW ok \in BOOLEAN, Finish(ok)
  PROVE  TypeOK' /\ (Safe => Safe')
  <1>1. (ok /\ error = "none") \in BOOLEAN
    OBVIOUS
  <1>2. PctrlTypeOK'
    BY <1>1, DeleteSessionType DEF TypeOK, Finish
  <1>3. HandlerTypeOK' /\ DocumentTypeOK'
    BY DEF TypeOK, HandlerTypeOK, DocumentTypeOK, Finish, stateVars, envVars
  <1>4. Safe => Safe'
    BY DEF Safe, NoInternalError, TransactionsOpen, Finish
  <1> QED
    BY <1>2, <1>3, <1>4 DEF TypeOK

LEMMA DeleteInv ==
  ASSUME TypeOK, Delete
  PROVE  TypeOK' /\ (Safe => Safe')
  <1>1. PctrlTypeOK'
    BY AppDeleteType DEF TypeOK, Delete
  <1>2. HandlerTypeOK' /\ DocumentTypeOK'
    BY DEF TypeOK, HandlerTypeOK, DocumentTypeOK, Delete, stateVars, envVars
  <1>3. Safe => Safe'
    BY DEF Safe, NoInternalError, TransactionsOpen, Here, OpenIn, Delete, AppDelete, stateVars
  <1> QED
    BY <1>1, <1>2, <1>3 DEF TypeOK

LEMMA UnchangedInv ==
  ASSUME TypeOK, UNCHANGED vars
  PROVE  TypeOK' /\ (Safe => Safe')
  <1>1. PctrlTypeOK'
    BY PctrlUnchangedType DEF TypeOK, vars
  <1>2. HandlerTypeOK' /\ DocumentTypeOK'
    BY DEF TypeOK, HandlerTypeOK, DocumentTypeOK, vars, stateVars, envVars
  <1>3. Safe => Safe'
    BY DEF Safe, NoInternalError, TransactionsOpen, Here, OpenIn, vars, stateVars, pctrlVars
  <1> QED
    BY <1>1, <1>2, <1>3 DEF TypeOK

LEMMA NextInv ==
  ASSUME TypeOK, [Next]_vars
  PROVE  TypeOK' /\ (Assertions /\ Safe => Safe')
  BY StartInv, EndInv, FinishInv, DeleteInv, UnchangedInv DEF Next, Terminated

LEMMA InitInv ==
  ASSUME Init
  PROVE  TypeOK /\ Safe
  <1>1. PctrlTypeOK
    BY PctrlInitType DEF Init
  <1>2. HandlerTypeOK
    <2>1. fun \in Fun \ {"skip"} /\ before_fun \in Fun \ {"skip"} /\ skip_depth = 0
      BY TextStates DEF Init
    <2>2. buffering \in BOOLEAN /\ error \in Errors
      BY DEF Init, Errors
    <2>3. run = "parsing"
      BY DEF Init
    <2> QED
      BY <2>1, <2>2, <2>3 DEF HandlerTypeOK
  <1>3. DocumentTypeOK
    <2>1. <<>> \in Seq(Addr)
      OBVIOUS
    <2> QED
      BY <2>1 DEF Init, DocumentTypeOK, Ns
  <1>4. Safe
    BY TextStates, Targets, Containers, Names
    DEF Init, PctrlInit, Safe, NoInternalError, TransactionsOpen, Here, OpenIn
  <1> QED
    BY <1>1, <1>2, <1>3, <1>4 DEF TypeOK

\* Whatever document is parsed and whichever allocation fails, the variables
\* of the state machine and of the transaction layer hold values of their
\* types, and an element is being skipped exactly when skip_depth counts it.
THEOREM TypeCorrect == Spec => []TypeOK
  <1>1. Init => TypeOK
    BY InitInv
  <1>2. TypeOK /\ [Next]_vars => TypeOK'
    BY NextInv
  <1> QED
    BY <1>1, <1>2, PTL DEF Spec

\* The inductive invariant of a library built with its assertions.
LEMMA InvHolds == ASSUME Assertions PROVE Spec => []Inv
  <1>1. Init => Inv
    BY InitInv DEF Inv
  <1>2. Inv /\ [Next]_vars => Inv'
    BY NextInv DEF Inv
  <1> QED
    BY <1>1, <1>2, PTL DEF Spec

\* In a library built with its assertions every handler finds the transaction
\* it writes to open, for documents of any size and form: the setters of
\* lib/metalink_pctrl.c need no check of ctrl->temp_*.
THEOREM TransactionDiscipline == ASSUME Assertions PROVE Spec => []TransactionsOpen
  <1>1. Inv => TransactionsOpen
    BY DEF Inv, Safe
  <1> QED
    BY <1>1, InvHolds, PTL

\* ... and the library never reports an error metalink_strerror calls a bug,
\* nor uses a NULL transaction.
THEOREM NoTransactionErrors == ASSUME Assertions PROVE Spec => []NoInternalError
  <1>1. Inv => NoInternalError
    BY DEF Inv, Safe
  <1> QED
    BY <1>1, InvHolds, PTL

-----------------------------------------------------------------------------
(***************************************************************************)
(* The handlers call the transaction layer as PctrlSpec allows: what holds *)
(* of its functions called in any order holds of every parse.              *)
(***************************************************************************)
\* While the parse goes on the session owns the metalink.
Running == run = "parsing" => holder = "ctrl"

\* One call of the transaction layer by a handler, or none.
Calls == UNCHANGED pctrlVars \/ (PctrlNext /\ holder' = holder)

LEMMA StartCalls ==
  ASSUME TypeOK, Running, Start
  PROVE  Calls /\ run = "parsing"
  <1>1. ASSUME NEW ns \in Ns,
               StartIgnored(ns) \/ StartInSkip(ns) \/ StartMetalink(ns) \/ StartSkipped(ns)
        PROVE  Calls /\ run = "parsing"
    BY <1>1 DEF Calls, StartIgnored, StartInSkip, StartMetalink, StartSkipped, StartElement
  <1>2. ASSUME NEW c \in Plain, StartPlain(c)
        PROVE  Calls /\ run = "parsing"
    BY <1>2 DEF Calls, StartPlain, StartElement
  <1>3. CASE StartPublisher
    BY <1>3 DEF Calls, StartPublisher, StartElement
  <1>4. ASSUME NEW c \in Opening, StartTransaction(c)
        PROVE  Calls /\ run = "parsing"
    <2>1. c.tx \in Tx /\ run = "parsing" /\ holder = "ctrl"
      BY <1>4, OpeningTable DEF StartTransaction, StartElement, Running
    <2>2. Unranked \in Priorities(c.tx)
      BY UnrankedType DEF Priorities
    <2>3. \/ \E p \in Priorities(c.tx) : NewTransaction(c.tx, p)
          \/ NewTransactionFails(c.tx)
      BY <1>4, <2>2 DEF StartTransaction
    <2> QED
      BY <2>1, <2>3 DEF Calls, PctrlNext, NewTransaction, NewTransactionFails
  <1> QED
    BY <1>1, <1>2, <1>3, <1>4 DEF Start

LEMMA EndCalls ==
  ASSUME TypeOK, Running, End
  PROVE  Calls /\ run = "parsing"
  <1>0. run = "parsing" /\ holder = "ctrl"
    BY DEF End, EndElement, Running, EndIgnored, EndInSkip, EndScalar, EndVersion,
       EndString, EndItem, EndFiles, EndFile, EndPieces, EndPlain
  <1>1. CASE EndIgnored \/ EndInSkip \/ EndScalar \/ EndVersion \/ EndPlain
    BY <1>0, <1>1 DEF Calls, EndIgnored, EndInSkip, EndScalar, EndVersion, EndPlain
  <1>2. CASE EndString
    <2>1. StringListOf[fun] \in StringLists
      BY <1>2 DEF EndString, StringListOf, StringLists
    <2>2. \/ \E l \in StringLists : AddString(l)
          \/ AddStringAppendFails
          \/ UNCHANGED pctrlVars
      BY <1>2, <2>1 DEF EndString
    <2> QED
      BY <1>0, <2>2 DEF Calls, PctrlNext, AddString, AddStringAppendFails
  <1>3. CASE EndItem
    <2>1. fun # "signature_v4" => Target[fun] \in Items
      BY <1>3, Targets DEF EndItem, ItemText, Items, ListOf
    <2>2. \/ \E k \in Items : CommitItem(k)
          \/ CommitSignature
          \/ UNCHANGED pctrlVars
      BY <1>3, <2>1 DEF EndItem, CommitTarget
    <2> QED
      BY <1>0, <2>2 DEF Calls, PctrlNext, CommitItem, CommitSignature
  <1>4. CASE EndFiles
    BY <1>0, <1>4
    DEF Calls, EndFiles, PctrlNext, AccumulateFiles, AccumulateFilesFails
  <1>5. CASE EndFile
    <2>1. UNCHANGED pctrlVars \/ \E fail \in CommitFailures : CommitFile(fail)
      BY <1>5 DEF EndFile, CommitFailures
    <2> QED
      BY <1>0, <2>1 DEF Calls, PctrlNext, CommitFile
  <1>6. CASE EndPieces
    BY <1>0, <1>6 DEF Calls, EndPieces, PctrlNext, CommitChunk, CommitChunkFails
  <1> QED
    BY <1>1, <1>2, <1>3, <1>4, <1>5, <1>6 DEF End

LEMMA NextCalls ==
  ASSUME TypeOK, Running, [Next]_vars
  PROVE  [PctrlNext]_pctrlVars /\ Running'
  <1>1. CASE Start \/ End
    BY <1>1, StartCalls, EndCalls DEF Calls, Running, pctrlVars
  <1>2. ASSUME NEW ok \in BOOLEAN, Finish(ok)
        PROVE  PctrlNext /\ Running'
    <2>1. (ok /\ error = "none") \in BOOLEAN
      OBVIOUS
    <2> QED
      BY <1>2, <2>1 DEF Finish, PctrlNext, Running
  <1>3. CASE Delete
    BY <1>3 DEF Delete, AppDelete, PctrlNext, Running
  <1>4. CASE UNCHANGED vars
    BY <1>4 DEF vars, pctrlVars, Running
  <1> QED
    BY <1>1, <1>2, <1>3, <1>4 DEF Next, Terminated

LEMMA InitRuns == Init => Running
  BY DEF Init, PctrlInit, Running

\* Every parse, of whatever document and with whatever failures, is a run of the
\* transaction layer.
THEOREM ImplementsPctrl == Spec => PctrlSpec
  <1>1. TypeOK /\ Running /\ [Next]_vars => [PctrlNext]_pctrlVars /\ Running'
    BY NextCalls
  <1>2. Init => PctrlInit
    BY DEF Init
  <1> QED
    BY <1>1, <1>2, InitRuns, TypeCorrect, PTL DEF Spec, PctrlSpec

\* So in every parse no object is held in two places ...
THEOREM ParseHoldsOnce == Spec => []SingleOwner
  BY ImplementsPctrl, NoObjectHeldTwice, PTL

\* ... and nothing that is held was freed, or is of an unexpected kind.
THEOREM ParseHoldsLive == Spec => []NoDanglingNoConfusion
  BY ImplementsPctrl, NothingHeldIsFreed, PTL

\* The files handed to the application have their resources and metaurls in
\* priority order, however they were interleaved in the document.
THEOREM ParseStaysSorted == Spec => []CommittedFilesSorted
  BY ImplementsPctrl, CommittedStaySorted, PTL

LEMMA ParseOwns == Spec => []Ownership
  BY ImplementsPctrl, OwnershipHolds, PTL

-----------------------------------------------------------------------------
(***************************************************************************)
(* What belongs to whom.  BelongIn(h) says whose the collected objects are *)
(* while state h is in charge, as OpenIn(h) says which transactions are    *)
(* open.                                                                   *)
(***************************************************************************)
BelongIn(h) ==
  /\ h \in InFile => \A l \in FileLists : \A a \in Range(list[l]) : home[a] = temp["file"]
  /\ h \in InPieces => /\ home[temp["chunk"]] = temp["file"]
                       /\ \A a \in Range(list["piece_hashes"]) : home[a] = temp["chunk"]
  /\ h \in ItemText => home[temp[Target[h]]] = Enclosing(Target[h])

\* What an object points to was found inside it.
FieldsAtHome ==
  \A f \in Addr : \A s \in Slots : \A a \in Range(own[f][s]) : home[a] = f

Belongs == run = "parsing" /\ Here # "null" => BelongIn(Here)

BelongInv == FieldsAtHome /\ Belongs

\* What a step neither frees nor allocates keeps its home.
HomeKept == \A a \in Addr : kind[a] # "unused" /\ kind'[a] # "freed" => home'[a] = home[a]

LEMMA HeapKeepsHome ==
  ASSUME NEW F, Free(F) \/ (\E k, p, h : FreeAndAlloc(F, k, p, h)) \/ UNCHANGED heapVars
         \/ home' = home
  PROVE  HomeKept
  <1>1. CASE UNCHANGED heapVars \/ home' = home
    BY <1>1 DEF heapVars, HomeKept
  <1>2. CASE Free(F)
    BY <1>2 DEF Free, HomeKept
  <1>3. CASE \E k, p, h : FreeAndAlloc(F, k, p, h)
    BY <1>3, FreshType DEF FreeAndAlloc, HomeKept
  <1> QED
    BY <1>1, <1>2, <1>3

\* What is held before and after a step keeps its home.
LEMMA HeldKeepsHome ==
  ASSUME Ownership, Ownership', HomeKept,
         NEW in \in Owners, NEW at \in Spots, NEW jn \in Owners, NEW bt \in Spots,
         NEW x \in Addr, Holds(in, at, x), Holds(jn, bt, x)'
  PROVE  home'[x] = home[x]
  <1>1. kind[x] # "unused"
    BY HeldIsLive
  <1>2. kind'[x] = KindAt(bt)
    BY DEF Ownership, RightKind, Owners, Spots
  <1>3. kind'[x] # "freed"
    BY <1>2, KindOfPlace DEF Kinds, Tx
  <1> QED
    BY <1>1, <1>3 DEF HomeKept

LEMMA FieldsStay ==
  ASSUME Ownership, Ownership', FieldsAtHome, HomeKept,
         \A f \in Addr : \A s \in Slots : Range(own'[f][s]) \subseteq Range(own[f][s])
  PROVE  FieldsAtHome'
  <1> SUFFICES ASSUME NEW f \in Addr, NEW s \in Slots, NEW a \in Range(own'[f][s])
               PROVE  home'[a] = f
    BY DEF FieldsAtHome
  <1>1. own[f][s] \in Seq(Addr) /\ a \in Range(own[f][s])
    BY DEF Ownership, PctrlTypeOK, HeapTypeOK
  <1>2. a \in Addr /\ home[a] = f
    BY <1>1, RangeInSet DEF FieldsAtHome
  <1>3. Holds(f, s, a) /\ Holds(f, s, a)' /\ f \in Owners /\ s \in Spots
    BY <1>1 DEF Holds, Owners, Spots
  <1> QED
    BY <1>2, <1>3, HeldKeepsHome

\* The object of an open transaction keeps its home while it stays open.
LEMMA OpenKeepsHome ==
  ASSUME Ownership, Ownership', HomeKept, NEW k \in Tx, temp[k] # NULL, temp'[k] = temp[k]
  PROVE  home'[temp'[k]] = home[temp[k]]
  <1>1. temp[k] \in Addr /\ Holds(NULL, k, temp[k])
    BY OpenIsHeld
  <1>2. Holds(NULL, k, temp[k])' /\ k \in Spots /\ NULL \in Owners
    BY DEF Holds, Owners, Spots
  <1>3. \A x \in Addr : Holds(NULL, k, x) /\ x = temp'[k] => home'[x] = home[x]
    BY <1>2, HeldKeepsHome DEF Holds
  <1> QED
    BY <1>1, <1>3

LEMMA ListedKeepsHome ==
  ASSUME Ownership, Ownership', HomeKept, NEW l \in Lists, NEW a \in Range(list'[l]),
         a \in Range(list[l])
  PROVE  a \in Addr /\ home'[a] = home[a]
  <1>1. a \in Addr
    BY RangeInSet DEF Ownership, PctrlTypeOK, CtrlTypeOK
  <1>2. Holds(NULL, l, a) /\ Holds(NULL, l, a)' /\ l \in Spots /\ NULL \in Owners
    BY DEF Holds, Owners, Spots
  <1> QED
    BY <1>1, <1>2, HeldKeepsHome

LEMMA ItemTargets ==
  /\ ItemText \subseteq InFile
  /\ \A h \in ItemText : Target[h] \in Tx \ {"file", "chunk"}
  /\ \A h \in ItemText : Target[h] = "piece_hash" <=> h = "piece_hash"
  /\ "piece_hash" \in InPieces
  /\ InPieces \subseteq InFile
  /\ Container \cap ItemText = {}
  BY Targets, Containers, TextStates DEF ItemText, InPieces, Tx

\* A step from state h to state g that keeps what h is about keeps what belongs.
LEMMA BelongStays ==
  ASSUME Ownership, Ownership', HomeKept, NEW h, NEW g, BelongIn(h), OpenIn(h),
         g \in InFile => h \in InFile,
         g \in InPieces => h \in InPieces,
         g \in ItemText => g = h,
         h \in InFile => temp'["file"] = temp["file"],
         h \in InFile => \A l \in FileLists : Range(list'[l]) \subseteq Range(list[l]),
         h \in InPieces => temp'["chunk"] = temp["chunk"],
         h \in InPieces => Range(list'["piece_hashes"]) \subseteq Range(list["piece_hashes"]),
         h \in ItemText /\ g = h => temp'[Target[h]] = temp[Target[h]]
  PROVE  BelongIn(g)'
  <1>n. FileLists \subseteq Lists /\ "piece_hashes" \in Lists /\ {"file", "chunk"} \subseteq Tx
    BY Names
  <1>1. ASSUME g \in InFile, NEW l \in FileLists, NEW a \in Range(list'[l])
        PROVE  home'[a] = temp'["file"]
    <2>1. a \in Range(list[l]) /\ l \in Lists
      BY <1>1, <1>n
    <2>2. home'[a] = home[a]
      BY <1>1, <2>1, ListedKeepsHome
    <2> QED
      BY <1>1, <2>1, <2>2 DEF BelongIn
  <1>2. ASSUME g \in InPieces
        PROVE  /\ home'[temp'["chunk"]] = temp'["file"]
               /\ \A a \in Range(list'["piece_hashes"]) : home'[a] = temp'["chunk"]
    <2>1. h \in InPieces /\ h \in InFile
      BY <1>2, ItemTargets
    <2>2. home'[temp'["chunk"]] = home[temp["chunk"]]
      BY <1>n, <2>1, OpenKeepsHome DEF OpenIn
    <2>3. ASSUME NEW a \in Range(list'["piece_hashes"])
          PROVE  home'[a] = temp'["chunk"]
      <3>1. a \in Range(list["piece_hashes"])
        BY <2>1
      <3>2. home'[a] = home[a]
        BY <1>n, <3>1, ListedKeepsHome
      <3> QED
        BY <2>1, <3>1, <3>2 DEF BelongIn
    <2> QED
      BY <2>1, <2>2, <2>3 DEF BelongIn
  <1>3. ASSUME g \in ItemText
        PROVE  home'[temp'[Target[g]]] = Enclosing(Target[g])'
    <2>1. g = h /\ h \in InFile /\ Target[h] \in Tx /\ h \in DOMAIN Target
      BY <1>3, ItemTargets, Targets
    <2>2. home'[temp'[Target[h]]] = home[temp[Target[h]]]
      BY <1>3, <2>1, OpenKeepsHome DEF OpenIn
    <2>3. Enclosing(Target[h])' = Enclosing(Target[h])
      BY <1>3, <2>1, ItemTargets DEF Enclosing
    <2> QED
      BY <1>3, <2>1, <2>2, <2>3 DEF BelongIn
  <1> QED
    BY <1>1, <1>2, <1>3 DEF BelongIn

\* Opening a transaction in state h and entering state g.
LEMMA NewBelongs ==
  ASSUME Ownership, Ownership', NEW k \in Tx, NEW p \in Prio, NewTransaction(k, p),
         NEW h, NEW g, BelongIn(h), OpenIn(h),
         k # "file" => h \in InFile,
         g \in InPieces => k # "file" /\ (h \in InPieces \/ k = "chunk"),
         g \in ItemText => k = Target[g]
  PROVE  BelongIn(g)'
  <1>n. /\ FileLists \subseteq Lists /\ "piece_hashes" \in Lists /\ {"file", "chunk"} \subseteq Tx
        /\ FileLists \cap Cleared("chunk") = {}
    BY Names DEF Cleared
  <1>1. /\ Fresh \in Addr
        /\ home'[Fresh] = Enclosing(k)
        /\ temp' = [temp EXCEPT ![k] = Fresh]
        /\ list' = [l \in Lists |-> IF l \in Cleared(k) THEN <<>> ELSE list[l]]
        /\ temp \in [Tx -> Addr \cup {NULL}]
    BY FreshType DEF NewTransaction, FreeAndAlloc, Ownership, PctrlTypeOK, CtrlTypeOK
  <1>2. HomeKept
    BY HeapKeepsHome DEF NewTransaction
  <1>3. ASSUME NEW l \in FileLists, NEW a \in Range(list'[l])
        PROVE  home'[a] = temp'["file"]
    <2>1. CASE k = "file"
      BY <1>1, <1>3, <1>n, <2>1, RangeEmpty DEF Cleared
    <2>2. CASE k # "file"
      <3>1. list'[l] = list[l] /\ temp'["file"] = temp["file"] /\ l \in Lists
        BY <1>1, <1>n, <2>2 DEF Cleared
      <3>2. home'[a] = home[a]
        BY <1>2, <1>3, <3>1, ListedKeepsHome
      <3> QED
        BY <1>3, <2>2, <3>1, <3>2 DEF BelongIn
    <2> QED
      BY <2>1, <2>2
  <1>4. ASSUME g \in InPieces
        PROVE  /\ home'[temp'["chunk"]] = temp'["file"]
               /\ \A a \in Range(list'["piece_hashes"]) : home'[a] = temp'["chunk"]
    <2>1. CASE k = "chunk"
      BY <1>1, <1>n, <2>1, RangeEmpty DEF Cleared, Enclosing
    <2>2. CASE k # "chunk"
      <3>1. h \in InPieces /\ k # "file"
        BY <1>4, <2>2
      <3>2. /\ temp'["chunk"] = temp["chunk"] /\ temp'["file"] = temp["file"]
            /\ list'["piece_hashes"] = list["piece_hashes"]
        BY <1>1, <1>n, <2>2, <3>1 DEF Cleared
      <3>3. home'[temp'["chunk"]] = home[temp["chunk"]]
        BY <1>2, <1>n, <3>1, <3>2, OpenKeepsHome DEF OpenIn
      <3>4. ASSUME NEW a \in Range(list'["piece_hashes"])
            PROVE  home'[a] = home[a]
        BY <1>2, <1>n, <3>2, <3>4, ListedKeepsHome
      <3> QED
        BY <3>1, <3>2, <3>3, <3>4 DEF BelongIn
    <2> QED
      BY <2>1, <2>2
  <1>5. ASSUME g \in ItemText
        PROVE  home'[temp'[Target[g]]] = Enclosing(Target[g])'
    <2>1. k = Target[g] /\ k \notin {"file", "chunk"}
      BY <1>5, ItemTargets
    <2>2. temp'[k] = Fresh /\ temp'["chunk"] = temp["chunk"] /\ temp'["file"] = temp["file"]
      BY <1>1, <1>n, <2>1
    <2>3. Enclosing(k)' = Enclosing(k)
      BY <2>1, <2>2 DEF Enclosing
    <2> QED
      BY <1>1, <2>1, <2>2, <2>3
  <1> QED
    BY <1>3, <1>4, <1>5 DEF BelongIn

\* ... when the transaction layer is not called.
LEMMA QuietBelongs ==
  ASSUME Ownership, Ownership', UNCHANGED pctrlVars, NEW h, NEW g, BelongIn(h), OpenIn(h),
         g \in InFile => h \in InFile,
         g \in InPieces => h \in InPieces,
         g \in ItemText => g = h
  PROVE  BelongIn(g)'
  <1>1. HomeKept
    BY HeapKeepsHome DEF pctrlVars, heapVars
  <1> QED
    BY <1>1, BelongStays DEF pctrlVars

LEMMA QuietFields == ASSUME FieldsAtHome, UNCHANGED pctrlVars PROVE FieldsAtHome'
  BY DEF FieldsAtHome, pctrlVars

LEMMA EnterBelongs ==
  ASSUME NEW g \in Fun \ {"skip"}, Enter(g), BelongIn(g)'
  PROVE  Belongs'
  BY DEF Belongs, Here, Enter

LEMMA EnterSkipBelongs ==
  ASSUME NEW h, h = fun, EnterSkip, BelongIn(h)'
  PROVE  Belongs'
  BY DEF Belongs, Here, EnterSkip

LEMMA ErrorBelongs == ASSUME NEW e, ErrorHandler(e) PROVE Belongs'
  BY DEF Belongs, Here, ErrorHandler

LEMMA StopBelongs == ASSUME NEW how \in {"aborted", "crashed"}, Stop(how) PROVE Belongs'
  BY DEF Belongs, Stop

LEMMA BelongHere ==
  ASSUME Inv, BelongInv, run = "parsing", fun \in Fun \ {"skip", "null"}
  PROVE  BelongIn(fun) /\ OpenIn(fun)
  BY OpenHere DEF Inv, Safe, BelongInv, Belongs, Here

\* Leaving a text element.
LEMMA ReturnBelongs ==
  ASSUME Inv, Assertions, fun \in Text, Return,
         \A g \in ReturnsTo(fun) : BelongIn(g)'
  PROVE  Belongs'
  <1>1. HandlerTypeOK /\ ns_uri \in Ns
    BY DEF Inv, TypeOK, DocumentTypeOK
  <1>2. ReturnsTo(fun) \subseteq Fun \ {"skip"}
    BY TextStates DEF ReturnsTo
  <1> QED
    BY <1>1, <1>2, Returns, EnterBelongs, StopBelongs

\* The states text returns to ask for nothing the text did not.
LEMMA ReturnsAskLess ==
  ASSUME NEW h, NEW g \in ReturnsTo(h)
  PROVE  /\ g \in InFile => h \in InFile
         /\ g \in InPieces => h \in InPieces
         /\ g \notin ItemText
  BY ItemTargets DEF ReturnsTo

-----------------------------------------------------------------------------
LEMMA StartBelongs ==
  ASSUME Inv, Ownership, Ownership', BelongInv, Start
  PROVE  BelongInv'
  <1>1. ASSUME NEW ns \in Ns, StartIgnored(ns) \/ StartInSkip(ns)
        PROVE  BelongInv'
    <2>1. FieldsAtHome'
      BY <1>1, QuietFields DEF BelongInv, StartIgnored, StartInSkip
    <2>2. Belongs'
      BY <1>1 DEF BelongInv, Belongs, BelongIn, Enclosing, Here, StartIgnored, StartInSkip, Stay,
         stateVars, pctrlVars
    <2> QED
      BY <2>1, <2>2 DEF BelongInv
  <1>2. ASSUME NEW ns \in Ns, StartMetalink(ns)
        PROVE  BelongInv'
    <2> DEFINE g == IF ns = "v3" THEN "metalink_v3" ELSE "metalink_v4"
    <2>1. g \in Fun \ {"skip"} /\ g \notin InFile /\ g \notin InPieces /\ g \notin ItemText
      BY TextStates, Containers, ItemTargets DEF Container, ContainerV3, ContainerV4
    <2>2. Enter(g) /\ UNCHANGED pctrlVars
      BY <1>2 DEF StartMetalink
    <2> HIDE DEF g
    <2>3. BelongIn(g)'
      BY <2>1 DEF BelongIn
    <2> QED
      BY <2>1, <2>2, <2>3, EnterBelongs, QuietFields DEF BelongInv
  <1>3. ASSUME NEW ns \in Ns, StartSkipped(ns)
        PROVE  BelongInv'
    <2>1. EnterSkip /\ UNCHANGED pctrlVars /\ run = "parsing" /\ fun \in Fun \ {"skip", "null"}
      BY <1>3, TextStates DEF StartSkipped, StartElement
    <2>2. PICK h : h = fun
      OBVIOUS
    <2>3. BelongIn(h) /\ OpenIn(h)
      BY <2>1, <2>2, BelongHere
    <2>4. BelongIn(h)'
      BY <2>1, <2>3, QuietBelongs
    <2> QED
      BY <2>1, <2>2, <2>4, EnterSkipBelongs, QuietFields DEF BelongInv
  <1>4. ASSUME NEW c \in Plain, StartPlain(c)
        PROVE  BelongInv'
    <2>1. /\ UNCHANGED pctrlVars /\ run = "parsing" /\ fun = c[1]
          /\ fun \in Fun \ {"skip", "null"}
          /\ Stop("crashed") \/ Enter(c[3])
      BY <1>4, PlainTable, TextStates DEF StartPlain, StartElement
    <2>2. BelongIn(c[1]) /\ OpenIn(c[1])
      BY <2>1, BelongHere
    <2>3. c[3] \notin ItemText
      <3>1. c[3] \in DOMAIN Target => Target[c[3]] = "file"
        BY PlainTable
      <3> QED
        BY <3>1, Targets, ItemTargets
    <2>4. BelongIn(c[3])'
      BY <2>1, <2>2, <2>3, PlainTable, QuietBelongs
    <2> QED
      BY <2>1, <2>4, PlainTable, EnterBelongs, StopBelongs, QuietFields DEF BelongInv
  <1>5. CASE StartPublisher
    <2>1. /\ UNCHANGED pctrlVars /\ run = "parsing" /\ fun = "file_v4"
          /\ fun \in Fun \ {"skip", "null"}
          /\ Stop("crashed") \/ EnterSkip \/ ErrorHandler("bad_alloc")
      BY <1>5, TextStates DEF StartPublisher, StartElement, Container, ContainerV4
    <2>2. BelongIn("file_v4") /\ OpenIn("file_v4")
      BY <2>1, BelongHere
    <2>3. BelongIn("file_v4")'
      BY <2>1, <2>2, QuietBelongs
    <2> QED
      BY <2>1, <2>3, EnterSkipBelongs, ErrorBelongs, StopBelongs, QuietFields DEF BelongInv
  <1>6. ASSUME NEW c \in Opening, StartTransaction(c)
        PROVE  BelongInv'
    <2>1. /\ run = "parsing" /\ fun = c.in /\ c.tx \in Tx
          /\ fun \in Fun \ {"skip", "null"} /\ fun \notin ItemText
      BY <1>6, OpeningTable, TextStates, ItemTargets DEF StartTransaction, StartElement
    <2>2. BelongIn(c.in) /\ OpenIn(c.in)
      BY <2>1, BelongHere
    <2>3. NewTransactionFails(c.tx) \/ \E p \in Prio : NewTransaction(c.tx, p)
      BY <1>6, PrioritiesType, UnrankedType DEF StartTransaction
    <2>4. HomeKept /\ FieldsAtHome'
      <3>1. \A a \in Addr : own'[a] = NoFields \/ own'[a] = own[a]
        BY <2>3 DEF NewTransaction, NewTransactionFails, Free, FreeAndAlloc
      <3>2. HomeKept
        <4>1. CASE NewTransactionFails(c.tx)
          BY <4>1, HeapKeepsHome DEF NewTransactionFails
        <4>2. ASSUME NEW p \in Prio, NewTransaction(c.tx, p) PROVE HomeKept
          BY <4>2, HeapKeepsHome DEF NewTransaction
        <4> QED
          BY <2>3, <4>1, <4>2
      <3>3. \A f \in Addr : \A s \in Slots : Range(own'[f][s]) \subseteq Range(own[f][s])
        BY <3>1, RangeEmpty DEF NoFields
      <3> QED
        BY <3>2, <3>3, FieldsStay DEF BelongInv
    <2>5. Belongs'
      <3>1. ASSUME NEW p \in Prio, NewTransaction(c.tx, p), Enter(c.to)
            PROVE  Belongs'
        <4>1. c.to \in InPieces => c.tx # "file" /\ (c.in \in InPieces \/ c.tx = "chunk")
          BY DEF Opening, InPieces
        <4>2. c.to \in ItemText => c.tx = Target[c.to]
          BY OpeningTable, Targets
        <4>3. BelongIn(c.to)'
          BY <2>1, <2>2, <3>1, <4>1, <4>2, OpeningTable, NewBelongs
        <4> QED
          BY <3>1, <4>3, OpeningTable, EnterBelongs
      <3>2. ASSUME NEW p \in Prio, NewTransaction(c.tx, p), EnterSkip, c.check = "after"
            PROVE  Belongs'
        <4>1. c.tx \in {"resource", "metaurl"}
          BY <3>2, OpeningTable
        <4>2. BelongIn(c.in)'
          BY <2>1, <2>2, <3>2, <4>1, OpeningTable, NewBelongs
        <4> QED
          BY <2>1, <3>2, <4>2, EnterSkipBelongs
      <3> QED
        BY <1>6, <3>1, <3>2, ErrorBelongs, PrioritiesType, UnrankedType DEF StartTransaction
    <2> QED
      BY <2>4, <2>5 DEF BelongInv
  <1> QED
    BY <1>1, <1>2, <1>3, <1>4, <1>5, <1>6 DEF Start

-----------------------------------------------------------------------------
LEMMA EndStringBelongs ==
  ASSUME Inv, Assertions, Ownership, Ownership', BelongInv, EndString
  PROVE  BelongInv'
  <1>1. /\ run = "parsing" /\ fun \in Text /\ fun \in Fun \ {"skip", "null"}
        /\ fun \in InFile /\ fun \notin InPieces
        /\ StringListOf[fun] \in StringLists
    BY TextStates
    DEF EndString, EndElement, StringListOf, StringLists, Text, SharedText, InFile, InPieces
  <1>2. BelongIn(fun) /\ OpenIn(fun)
    BY <1>1, BelongHere
  <1>3. CASE UNCHANGED pctrlVars /\ ErrorHandler("bad_alloc")
    BY <1>3, QuietFields, ErrorBelongs DEF BelongInv
  <1>4. ASSUME FreeAndAlloc({}, "string", Unranked, temp["file"])
        PROVE  /\ HomeKept /\ FieldsAtHome'
               /\ Fresh \in Addr /\ home'[Fresh] = temp["file"]
    <2>1. Fresh \in Addr /\ own[Fresh] = NoFields
      BY <1>4, FreshType DEF FreeAndAlloc, Ownership, Shape
    <2>2. HomeKept
      BY <1>4, HeapKeepsHome
    <2>3. \A f \in Addr : \A s \in Slots : Range(own'[f][s]) \subseteq Range(own[f][s])
      BY <1>4, RangeEmpty DEF FreeAndAlloc, NoFields
    <2>4. FieldsAtHome'
      BY <2>2, <2>3, FieldsStay DEF BelongInv
    <2> QED
      BY <1>4, <2>1, <2>2, <2>4 DEF FreeAndAlloc
  <1>5. CASE AddStringAppendFails /\ ErrorHandler("bad_alloc")
    BY <1>4, <1>5, ErrorBelongs DEF BelongInv, AddStringAppendFails
  <1>6. CASE AddString(StringListOf[fun]) /\ Return
    <2> DEFINE l == StringListOf[fun]
    <2>1. FreeAndAlloc({}, "string", Unranked, temp["file"]) /\ temp' = temp
      BY <1>6 DEF AddString
    <2>2. /\ l \in Lists /\ list[l] \in Seq(Addr) /\ FileLists \subseteq Lists
          /\ list' = [list EXCEPT ![l] = Append(@, Fresh)]
          /\ list \in [Lists -> Seq(Addr)]
      BY <1>1, <1>6, Names DEF AddString, Ownership, PctrlTypeOK, CtrlTypeOK
    <2> HIDE DEF l
    <2>3. ASSUME NEW m \in FileLists, NEW a \in Range(list'[m])
          PROVE  home'[a] = temp'["file"]
      <3>1. CASE m = l /\ a = Fresh
        BY <1>4, <2>1, <3>1
      <3>2. CASE a \in Range(list[m])
        <4>1. home'[a] = home[a]
          BY <1>4, <2>1, <2>2, <2>3, <3>2, ListedKeepsHome
        <4> QED
          BY <1>1, <1>2, <2>1, <3>2, <4>1 DEF BelongIn
      <3>3. Range(Append(list[l], Fresh)) = Range(list[l]) \cup {Fresh}
        BY <1>4, <2>1, <2>2, RangeAppend
      <3> QED
        BY <2>2, <2>3, <3>1, <3>2, <3>3
    <2>4. \A g \in ReturnsTo(fun) : BelongIn(g)'
      BY <1>1, <2>3, ReturnsAskLess DEF BelongIn
    <2>5. Belongs'
      BY <1>1, <1>6, <2>4, ReturnBelongs
    <2> QED
      BY <1>4, <2>1, <2>5 DEF BelongInv
  <1> QED
    BY <1>3, <1>5, <1>6 DEF EndString

LEMMA CommitItemBelongs ==
  ASSUME Ownership, Ownership', FieldsAtHome, NEW h \in ItemText, h # "signature_v4",
         CommitItem(Target[h]), BelongIn(h), OpenIn(h)
  PROVE  FieldsAtHome' /\ \A g \in ReturnsTo(h) : BelongIn(g)'
  <1> DEFINE k == Target[h]
             l == ListOf[k]
  <1>1. /\ k \in Items /\ k \in Tx \ {"file", "chunk"} /\ l \in Lists
        /\ h \in InFile /\ temp[k] \in Addr
    <2>1. k \in Items
      BY Targets DEF ItemText, Items, ListOf
    <2>2. k \in Tx \ {"file", "chunk"} /\ h \in InFile
      BY ItemTargets
    <2> QED
      BY <2>1, <2>2, Names, OpenIsHeld DEF CommitItem
  <1>2. /\ l = "piece_hashes" <=> k = "piece_hash"
        /\ k = "piece_hash" <=> h = "piece_hash"
    BY <1>1, ItemTargets DEF ListOf, Items
  <1>3. /\ home' = home /\ own' = own
        /\ \A j \in Tx \ {k} : temp'[j] = temp[j]
        /\ \A m \in Lists \ {l} : list'[m] = list[m]
        /\ list'[l] = Append(list[l], temp[k])
    BY <1>1 DEF CommitItem, heapVars, Ownership, PctrlTypeOK, CtrlTypeOK
  <1>4. FieldsAtHome'
    BY <1>3 DEF FieldsAtHome
  <1>5. home[temp[k]] = Enclosing(k)
    BY DEF BelongIn
  <1>6. list[l] \in Seq(Addr)
    BY <1>1 DEF Ownership, PctrlTypeOK, CtrlTypeOK
  <1>7. Range(list'[l]) = Range(list[l]) \cup {temp[k]}
    BY <1>1, <1>3, <1>6, RangeAppend
  <1>n. /\ FileLists \subseteq Lists /\ "piece_hashes" \in Lists /\ "piece_hashes" \notin FileLists
        /\ "file" \in Tx /\ "chunk" \in Tx
    BY Names
  <1> HIDE DEF k, l
  <1>8. ASSUME NEW g \in ReturnsTo(h)
        PROVE  BelongIn(g)'
    <2>1. g \notin ItemText /\ (g \in InPieces => h \in InPieces)
      BY ReturnsAskLess
    <2>2. ASSUME NEW m \in FileLists, NEW a \in Range(list'[m])
          PROVE  home'[a] = temp'["file"]
      <3>1. CASE m # l
        BY <1>1, <1>3, <1>n, <2>2, <3>1 DEF BelongIn
      <3>2. CASE m = l /\ a \in Range(list[m])
        BY <1>1, <1>3, <1>n, <2>2, <3>2 DEF BelongIn
      <3>3. CASE m = l /\ a = temp[k]
        BY <1>1, <1>2, <1>3, <1>5, <1>n, <3>3 DEF Enclosing
      <3> QED
        BY <1>7, <2>2, <3>1, <3>2, <3>3
    <2>3. ASSUME g \in InPieces
          PROVE  /\ home'[temp'["chunk"]] = temp'["file"]
                 /\ \A a \in Range(list'["piece_hashes"]) : home'[a] = temp'["chunk"]
      <3>1. h \in InPieces
        BY <2>1, <2>3
      <3>2. temp'["chunk"] = temp["chunk"] /\ temp'["file"] = temp["file"]
        BY <1>1, <1>3, <1>n
      <3>3. ASSUME NEW a \in Range(list'["piece_hashes"])
            PROVE  home'[a] = temp'["chunk"]
        <4>1. CASE a \in Range(list["piece_hashes"])
          BY <1>3, <3>1, <3>2, <4>1 DEF BelongIn
        <4>2. CASE l = "piece_hashes" /\ a = temp[k]
          BY <1>2, <1>3, <1>5, <3>2, <4>2 DEF Enclosing
        <4> QED
          BY <1>3, <1>7, <1>n, <3>3, <4>1, <4>2
      <3> QED
        BY <1>3, <3>1, <3>2, <3>3 DEF BelongIn
    <2> QED
      BY <2>1, <2>2, <2>3 DEF BelongIn
  <1> QED
    BY <1>4, <1>8

LEMMA CommitSignatureBelongs ==
  ASSUME Ownership, Ownership', FieldsAtHome, CommitSignature,
         BelongIn("signature_v4"), OpenIn("signature_v4")
  PROVE  FieldsAtHome' /\ \A g \in ReturnsTo("signature_v4") : BelongIn(g)'
  <1> DEFINE f == temp["file"]
             g0 == temp["signature"]
             old == Trees(Range(own[f]["signature"]))
  <1>0. /\ f \in Addr /\ "signature" \in Slots /\ home[g0] = f /\ home' = home
        /\ "signature_v4" \in ItemText /\ Target["signature_v4"] = "signature"
        /\ temp' = [temp EXCEPT !["signature"] = NULL] /\ list' = list
        /\ temp \in [Tx -> Addr \cup {NULL}]
    <2>1. f \in Addr /\ "signature" \in Slots
      BY Names, OpenIsHeld DEF CommitSignature
    <2>2. "signature_v4" \in ItemText /\ Target["signature_v4"] = "signature"
      BY Targets DEF ItemText
    <2>3. home[g0] = f
      BY <2>2 DEF BelongIn, Enclosing
    <2> QED
      BY <2>1, <2>2, <2>3 DEF CommitSignature, Ownership, PctrlTypeOK, CtrlTypeOK
  <1>1. \A a \in Addr : \A s \in Slots :
          \/ Range(own'[a][s]) \subseteq Range(own[a][s])
          \/ a = f /\ s = "signature" /\ own'[a][s] = <<g0>>
    <2>1. \A s \in Slots : NoFields[s] = <<>>
      BY DEF NoFields
    <2>2. own' = [[a \in Addr |-> IF a \in old THEN NoFields ELSE own[a]]
                    EXCEPT ![f] = [@ EXCEPT !["signature"] = <<g0>>]]
      BY DEF CommitSignature
    <2>3. own \in [Addr -> [Slots -> Seq(Addr)]] /\ NoFields \in [Slots -> Seq(Addr)]
      BY NoFieldsType DEF Ownership, PctrlTypeOK, HeapTypeOK
    <2> HIDE DEF f, g0, old
    <2> QED
      BY <1>0, <2>1, <2>2, <2>3, RangeEmpty
  <1> HIDE DEF f, g0, old
  <1>2. FieldsAtHome'
    <2> SUFFICES ASSUME NEW a \in Addr, NEW s \in Slots, NEW x \in Range(own'[a][s])
                 PROVE  home'[x] = a
      BY DEF FieldsAtHome
    <2>1. CASE x \in Range(own[a][s])
      BY <1>0, <2>1 DEF FieldsAtHome
    <2>2. CASE a = f /\ own'[a][s] = <<g0>>
      BY <1>0, <2>2, RangeOne
    <2> QED
      BY <1>1, <2>1, <2>2
  <1>3. HomeKept
    BY <1>0, HeapKeepsHome
  <1>4. ASSUME NEW g \in ReturnsTo("signature_v4")
        PROVE  BelongIn(g)'
    <2>1. \A j \in Tx \ {"signature"} : temp'[j] = temp[j]
      BY <1>0
    <2>2. "file" \in Tx \ {"signature"} /\ "chunk" \in Tx \ {"signature"}
      BY Names
    <2> QED
      BY <1>0, <1>3, <2>1, <2>2, ReturnsAskLess, BelongStays
  <1> QED
    BY <1>2, <1>4

LEMMA CommitFileBelongs ==
  ASSUME Ownership, FieldsAtHome, NEW h \in InFile, BelongIn(h),
         NEW fail \in CommitFailures, CommitFile(fail)
  PROVE  FieldsAtHome'
  <1> DEFINE f == temp["file"]
             MB == MovedBefore(fail)
  <1>1. /\ \A a \in Addr \ {f} : own'[a] = own[a]
        /\ \A s \in MB : Range(own'[f][s]) = Range(Collected(f, s))
        /\ \A s \in Slots \ MB : own'[f][s] \in {<<>>, own[f][s]}
    BY CommitFileFields
  <1>2. MB \subseteq FileLists /\ home' = home
    BY MovedBeforeType DEF CommitFile
  <1>3. \A s \in FileLists : \A a \in Range(list[s]) : home[a] = f
    BY DEF BelongIn
  <1> HIDE DEF f, MB
  <1> SUFFICES ASSUME NEW a \in Addr, NEW s \in Slots, NEW x \in Range(own'[a][s])
               PROVE  home[x] = a
    BY <1>2 DEF FieldsAtHome
  <1>4. x \in Range(own[a][s]) \/ (a = f /\ s \in FileLists /\ x \in Range(list[s]))
    <2>1. CASE a # f
      BY <1>1, <2>1
    <2>2. CASE a = f /\ s \in MB
      BY <1>1, <1>2, <2>2 DEF Collected
    <2>3. CASE a = f /\ s \notin MB
      BY <1>1, <2>3, RangeEmpty
    <2> QED
      BY <2>1, <2>2, <2>3
  <1> QED
    BY <1>3, <1>4 DEF FieldsAtHome

LEMMA CommitChunkBelongs ==
  ASSUME Ownership, Ownership', FieldsAtHome, NEW h \in InPieces, BelongIn(h), OpenIn(h),
         CommitChunk
  PROVE  /\ FieldsAtHome'
         /\ \A g \in InFile \ (InPieces \cup ItemText) : BelongIn(g)'
  <1> DEFINE c == temp["chunk"]
             f == temp["file"]
  <1>0. /\ c \in Addr /\ f \in Addr /\ c # f
        /\ "piece_hashes" \in Slots /\ "chunk_checksum" \in Slots
        /\ "piece_hashes" \in Lists \ FileLists /\ FileLists \subseteq Lists
        /\ {"file", "chunk"} \subseteq Tx /\ h \in InFile
    <2>1. /\ c \in Addr /\ kind[c] = "chunk" /\ f \in Addr /\ kind[f] = "file"
      BY Names, OpenIsHeld DEF CommitChunk
    <2> QED
      BY <2>1, Names, ItemTargets
  <1>1. /\ home[c] = f
        /\ \A a \in Range(list["piece_hashes"]) : home[a] = c
        /\ \A l \in FileLists : \A a \in Range(list[l]) : home[a] = f
    BY <1>0 DEF BelongIn
  <1>2. own' = [own EXCEPT ![c] = [@ EXCEPT !["piece_hashes"] = Collected(c, "piece_hashes")],
                           ![f] = [@ EXCEPT !["chunk_checksum"] = <<c>>]]
    BY DEF CommitChunk
  <1>3. /\ home' = home
        /\ temp' = [temp EXCEPT !["chunk"] = NULL] /\ temp \in [Tx -> Addr \cup {NULL}]
        /\ list' = [list EXCEPT !["piece_hashes"] = <<>>] /\ list \in [Lists -> Seq(Addr)]
    BY DEF CommitChunk, Ownership, PctrlTypeOK, CtrlTypeOK
  <1>t. own \in [Addr -> [Slots -> Seq(Addr)]]
    BY DEF Ownership, PctrlTypeOK, HeapTypeOK
  <1> HIDE DEF c, f
  <1>4. FieldsAtHome'
    <2> SUFFICES ASSUME NEW a \in Addr, NEW s \in Slots, NEW x \in Range(own'[a][s])
                 PROVE  home[x] = a
      BY <1>3 DEF FieldsAtHome
    <2>1. CASE a = c /\ s = "piece_hashes"
      <3>1. own'[a][s] = Collected(c, "piece_hashes")
        BY <1>0, <1>2, <1>t, <2>1
      <3> QED
        BY <1>1, <2>1, <3>1 DEF Collected, FieldsAtHome
    <2>2. CASE a = f /\ s = "chunk_checksum"
      <3>1. own'[a][s] = <<c>>
        BY <1>0, <1>2, <1>t, <2>2
      <3> QED
        BY <1>1, <2>2, <3>1, RangeOne
    <2>3. CASE ~(a = c /\ s = "piece_hashes") /\ ~(a = f /\ s = "chunk_checksum")
      <3>1. own'[a][s] = own[a][s]
        BY <1>0, <1>2, <1>t, <2>3
      <3> QED
        BY <3>1 DEF FieldsAtHome
    <2> QED
      BY <2>1, <2>2, <2>3
  <1>5. ASSUME NEW g \in InFile \ (InPieces \cup ItemText)
        PROVE  BelongIn(g)'
    <2>1. temp'["file"] = temp["file"] /\ \A l \in FileLists : list'[l] = list[l]
      BY <1>0, <1>3
    <2> QED
      BY <1>1, <1>3, <2>1 DEF BelongIn, f
  <1> QED
    BY <1>4, <1>5

LEMMA EndBelongs ==
  ASSUME Inv, Inv', Assertions, Ownership, Ownership', BelongInv, End
  PROVE  BelongInv'
  <1>1. CASE EndIgnored
    <2>1. Belongs'
      BY <1>1 DEF BelongInv, Belongs, BelongIn, Enclosing, Here, EndIgnored, Stay, stateVars, pctrlVars
    <2> QED
      BY <1>1, <2>1, QuietFields DEF BelongInv, EndIgnored
  <1>2. CASE EndInSkip
    <2>1. before_fun # "skip" /\ UNCHANGED pctrlVars /\ run' = run /\ Here' = Here
      BY <1>2 DEF EndInSkip, ExitSkip, Here, Inv, TypeOK, HandlerTypeOK
    <2>2. Belongs'
      <3>1. PICK h : h = Here
        OBVIOUS
      <3>2. BelongIn(h) => BelongIn(h)'
        BY <2>1 DEF BelongIn, Enclosing, pctrlVars
      <3> QED
        BY <2>1, <3>1, <3>2 DEF BelongInv, Belongs
    <2> QED
      BY <2>1, <2>2, QuietFields DEF BelongInv
  <1>3. CASE EndScalar
    <2>1. /\ fun \in Text /\ fun \in Fun \ {"skip", "null"} /\ run = "parsing"
          /\ UNCHANGED pctrlVars
          /\ Stop("crashed") \/ Return \/ ErrorHandler("bad_alloc")
      BY <1>3, TextStates DEF EndScalar, EndElement
    <2>2. BelongIn(fun) /\ OpenIn(fun)
      BY <2>1, BelongHere
    <2>3. PICK h : h = fun
      OBVIOUS
    <2>4. \A g \in ReturnsTo(h) : BelongIn(g)'
      BY <2>1, <2>2, <2>3, ReturnsAskLess, QuietBelongs
    <2> QED
      BY <2>1, <2>3, <2>4, ReturnBelongs, StopBelongs, ErrorBelongs, QuietFields DEF BelongInv
  <1>4. CASE EndVersion
    <2>1. /\ fun = "version" /\ fun \in Fun \ {"skip", "null"} /\ fun \in InFile
          /\ run = "parsing" /\ UNCHANGED pctrlVars
      BY <1>4, TextStates, Targets DEF EndVersion, EndElement, ScalarOfFile, Text, SharedText
    <2>2. BelongIn("version") /\ OpenIn("version")
      BY <2>1, BelongHere
    <2>3. BelongIn("file_v3")' /\ BelongIn("file_v4")'
      <3>1. {"file_v3", "file_v4"} \cap (InPieces \cup ItemText) = {}
        BY DEF InPieces, ItemText
      <3> QED
        BY <2>1, <2>2, <3>1, QuietBelongs
    <2>4. run' # "parsing" \/ fun' \in {"file_v3", "file_v4", "null"}
      BY <1>4 DEF EndVersion, Stop, SharedReturn, FileText
    <2>5. Belongs'
      BY <2>3, <2>4 DEF Belongs, Here
    <2> QED
      BY <2>1, <2>5, QuietFields DEF BelongInv
  <1>5. CASE EndString
    BY <1>5, EndStringBelongs
  <1>6. CASE EndItem
    <2>1. /\ fun \in ItemText /\ fun \in Text /\ fun \in Fun \ {"skip", "null"}
          /\ run = "parsing"
      BY <1>6, TextStates, Targets DEF EndItem, EndElement
    <2>2. BelongIn(fun) /\ OpenIn(fun)
      BY <2>1, BelongHere
    <2>3. PICK h : h = fun
      OBVIOUS
    <2>4. \/ UNCHANGED pctrlVars /\ (Stop("crashed") \/ ErrorHandler("bad_alloc"))
          \/ h = "signature_v4" /\ CommitSignature /\ Return
          \/ h # "signature_v4" /\ CommitItem(Target[h]) /\ Return
      BY <1>6, <2>3 DEF EndItem, CommitTarget
    <2>5. CASE UNCHANGED pctrlVars /\ (Stop("crashed") \/ ErrorHandler("bad_alloc"))
      BY <2>5, StopBelongs, ErrorBelongs, QuietFields DEF BelongInv
    <2>6. CASE h = "signature_v4" /\ CommitSignature /\ Return
      <3>1. FieldsAtHome' /\ \A g \in ReturnsTo("signature_v4") : BelongIn(g)'
        BY <2>2, <2>3, <2>6, CommitSignatureBelongs DEF BelongInv
      <3> QED
        BY <2>1, <2>3, <2>6, <3>1, ReturnBelongs DEF BelongInv
    <2>7. CASE h # "signature_v4" /\ CommitItem(Target[h]) /\ Return
      <3>1. FieldsAtHome' /\ \A g \in ReturnsTo(h) : BelongIn(g)'
        BY <2>1, <2>2, <2>3, <2>7, CommitItemBelongs DEF BelongInv
      <3> QED
        BY <2>1, <2>3, <2>7, <3>1, ReturnBelongs DEF BelongInv
    <2> QED
      BY <2>4, <2>5, <2>6, <2>7
  <1>7. CASE EndFiles
    <2>1. FieldsAtHome'
      BY <1>7 DEF EndFiles, AccumulateFiles, AccumulateFilesFails, heapVars, BelongInv, FieldsAtHome
    <2>2. {"metalink_v3", "fin"} \subseteq Fun \ (InFile \cup {"skip"})
      BY TextStates, Containers DEF Container, ContainerV3
    <2>3. BelongIn("metalink_v3")' /\ BelongIn("fin")'
      BY <2>2, ItemTargets DEF BelongIn
    <2>4. Belongs'
      BY <1>7, <2>2, <2>3, EnterBelongs, ErrorBelongs DEF EndFiles
    <2> QED
      BY <2>1, <2>4 DEF BelongInv
  <1>8. CASE EndFile
    <2>1. /\ fun \in InFile /\ fun \in Fun \ {"skip", "null"} /\ run = "parsing"
      BY <1>8, TextStates, Containers DEF EndFile, EndElement, Container, ContainerV3, ContainerV4
    <2>2. BelongIn(fun)
      BY <2>1, BelongHere
    <2>3. FieldsAtHome'
      BY <1>8, <2>1, <2>2, CommitFileBelongs, QuietFields DEF EndFile, CommitFailures, BelongInv
    <2>4. {"files_v3", "metalink_v4"} \subseteq Fun \ (InFile \cup {"skip"})
      BY TextStates, Containers DEF Container, ContainerV3, ContainerV4
    <2>5. BelongIn("files_v3")' /\ BelongIn("metalink_v4")'
      BY <2>4, ItemTargets DEF BelongIn
    <2>6. Belongs'
      BY <1>8, <2>4, <2>5, EnterBelongs, ErrorBelongs DEF EndFile
    <2> QED
      BY <2>3, <2>6 DEF BelongInv
  <1>9. CASE EndPieces
    <2>1. fun \in InPieces /\ fun \in Fun \ {"skip", "null"} /\ run = "parsing"
      BY <1>9, TextStates, Containers DEF EndPieces, EndElement, Container, ContainerV3, ContainerV4
    <2>2. BelongIn(fun) /\ OpenIn(fun)
      BY <2>1, BelongHere
    <2>3. /\ {"verification_v3", "file_v4"} \subseteq InFile \ (InPieces \cup ItemText)
          /\ {"verification_v3", "file_v4"} \subseteq Fun \ {"skip"}
      BY TextStates, Containers, ItemTargets DEF Container, ContainerV3, ContainerV4, InPieces
    <2>4. CASE CommitChunk /\ Enter(IF fun = "pieces_v3" THEN "verification_v3" ELSE "file_v4")
      <3>1. FieldsAtHome' /\ BelongIn("verification_v3")' /\ BelongIn("file_v4")'
        BY <2>1, <2>2, <2>3, <2>4, CommitChunkBelongs DEF BelongInv
      <3> QED
        BY <2>3, <2>4, <3>1, EnterBelongs DEF BelongInv
    <2>5. CASE CommitChunkFails /\ ErrorHandler("bad_alloc")
      <3>1. \A a \in Addr : \A s \in Slots : Range(own'[a][s]) \subseteq Range(own[a][s])
        BY <2>5, RangeEmpty DEF CommitChunkFails, Ownership, PctrlTypeOK, HeapTypeOK
      <3>2. home' = home
        BY <2>5 DEF CommitChunkFails
      <3>3. FieldsAtHome'
        BY <3>1, <3>2 DEF BelongInv, FieldsAtHome
      <3> QED
        BY <2>5, <3>3, ErrorBelongs DEF BelongInv
    <2>6. ASSUME UNCHANGED pctrlVars, NEW e, ErrorHandler(e) PROVE BelongInv'
      BY <2>6, ErrorBelongs, QuietFields DEF BelongInv
    <2> QED
      BY <1>9, <2>4, <2>5, <2>6 DEF EndPieces
  <1>10. CASE EndPlain
    <2> DEFINE g == IF fun = "metalink_v3" THEN "fin" ELSE "file_v3"
    <2>1. /\ fun \in Fun \ {"skip", "null"} /\ run = "parsing" /\ UNCHANGED pctrlVars
          /\ Enter(g) /\ g \in Fun \ {"skip"}
          /\ g \in InFile <=> fun \in InFile
          /\ g \notin InPieces \cup ItemText
      BY <1>10, TextStates, Containers, ItemTargets
      DEF EndPlain, EndElement, Container, ContainerV3, InPieces
    <2> HIDE DEF g
    <2>2. BelongIn(fun) /\ OpenIn(fun)
      BY <2>1, BelongHere
    <2>3. PICK h, k : h = fun /\ k = g
      OBVIOUS
    <2>4. BelongIn(k)'
      BY <2>1, <2>2, <2>3, QuietBelongs
    <2> QED
      BY <2>1, <2>3, <2>4, EnterBelongs, QuietFields DEF BelongInv
  <1> QED
    BY <1>1, <1>2, <1>3, <1>4, <1>5, <1>6, <1>7, <1>8, <1>9, <1>10 DEF End

LEMMA FreeFields ==
  ASSUME Ownership, Ownership', FieldsAtHome, NEW F, Free(F)
  PROVE  FieldsAtHome'
  <1>1. HomeKept
    BY HeapKeepsHome
  <1>2. \A f \in Addr : \A s \in Slots : Range(own'[f][s]) \subseteq Range(own[f][s])
    BY RangeEmpty DEF Free, NoFields
  <1> QED
    BY <1>1, <1>2, FieldsStay

LEMMA NextBelongs ==
  ASSUME Inv, Inv', Assertions, Running, Ownership, Ownership', BelongInv, [Next]_vars
  PROVE  BelongInv'
  <1>1. CASE Start \/ End
    BY <1>1, StartBelongs, EndBelongs
  <1>2. ASSUME NEW ok \in BOOLEAN, Finish(ok)
        PROVE  BelongInv'
    BY <1>2, FreeFields DEF Finish, DeleteSession, BelongInv, Belongs
  <1>3. CASE Delete
    BY <1>3, FreeFields DEF Delete, AppDelete, BelongInv, Belongs, Running
  <1>4. CASE UNCHANGED vars
    BY <1>4 DEF vars, stateVars, pctrlVars, BelongInv, Belongs, FieldsAtHome, BelongIn,
       Enclosing, Here
  <1> QED
    BY <1>1, <1>2, <1>3, <1>4 DEF Next, Terminated

LEMMA InitBelongs == ASSUME Init PROVE BelongInv
  <1>1. FieldsAtHome
    BY RangeEmpty DEF Init, PctrlInit, FieldsAtHome, NoFields
  <1>2. Belongs
    BY TextStates, ItemTargets DEF Init, Belongs, BelongIn, Here
  <1> QED
    BY <1>1, <1>2 DEF BelongInv

LEMMA BelongMeans == ASSUME Inv, Ownership, BelongInv PROVE FilesKeepTheirOwn
  <1>1. \A f \in Live : \A a \in Fields(f) : home[a] = f
    BY DEF BelongInv, FieldsAtHome, Fields, Live
  <1>2. Here \in InFile => Here # "null"
    BY TextStates
  <1> QED
    BY <1>1, <1>2 DEF FilesKeepTheirOwn, BelongInv, Belongs, BelongIn

LEMMA BelongHolds == ASSUME Assertions PROVE Spec => []BelongInv
  <1>1. Inv /\ Running /\ Ownership /\ BelongInv /\ [Next]_vars /\ Inv' /\ Ownership' => BelongInv'
    BY NextBelongs
  <1>2. TypeOK /\ Running /\ [Next]_vars => Running'
    BY NextCalls
  <1>3. Init => Running /\ BelongInv
    BY InitRuns, InitBelongs
  <1> QED
    BY <1>1, <1>2, <1>3, TypeCorrect, InvHolds, ParseOwns, PTL DEF Spec

\* In a library built with its assertions, whatever is found inside a file ends
\* up in that file and a piece hash in its own chunk checksum, although the
\* lists and the transactions are shared by all files of a document.
THEOREM NothingStrays == ASSUME Assertions PROVE Spec => []FilesKeepTheirOwn
  <1>1. Inv /\ Ownership /\ BelongInv => FilesKeepTheirOwn
    BY BelongMeans
  <1> QED
    BY <1>1, BelongHolds, InvHolds, ParseOwns, PTL

-----------------------------------------------------------------------------
(***************************************************************************)
(* Nothing is lost.  Three operations of the transaction layer overwrite   *)
(* pointers without a look at them: a committed file takes over the lists, *)
(* a committed chunk checksum the piece hashes and its place in the file,  *)
(* and the hand-over replaces the array of files.  RoomAhead says that     *)
(* these places are empty while a handler that leads there is in charge,   *)
(* ChunkEmpty that the open chunk checksum has no piece hashes yet.  Then  *)
(* no object is ever astray (PctrlProofs), except the copy of a language   *)
(* or os for which the list had no room: Lossless.                         *)
(***************************************************************************)
\* The states in which the files may have been handed over.
Taken == {"metalink_v3", "identity_v3", "tags_v3", "fin"}

EmptyIn(h) ==
  /\ h \in InFile => \A s \in FileLists : own[temp["file"]][s] = <<>>
  /\ h \in InPieces => own[temp["file"]]["chunk_checksum"] = <<>>
  /\ h \notin Taken => files = <<>>

RoomAhead == run = "parsing" /\ Here # "null" => EmptyIn(Here)

ChunkEmpty == temp["chunk"] # NULL => own[temp["chunk"]]["piece_hashes"] = <<>>

Lossless == run = "parsing" => \A x \in Astray : kind[x] = "string" /\ oom = TRUE

\* An error is one of allocation.
ErrorsHaveCause == error # "none" => oom = TRUE

LeakInv == RoomAhead /\ ChunkEmpty /\ Lossless /\ ErrorsHaveCause

\* What a step loses is a string, and an allocation failed.
LosesStrings ==
  \A x \in Astray' : \/ x \in Astray /\ kind'[x] = kind[x]
                     \/ kind'[x] = "string" /\ oom' = TRUE

-----------------------------------------------------------------------------
\* The error and the ghost of failed allocations go together.
LEMMA StartCauses ==
  ASSUME Start
  PROVE  /\ oom = TRUE => oom' = TRUE
         /\ error' = error \/ oom' = TRUE
  <1>1. ASSUME NEW ns \in Ns,
               StartIgnored(ns) \/ StartInSkip(ns) \/ StartMetalink(ns) \/ StartSkipped(ns)
        PROVE  (oom = TRUE => oom' = TRUE) /\ error' = error
    BY <1>1 DEF StartIgnored, StartInSkip, StartMetalink, StartSkipped, Stay, Enter,
       EnterSkip, Succeeds, Fails
  <1>2. ASSUME NEW c \in Plain, StartPlain(c)
        PROVE  (oom = TRUE => oom' = TRUE) /\ error' = error
    BY <1>2 DEF StartPlain, Stop, Enter, Succeeds
  <1>3. CASE StartPublisher
    BY <1>3 DEF StartPublisher, Stop, EnterSkip, Succeeds, Fails
  <1>4. ASSUME NEW c \in Opening, StartTransaction(c)
        PROVE  (oom = TRUE => oom' = TRUE) /\ (error' = error \/ oom' = TRUE)
    <2>1. \/ Enter(c.to) /\ Succeeds
          \/ EnterSkip /\ Succeeds
          \/ Fails
      BY <1>4 DEF StartTransaction
    <2> QED
      BY <2>1 DEF Enter, EnterSkip, Succeeds, Fails
  <1> QED
    BY <1>1, <1>2, <1>3, <1>4 DEF Start

LEMMA ReturnKeepsError == ASSUME Return PROVE error' = error
  BY DEF Return, Enter, Stop, Stay

LEMMA EndCauses ==
  ASSUME End, Inv'
  PROVE  /\ oom = TRUE => oom' = TRUE
         /\ error' = error \/ oom' = TRUE
  <1>0. \A e : ErrorHandler(e) => e = "bad_alloc" \/ e = "none"
    BY DEF ErrorHandler, Inv, Safe, NoInternalError
  <1>1. CASE EndIgnored \/ EndInSkip \/ EndPlain
    BY <1>1 DEF EndIgnored, EndInSkip, EndPlain, Stay, ExitSkip, Enter, Succeeds
  <1>2. CASE EndScalar
    BY <1>2, ReturnKeepsError DEF EndScalar, Stop, Succeeds, Fails
  <1>3. CASE EndVersion
    BY <1>3 DEF EndVersion, Stop, Succeeds, Fails
  <1>4. CASE EndString
    BY <1>4, ReturnKeepsError DEF EndString, Succeeds, Fails
  <1>5. CASE EndItem
    BY <1>5, ReturnKeepsError DEF EndItem, CommitTarget, Stop, Succeeds, Fails
  <1>6. CASE EndFiles
    BY <1>6 DEF EndFiles, Enter, Succeeds, Fails
  <1>7. CASE EndFile
    <2>1. \/ Succeeds /\ \E g : Enter(g)
          \/ Fails
      BY <1>0, <1>7 DEF EndFile
    <2> QED
      BY <2>1 DEF Enter, Succeeds, Fails
  <1>8. CASE EndPieces
    <2>1. \/ Succeeds /\ \E g : Enter(g)
          \/ Fails
      BY <1>0, <1>8 DEF EndPieces
    <2> QED
      BY <2>1 DEF Enter, Succeeds, Fails
  <1> QED
    BY <1>1, <1>2, <1>3, <1>4, <1>5, <1>6, <1>7, <1>8, Zenon DEF End

-----------------------------------------------------------------------------
\* The three facts that carry LeakInv over a step, from those about its call.
LEMMA Retained ==
  ASSUME Retains PROVE LosesStrings
  BY DEF Retains, LosesStrings

LEMMA QuietRetains == ASSUME UNCHANGED pctrlVars PROVE LosesStrings
  BY SameRetains, Retained DEF pctrlVars

\* A step from state h to state g that only empties what h found empty.
LEMMA EmptyStays ==
  ASSUME NEW h, NEW g, EmptyIn(h), files' = files,
         g \in InFile => h \in InFile,
         g \in InPieces => h \in InPieces,
         g \notin Taken => h \notin Taken \/ files = <<>>,
         h \in InFile => /\ temp'["file"] = temp["file"]
                         /\ \A s \in FileLists :
                              own'[temp["file"]][s] \in {<<>>, own[temp["file"]][s]},
         h \in InPieces => own'[temp["file"]]["chunk_checksum"]
                             \in {<<>>, own[temp["file"]]["chunk_checksum"]}
  PROVE  EmptyIn(g)'
  <1>1. h \in InPieces => h \in InFile
    BY Containers
  <1> QED
    BY <1>1 DEF EmptyIn

LEMMA QuietEmpty ==
  ASSUME NEW h, NEW g, EmptyIn(h), UNCHANGED pctrlVars,
         g \in InFile => h \in InFile,
         g \in InPieces => h \in InPieces,
         g \notin Taken => h \notin Taken \/ files = <<>>
  PROVE  EmptyIn(g)'
  BY EmptyStays DEF pctrlVars

LEMMA QuietChunk == ASSUME ChunkEmpty, UNCHANGED pctrlVars PROVE ChunkEmpty'
  BY DEF ChunkEmpty, pctrlVars

\* Piece hashes only get into a chunk checksum when it is committed.
LEMMA ChunkStays ==
  ASSUME Ownership, ChunkEmpty, temp'["chunk"] \in {temp["chunk"], NULL},
         \A a \in Addr : own'[a]["piece_hashes"] \in {<<>>, own[a]["piece_hashes"]}
  PROVE  ChunkEmpty'
  <1>1. temp["chunk"] # NULL => temp["chunk"] \in Addr
    BY Names DEF Ownership, PctrlTypeOK, CtrlTypeOK
  <1> QED
    BY <1>1 DEF ChunkEmpty

LEMMA EnterEmpty ==
  ASSUME NEW g \in Fun \ {"skip"}, Enter(g), EmptyIn(g)'
  PROVE  RoomAhead'
  BY DEF RoomAhead, Here, Enter

LEMMA EnterSkipEmpty ==
  ASSUME NEW h, h = fun, EnterSkip, EmptyIn(h)'
  PROVE  RoomAhead'
  BY DEF RoomAhead, Here, EnterSkip

LEMMA ErrorEmpty == ASSUME NEW e, ErrorHandler(e) PROVE RoomAhead'
  BY DEF RoomAhead, Here, ErrorHandler

LEMMA StopEmpty == ASSUME NEW how \in {"aborted", "crashed"}, Stop(how) PROVE RoomAhead'
  BY DEF RoomAhead, Stop

LEMMA EmptyHere ==
  ASSUME Inv, RoomAhead, run = "parsing", fun \in Fun \ {"skip", "null"}
  PROVE  EmptyIn(fun) /\ OpenIn(fun)
  BY OpenHere DEF Inv, Safe, RoomAhead, Here

\* The states that text returns to: version 3's identity and tags are the only
\* text that stands where the files may be gone.
LEMMA ReturnEmpty ==
  ASSUME Inv, Assertions, fun \in Text, Return,
         NEW h, h = fun, EmptyIn(h), files' = files,
         h \in InFile => /\ temp'["file"] = temp["file"]
                         /\ \A s \in FileLists :
                              own'[temp["file"]][s] \in {<<>>, own[temp["file"]][s]},
         h \in InPieces => own'[temp["file"]]["chunk_checksum"]
                             \in {<<>>, own[temp["file"]]["chunk_checksum"]}
  PROVE  RoomAhead'
  <1>1. HandlerTypeOK /\ ns_uri \in Ns
    BY DEF Inv, TypeOK, DocumentTypeOK
  <1>2. \/ \E g \in ReturnsTo(h) : Enter(g) /\ (h \in Taken => g \in Taken)
        \/ Stop("aborted")
    <2>1. CASE h \in Taken
      <3>1. h \in {"identity_v3", "tags_v3"}
        BY <2>1 DEF Taken, Text, SharedText, OwnText
      <3>2. Enter("metalink_v3") /\ "metalink_v3" \in ReturnsTo(h)
        BY <3>1 DEF Return, OwnReturn, OwnText, ReturnsTo, Container, ContainerV3, InFile, InPieces
      <3> QED
        BY <3>2 DEF Taken
    <2>2. CASE h \notin Taken
      BY <1>1, <2>2, Returns
    <2> QED
      BY <2>1, <2>2
  <1>3. ASSUME NEW g \in ReturnsTo(h), Enter(g), h \in Taken => g \in Taken
        PROVE  RoomAhead'
    <2>1. g \in Fun \ {"skip"}
      BY TextStates DEF ReturnsTo
    <2>2. EmptyIn(g)'
      BY <1>3, ReturnsAskLess, EmptyStays
    <2> QED
      BY <1>3, <2>1, <2>2, EnterEmpty
  <1> QED
    BY <1>2, <1>3, StopEmpty

-----------------------------------------------------------------------------
LEMMA NewTransactionLoses ==
  ASSUME Ownership, ChunkEmpty, NEW k \in Tx, NEW h, OpenIn(h), k = "file" => h \notin InFile,
         NewTransactionFails(k) \/ \E p \in Prio : NewTransaction(k, p)
  PROVE  /\ LosesStrings
         /\ ChunkEmpty'
         /\ files' = files
         /\ \A a \in Addr : own'[a] \in {NoFields, own[a]}
  <1>1. \A l \in Cleared(k) \cap StringLists : list[l] = <<>>
    <2>1. CASE k = "file"
      BY <2>1 DEF OpenIn, Cleared
    <2>2. CASE k # "file"
      <3>1. "piece_hashes" \notin StringLists
        BY Names
      <3> QED
        BY <2>2, <3>1 DEF Cleared
    <2> QED
      BY <2>1, <2>2
  <1>2. LosesStrings
    BY <1>1, NewTransactionRetains, NewTransactionFailsRetains, Retained
  <1>3. files' = files /\ \A a \in Addr : own'[a] \in {NoFields, own[a]}
    BY DEF NewTransaction, NewTransactionFails, FreeAndAlloc, Free
  <1>4. ChunkEmpty'
    <2>1. \A s \in Slots : NoFields[s] = <<>>
      BY DEF NoFields
    <2>2. "piece_hashes" \in Slots /\ "chunk" \in Tx /\ temp \in [Tx -> Addr \cup {NULL}]
      BY Names DEF Ownership, PctrlTypeOK, CtrlTypeOK
    <2>3. CASE k = "chunk" /\ \E p \in Prio : NewTransaction(k, p)
      <3>1. Fresh \in Addr /\ own[Fresh] = NoFields
        BY <2>3, FreshType DEF NewTransaction, FreeAndAlloc, Ownership, Shape
      <3>2. temp'["chunk"] = Fresh
        BY <2>2, <2>3 DEF NewTransaction
      <3> QED
        BY <1>3, <2>1, <2>2, <3>1, <3>2 DEF ChunkEmpty
    <2>4. CASE k # "chunk" \/ NewTransactionFails(k)
      <3>1. temp'["chunk"] \in {temp["chunk"], NULL}
        BY <2>2, <2>4 DEF NewTransaction, NewTransactionFails
      <3> QED
        BY <1>3, <2>1, <2>2, <3>1, ChunkStays
    <2> QED
      BY <2>3, <2>4
  <1> QED
    BY <1>2, <1>3, <1>4

\* A transaction that succeeds, and the state g it leads to.  The file into which
\* a chunk checksum is put has none yet.
LEMMA NewTransactionEmpty ==
  ASSUME Ownership, NEW k \in Tx, NEW p \in Prio, NewTransaction(k, p),
         NEW h \in Container, NEW g, OpenIn(h), EmptyIn(h), h \notin Taken,
         h \in InFile <=> k # "file",
         g \in InPieces => h \in InPieces \/ k = "chunk",
         k = "chunk" => own[temp["file"]]["chunk_checksum"] = <<>>
  PROVE  EmptyIn(g)'
  <1>0. /\ FileLists \subseteq Slots /\ "chunk_checksum" \in Slots /\ "file" \in Tx
        /\ \A s \in Slots : NoFields[s] = <<>>
    BY Names DEF NoFields
  <1>1. /\ files' = files /\ files = <<>>
        /\ \A a \in Addr : own'[a] \in {NoFields, own[a]}
        /\ temp' = [temp EXCEPT ![k] = Fresh]
        /\ temp \in [Tx -> Addr \cup {NULL}]
        /\ Fresh \in Addr /\ own[Fresh] = NoFields
    BY FreshType
    DEF EmptyIn, NewTransaction, FreeAndAlloc, Ownership, PctrlTypeOK, CtrlTypeOK, Shape
  <1>2. CASE k = "file"
    <2>1. temp'["file"] = Fresh
      BY <1>0, <1>1, <1>2
    <2>2. \A s \in Slots : own'[Fresh][s] = <<>>
      BY <1>0, <1>1
    <2> QED
      BY <1>0, <1>1, <2>1, <2>2 DEF EmptyIn
  <1>3. CASE k # "file"
    <2>1. temp'["file"] = temp["file"] /\ temp["file"] \in Addr
      BY <1>0, <1>1, <1>3 DEF OpenIn
    <2>2. \A s \in FileLists : own[temp["file"]][s] = <<>>
      BY <1>3 DEF EmptyIn
    <2>3. \A s \in FileLists : own'[temp["file"]][s] = <<>>
      BY <1>0, <1>1, <2>1, <2>2
    <2>4. g \in InPieces => own[temp["file"]]["chunk_checksum"] = <<>>
      BY DEF EmptyIn
    <2>5. g \in InPieces => own'[temp["file"]]["chunk_checksum"] = <<>>
      BY <1>0, <1>1, <2>1, <2>4
    <2> QED
      BY <1>1, <2>1, <2>3, <2>5 DEF EmptyIn
  <1> QED
    BY <1>2, <1>3

LEMMA StartLeaks ==
  ASSUME Inv, Ownership, ~Repeats, RoomAhead, ChunkEmpty, Start
  PROVE  RoomAhead' /\ ChunkEmpty' /\ LosesStrings
  <1>1. ASSUME NEW ns \in Ns, StartIgnored(ns) \/ StartInSkip(ns)
        PROVE  RoomAhead' /\ UNCHANGED pctrlVars
    BY <1>1 DEF RoomAhead, EmptyIn, Here, StartIgnored, StartInSkip, Stay,
       stateVars, pctrlVars
  <1>2. ASSUME NEW ns \in Ns, StartMetalink(ns)
        PROVE  RoomAhead' /\ UNCHANGED pctrlVars
    <2> DEFINE g == IF ns = "v3" THEN "metalink_v3" ELSE "metalink_v4"
    <2>1. g \in Fun \ {"skip"} /\ g \notin InFile /\ g \notin InPieces
      BY TextStates, Containers DEF Container, ContainerV3, ContainerV4
    <2>2. Enter(g) /\ UNCHANGED pctrlVars /\ run = "parsing" /\ fun = "initial"
      BY <1>2 DEF StartMetalink, StartElement
    <2> HIDE DEF g
    <2>3. EmptyIn("initial") /\ "initial" \notin Taken
      BY <2>2, EmptyHere, TextStates DEF Taken
    <2>4. EmptyIn(g)'
      BY <2>1, <2>2, <2>3, QuietEmpty
    <2> QED
      BY <2>1, <2>2, <2>4, EnterEmpty
  <1>3. ASSUME NEW ns \in Ns, StartSkipped(ns)
        PROVE  RoomAhead' /\ UNCHANGED pctrlVars
    <2>1. EnterSkip /\ UNCHANGED pctrlVars /\ run = "parsing" /\ fun \in Fun \ {"skip", "null"}
      BY <1>3, TextStates DEF StartSkipped, StartElement
    <2>2. PICK h : h = fun
      OBVIOUS
    <2>3. EmptyIn(h)'
      BY <2>1, <2>2, EmptyHere, QuietEmpty
    <2> QED
      BY <2>1, <2>2, <2>3, EnterSkipEmpty
  <1>4. ASSUME NEW c \in Plain, StartPlain(c)
        PROVE  RoomAhead' /\ UNCHANGED pctrlVars
    <2>1. /\ UNCHANGED pctrlVars /\ run = "parsing" /\ fun = c[1]
          /\ fun \in Fun \ {"skip", "null"}
          /\ Stop("crashed") \/ Enter(c[3])
          /\ c[2] = "files" => files = <<>>
      BY <1>4, PlainTable, TextStates DEF StartPlain, StartElement
    <2>2. EmptyIn(c[1])
      BY <2>1, EmptyHere
    <2>3. c[2] = "files" \/ c[1] \notin Taken \/ c[3] \in Taken
      BY DEF Plain, Taken
    <2>4. EmptyIn(c[3])'
      BY <2>1, <2>2, <2>3, PlainTable, QuietEmpty
    <2> QED
      BY <2>1, <2>4, PlainTable, EnterEmpty, StopEmpty
  <1>5. ASSUME StartPublisher
        PROVE  RoomAhead' /\ UNCHANGED pctrlVars
    <2>1. /\ UNCHANGED pctrlVars /\ run = "parsing" /\ fun = "file_v4"
          /\ fun \in Fun \ {"skip", "null"}
          /\ Stop("crashed") \/ EnterSkip \/ ErrorHandler("bad_alloc")
      BY <1>5, TextStates DEF StartPublisher, StartElement, Container, ContainerV4
    <2>2. EmptyIn("file_v4")
      BY <2>1, EmptyHere
    <2>3. EmptyIn("file_v4")'
      BY <2>1, <2>2, QuietEmpty
    <2> QED
      BY <2>1, <2>3, EnterSkipEmpty, ErrorEmpty, StopEmpty
  <1>6. ASSUME NEW c \in Opening, StartTransaction(c)
        PROVE  RoomAhead' /\ ChunkEmpty' /\ LosesStrings
    <2>1. /\ run = "parsing" /\ fun = c.in /\ c.tx \in Tx /\ c.in \in Container
          /\ fun \in Fun \ {"skip", "null"} /\ c.in \notin Taken
          /\ c.tx = "chunk" => own[temp["file"]]["chunk_checksum"] = <<>>
      BY <1>6, OpeningTable, TextStates DEF StartTransaction, StartElement, Opening, Taken
    <2>2. EmptyIn(c.in) /\ OpenIn(c.in)
      BY <2>1, EmptyHere
    <2>3. NewTransactionFails(c.tx) \/ \E p \in Prio : NewTransaction(c.tx, p)
      BY <1>6, PrioritiesType, UnrankedType DEF StartTransaction
    <2>4. ChunkEmpty' /\ LosesStrings
      BY <2>1, <2>2, <2>3, OpeningTable, NewTransactionLoses
    <2>5. ASSUME NEW p \in Prio, NewTransaction(c.tx, p), Enter(c.to)
          PROVE  RoomAhead'
      <3>1. EmptyIn(c.to)'
        BY <2>1, <2>2, <2>5, OpeningTable, NewTransactionEmpty
      <3> QED
        BY <2>5, <3>1, OpeningTable, EnterEmpty
    <2>6. ASSUME NEW p \in Prio, NewTransaction(c.tx, p), EnterSkip
          PROVE  RoomAhead'
      <3>1. EmptyIn(c.in)'
        BY <2>1, <2>2, <2>6, OpeningTable, NewTransactionEmpty
      <3> QED
        BY <2>1, <2>6, <3>1, EnterSkipEmpty
    <2>7. RoomAhead'
      BY <1>6, <2>5, <2>6, ErrorEmpty, PrioritiesType, UnrankedType DEF StartTransaction
    <2> QED
      BY <2>4, <2>7
  <1>7. CASE RoomAhead' /\ UNCHANGED pctrlVars
    BY <1>7, QuietChunk, QuietRetains
  <1> QED
    BY <1>1, <1>2, <1>3, <1>4, <1>5, <1>6, <1>7 DEF Start

-----------------------------------------------------------------------------
LEMMA EndStringLeaks ==
  ASSUME Inv, Assertions, Ownership, RoomAhead, ChunkEmpty, EndString
  PROVE  RoomAhead' /\ ChunkEmpty' /\ LosesStrings
  <1>0. PICK h : h = fun
    OBVIOUS
  <1>1. /\ run = "parsing" /\ h \in Text /\ h \in Fun \ {"skip", "null"}
        /\ StringListOf[h] \in StringLists
    BY <1>0, TextStates
    DEF EndString, EndElement, StringListOf, StringLists, Text, SharedText
  <1>2. EmptyIn(h)
    BY <1>0, <1>1, EmptyHere
  <1>3. CASE UNCHANGED pctrlVars /\ ErrorHandler("bad_alloc")
    BY <1>3, QuietChunk, QuietRetains, ErrorEmpty
  <1>4. ASSUME AddString(StringListOf[h]) \/ AddStringAppendFails
        PROVE  ChunkEmpty' /\ temp' = temp /\ files' = files /\ \A a \in Addr : own'[a] = own[a]
    <2>1. temp' = temp /\ files' = files /\ \A a \in Addr : own'[a] = own[a]
      BY <1>4 DEF AddString, AddStringAppendFails, FreeAndAlloc
    <2> QED
      BY <2>1, ChunkStays
  <1>5. CASE AddString(StringListOf[h]) /\ Return
    <2>1. LosesStrings
      BY <1>1, <1>5, StringRetains, Retained
    <2>2. h \in InFile => temp["file"] \in Addr
      BY <1>0, <1>1, EmptyHere, Names DEF OpenIn, Ownership, PctrlTypeOK, CtrlTypeOK
    <2>3. RoomAhead'
      BY <1>0, <1>1, <1>2, <1>4, <1>5, <2>2, Containers, ReturnEmpty
    <2> QED
      BY <1>4, <1>5, <2>1, <2>3
  <1>6. CASE AddStringAppendFails /\ ErrorHandler("bad_alloc") /\ Fails
    <2>1. LosesStrings
      BY <1>1, <1>6, StringRetains DEF LosesStrings, Fails
    <2> QED
      BY <1>4, <1>6, <2>1, ErrorEmpty
  <1> QED
    BY <1>0, <1>3, <1>5, <1>6 DEF EndString

LEMMA CommitTargetLeaks ==
  ASSUME Inv, Assertions, Ownership, RoomAhead, ChunkEmpty, EndItem
  PROVE  RoomAhead' /\ ChunkEmpty' /\ LosesStrings
  <1>0. PICK h : h = fun
    OBVIOUS
  <1>1. /\ h \in ItemText /\ h \in Text /\ h \in InFile /\ run = "parsing"
        /\ h \in Fun \ {"skip", "null"}
    BY <1>0, TextStates, Targets, ItemTargets DEF EndItem, EndElement
  <1>2. EmptyIn(h) /\ OpenIn(h)
    BY <1>0, <1>1, EmptyHere
  <1>3. \/ UNCHANGED pctrlVars /\ (Stop("crashed") \/ ErrorHandler("bad_alloc"))
        \/ h = "signature_v4" /\ CommitSignature /\ Return
        \/ h # "signature_v4" /\ CommitItem(Target[h]) /\ Return
    BY <1>0 DEF EndItem, CommitTarget
  <1>4. CASE UNCHANGED pctrlVars /\ (Stop("crashed") \/ ErrorHandler("bad_alloc"))
    BY <1>4, QuietChunk, QuietRetains, ErrorEmpty, StopEmpty
  <1>n. /\ temp["file"] \in Addr /\ FileLists \subseteq Slots \ {"signature"}
        /\ {"chunk_checksum", "piece_hashes"} \subseteq Slots \ {"signature"}
        /\ {"file", "chunk"} \subseteq Tx
        /\ temp \in [Tx -> Addr \cup {NULL}]
    BY <1>1, <1>2, Names DEF OpenIn, Ownership, PctrlTypeOK, CtrlTypeOK
  <1>5. CASE h = "signature_v4" /\ CommitSignature /\ Return
    <2>1. LosesStrings
      BY <1>5, CommitSignatureRetains, Retained
    <2>2. /\ files' = files
          /\ temp' = [temp EXCEPT !["signature"] = NULL]
          /\ \A a \in Addr : \A s \in Slots \ {"signature"} : own'[a][s] \in {<<>>, own[a][s]}
      <3>1. PICK f, g, F : /\ f = temp["file"] /\ g = temp["signature"]
                           /\ F = Trees(Range(own[f]["signature"]))
        OBVIOUS
      <3>2. own' = [[a \in Addr |-> IF a \in F THEN NoFields ELSE own[a]]
                      EXCEPT ![f] = [@ EXCEPT !["signature"] = <<g>>]]
        BY <1>5, <3>1 DEF CommitSignature
      <3>3. own \in [Addr -> [Slots -> Seq(Addr)]] /\ NoFields \in [Slots -> Seq(Addr)]
        BY NoFieldsType DEF Ownership, PctrlTypeOK, HeapTypeOK
      <3>4. \A s \in Slots : NoFields[s] = <<>>
        BY DEF NoFields
      <3>5. \A a \in Addr : \A s \in Slots \ {"signature"} : own'[a][s] \in {<<>>, own[a][s]}
        BY <1>n, <3>1, <3>2, <3>3, <3>4
      <3> QED
        BY <1>5, <3>5 DEF CommitSignature
    <2>3. temp'["file"] = temp["file"] /\ temp'["chunk"] = temp["chunk"]
      BY <1>n, <2>2
    <2>4. ChunkEmpty'
      BY <1>n, <2>2, <2>3, ChunkStays
    <2>5. RoomAhead'
      BY <1>0, <1>1, <1>2, <1>5, <1>n, <2>2, <2>3, ReturnEmpty
    <2> QED
      BY <2>1, <2>4, <2>5
  <1>6. CASE h # "signature_v4" /\ CommitItem(Target[h]) /\ Return
    <2>1. Target[h] \in Items
      BY <1>1, <1>6, Targets DEF ItemText, Items, ListOf
    <2>2. LosesStrings
      BY <1>6, <2>1, CommitItemRetains, Retained
    <2>3. /\ files' = files /\ own' = own
          /\ temp'["file"] = temp["file"] /\ temp'["chunk"] = temp["chunk"]
      BY <1>1, <1>6, <1>n, ItemTargets DEF CommitItem, heapVars
    <2>4. ChunkEmpty'
      BY <2>3, ChunkStays
    <2>5. RoomAhead'
      BY <1>0, <1>1, <1>2, <1>6, <2>3, ReturnEmpty
    <2> QED
      BY <2>2, <2>4, <2>5
  <1> QED
    BY <1>3, <1>4, <1>5, <1>6

LEMMA EndFileLeaks ==
  ASSUME Inv, Ownership, RoomAhead, ChunkEmpty, EndFile
  PROVE  RoomAhead' /\ ChunkEmpty' /\ LosesStrings
  <1>0. PICK h : h = fun
    OBVIOUS
  <1>1. /\ h \in {"file_v3", "file_v4"} /\ h \in Fun \ {"skip", "null"} /\ run = "parsing"
        /\ h \in InFile /\ h \notin Taken
    BY <1>0, TextStates, Containers
    DEF EndFile, EndElement, Container, ContainerV3, ContainerV4, Taken
  <1>2. EmptyIn(h) /\ OpenIn(h)
    BY <1>0, <1>1, EmptyHere
  <1>3. \/ UNCHANGED pctrlVars /\ \E e : ErrorHandler(e)
        \/ \E fail \in CommitFailures : CommitFile(fail) /\ ErrorHandler("bad_alloc")
        \/ CommitFile("none") /\ \E g \in {"files_v3", "metalink_v4"} : Enter(g)
    BY DEF EndFile
  <1>4. CASE UNCHANGED pctrlVars /\ \E e : ErrorHandler(e)
    BY <1>4, QuietChunk, QuietRetains, ErrorEmpty
  <1>5. ASSUME NEW fail \in CommitFailures, CommitFile(fail)
        PROVE  ChunkEmpty' /\ LosesStrings /\ files' = files
    <2>1. \A s \in FileLists : own[temp["file"]][s] = <<>>
      BY <1>1, <1>2 DEF EmptyIn
    <2>2. LosesStrings
      BY <1>5, <2>1, CommitFileRetains, Retained
    <2>3. /\ \A a \in Addr : own'[a]["piece_hashes"] = own[a]["piece_hashes"]
          /\ temp'["chunk"] = temp["chunk"] /\ files' = files
      <3>1. "piece_hashes" \in Slots \ FileLists /\ {"file", "chunk"} \subseteq Tx
        BY Names
      <3>2. \A a \in Addr : own'[a]["piece_hashes"] = own[a]["piece_hashes"]
        BY <1>5, <3>1, CommitFileFields
      <3>3. temp \in [Tx -> Addr \cup {NULL}]
        BY DEF Ownership, PctrlTypeOK, CtrlTypeOK
      <3> QED
        BY <1>5, <3>1, <3>2, <3>3 DEF CommitFile
    <2>4. ChunkEmpty'
      BY <2>3, ChunkStays
    <2> QED
      BY <2>2, <2>3, <2>4
  <1>6. CASE CommitFile("none") /\ \E g \in {"files_v3", "metalink_v4"} : Enter(g)
    <2>1. PICK g \in {"files_v3", "metalink_v4"} : Enter(g)
      BY <1>6
    <2>2. g \in Fun \ {"skip"} /\ g \notin InFile /\ g \notin InPieces
      BY <2>1, TextStates, Containers DEF Container, ContainerV3, ContainerV4
    <2>3. files = <<>> /\ "none" \in CommitFailures
      BY <1>1, <1>2 DEF EmptyIn, CommitFailures
    <2>4. ChunkEmpty' /\ LosesStrings /\ files' = <<>>
      BY <1>5, <1>6, <2>3
    <2>5. EmptyIn(g)'
      BY <2>2, <2>4 DEF EmptyIn
    <2> QED
      BY <2>1, <2>2, <2>4, <2>5, EnterEmpty
  <1> QED
    BY <1>3, <1>4, <1>5, <1>6, ErrorEmpty

LEMMA EndPiecesLeaks ==
  ASSUME Inv, Ownership, RoomAhead, ChunkEmpty, EndPieces
  PROVE  RoomAhead' /\ ChunkEmpty' /\ LosesStrings
  <1>0. PICK h : h = fun
    OBVIOUS
  <1>1. /\ h \in InPieces /\ h \in InFile /\ h \in Fun \ {"skip", "null"} /\ run = "parsing"
        /\ h \notin Taken
    BY <1>0, TextStates, Containers
    DEF EndPieces, EndElement, Container, ContainerV3, ContainerV4, Taken
  <1>2. EmptyIn(h) /\ OpenIn(h)
    BY <1>0, <1>1, EmptyHere
  <1>3. \/ UNCHANGED pctrlVars /\ \E e : ErrorHandler(e)
        \/ CommitChunkFails /\ ErrorHandler("bad_alloc")
        \/ CommitChunk /\ \E g \in {"verification_v3", "file_v4"} : Enter(g)
    BY DEF EndPieces
  <1>4. /\ temp["chunk"] # NULL
        /\ own[temp["chunk"]]["piece_hashes"] = <<>>
        /\ own[temp["file"]]["chunk_checksum"] = <<>>
        /\ \A s \in FileLists : own[temp["file"]][s] = <<>>
        /\ files = <<>>
    BY <1>1, <1>2 DEF OpenIn, EmptyIn, ChunkEmpty
  <1>5. CASE UNCHANGED pctrlVars /\ \E e : ErrorHandler(e)
    BY <1>5, QuietChunk, QuietRetains, ErrorEmpty
  <1>6. CASE CommitChunkFails /\ ErrorHandler("bad_alloc")
    <2>1. LosesStrings
      BY <1>4, <1>6, CommitChunkFailsRetains, Retained
    <2>2. \A a \in Addr : own'[a]["piece_hashes"] \in {<<>>, own[a]["piece_hashes"]}
      <3>1. own \in [Addr -> [Slots -> Seq(Addr)]] /\ "piece_hashes" \in Slots
        BY Names DEF Ownership, PctrlTypeOK, HeapTypeOK
      <3> QED
        BY <1>6, <3>1 DEF CommitChunkFails
    <2>3. ChunkEmpty'
      BY <1>6, <2>2, ChunkStays DEF CommitChunkFails
    <2> QED
      BY <1>6, <2>1, <2>3, ErrorEmpty
  <1>7. CASE CommitChunk /\ \E g \in {"verification_v3", "file_v4"} : Enter(g)
    <2>1. PICK g \in {"verification_v3", "file_v4"} : Enter(g)
      BY <1>7
    <2>2. g \in Fun \ {"skip"} /\ g \notin InPieces
      BY <2>1, TextStates, Containers DEF Container, ContainerV3, ContainerV4, InPieces
    <2>3. LosesStrings
      BY <1>4, <1>7, CommitChunkRetains, Retained
    <2>4. temp'["chunk"] = NULL /\ temp'["file"] = temp["file"] /\ files' = files
      BY <1>7, Names DEF CommitChunk, Ownership, PctrlTypeOK, CtrlTypeOK
    <2>5. ChunkEmpty'
      BY <2>4 DEF ChunkEmpty
    <2>6. \A s \in FileLists : own'[temp["file"]][s] = <<>>
      <3>1. PICK c, f : c = temp["chunk"] /\ f = temp["file"]
        OBVIOUS
      <3>2. c \in Addr /\ f \in Addr /\ c # f
        BY <1>7, <3>1, Names, OpenIsHeld DEF CommitChunk
      <3>3. own' = [own EXCEPT ![c] = [@ EXCEPT !["piece_hashes"] = Collected(c, "piece_hashes")],
                               ![f] = [@ EXCEPT !["chunk_checksum"] = <<c>>]]
        BY <1>7, <3>1 DEF CommitChunk
      <3>4. own \in [Addr -> [Slots -> Seq(Addr)]]
        BY DEF Ownership, PctrlTypeOK, HeapTypeOK
      <3>5. FileLists \subseteq Slots \ {"chunk_checksum"}
        BY Names
      <3> QED
        BY <1>4, <3>1, <3>2, <3>3, <3>4, <3>5
    <2>7. EmptyIn(g)'
      BY <1>4, <2>2, <2>4, <2>6 DEF EmptyIn
    <2> QED
      BY <2>1, <2>2, <2>3, <2>5, <2>7, EnterEmpty
  <1> QED
    BY <1>3, <1>5, <1>6, <1>7

LEMMA EndLeaks ==
  ASSUME Inv, Assertions, Ownership, RoomAhead, ChunkEmpty, End
  PROVE  RoomAhead' /\ ChunkEmpty' /\ LosesStrings
  <1>1. ASSUME EndIgnored PROVE RoomAhead' /\ UNCHANGED pctrlVars
    BY <1>1 DEF RoomAhead, EmptyIn, Here, EndIgnored, Stay, stateVars, pctrlVars
  <1>2. ASSUME EndInSkip PROVE RoomAhead' /\ UNCHANGED pctrlVars
    <2>1. before_fun # "skip" /\ UNCHANGED pctrlVars /\ run' = run /\ Here' = Here
      BY <1>2 DEF EndInSkip, ExitSkip, Here, Inv, TypeOK, HandlerTypeOK
    <2>2. PICK h : h = Here
      OBVIOUS
    <2>3. EmptyIn(h) => EmptyIn(h)'
      BY <2>1 DEF EmptyIn, pctrlVars
    <2> QED
      BY <2>1, <2>2, <2>3 DEF RoomAhead
  <1>3. ASSUME EndScalar PROVE RoomAhead' /\ UNCHANGED pctrlVars
    <2>1. /\ fun \in Text /\ fun \in Fun \ {"skip", "null"} /\ run = "parsing"
          /\ UNCHANGED pctrlVars
          /\ Stop("crashed") \/ Return \/ ErrorHandler("bad_alloc")
      BY <1>3, TextStates DEF EndScalar, EndElement
    <2>2. PICK h : h = fun
      OBVIOUS
    <2>3. EmptyIn(h)
      BY <2>1, <2>2, EmptyHere
    <2>4. Return => RoomAhead'
      BY <2>1, <2>2, <2>3, ReturnEmpty DEF pctrlVars
    <2> QED
      BY <2>1, <2>4, StopEmpty, ErrorEmpty
  <1>4. ASSUME EndVersion PROVE RoomAhead' /\ UNCHANGED pctrlVars
    <2>1. /\ fun = "version" /\ fun \in Fun \ {"skip", "null"} /\ fun \in InFile
          /\ run = "parsing" /\ UNCHANGED pctrlVars
      BY <1>4, TextStates, Targets DEF EndVersion, EndElement, ScalarOfFile, Text, SharedText
    <2>2. EmptyIn("version") /\ "version" \notin Taken
      BY <2>1, EmptyHere DEF Taken
    <2>3. EmptyIn("file_v3")' /\ EmptyIn("file_v4")'
      <3>1. {"file_v3", "file_v4"} \cap InPieces = {}
        BY DEF InPieces
      <3> QED
        BY <2>1, <2>2, <3>1, QuietEmpty
    <2>4. run' # "parsing" \/ fun' \in {"file_v3", "file_v4", "null"}
      BY <1>4 DEF EndVersion, Stop, SharedReturn, FileText
    <2> QED
      BY <2>1, <2>3, <2>4 DEF RoomAhead, Here
  <1>5. CASE EndFiles
    <2>1. /\ fun \in Fun \ {"skip", "null"} /\ run = "parsing" /\ fun \notin Taken
      BY <1>5, TextStates
      DEF EndFiles, EndElement, Container, ContainerV3, ContainerV4, Taken
    <2>2. files = <<>>
      BY <2>1, EmptyHere DEF EmptyIn
    <2>3. LosesStrings
      BY <1>5, <2>2, AccumulateFilesRetains, Retained DEF EndFiles
    <2>4. ChunkEmpty'
      BY <1>5 DEF EndFiles, AccumulateFiles, AccumulateFilesFails, heapVars, ChunkEmpty
    <2>5. /\ {"metalink_v3", "fin"} \subseteq Fun \ (InFile \cup {"skip"})
          /\ {"metalink_v3", "fin"} \subseteq Taken
      BY TextStates, Containers DEF Container, ContainerV3, Taken
    <2>6. EmptyIn("metalink_v3")' /\ EmptyIn("fin")'
      BY <2>5, Containers DEF EmptyIn
    <2>7. RoomAhead'
      BY <1>5, <2>5, <2>6, EnterEmpty, ErrorEmpty DEF EndFiles
    <2> QED
      BY <2>3, <2>4, <2>7
  <1>6. ASSUME EndPlain PROVE RoomAhead' /\ UNCHANGED pctrlVars
    <2> DEFINE g == IF fun = "metalink_v3" THEN "fin" ELSE "file_v3"
    <2>1. /\ fun \in Fun \ {"skip", "null"} /\ run = "parsing" /\ UNCHANGED pctrlVars
          /\ Enter(g) /\ g \in Fun \ {"skip"}
          /\ g \in InFile <=> fun \in InFile
          /\ g \notin InPieces
          /\ fun \in Taken => g \in Taken
      BY <1>6, TextStates, Containers
      DEF EndPlain, EndElement, Container, ContainerV3, InPieces, Taken
    <2> HIDE DEF g
    <2>2. PICK h, k : h = fun /\ k = g
      OBVIOUS
    <2>3. EmptyIn(h)
      BY <2>1, <2>2, EmptyHere
    <2>4. EmptyIn(k)'
      BY <2>1, <2>2, <2>3, QuietEmpty
    <2> QED
      BY <2>1, <2>2, <2>4, EnterEmpty
  <1>7. CASE RoomAhead' /\ UNCHANGED pctrlVars
    BY <1>7, QuietChunk, QuietRetains
  <1> QED
    BY <1>1, <1>2, <1>3, <1>4, <1>5, <1>6, <1>7, EndStringLeaks, CommitTargetLeaks,
       EndFileLeaks, EndPiecesLeaks DEF End

-----------------------------------------------------------------------------
LEMMA NextLeaks ==
  ASSUME Inv, Inv', Assertions, ~Repeats, Running, Ownership, LeakInv, [Next]_vars
  PROVE  LeakInv'
  <1> USE DEF LeakInv
  <1>1. CASE Start \/ End
    <2>1. run = "parsing"
      BY <1>1, StartCalls, EndCalls DEF Inv
    <2>2. RoomAhead' /\ ChunkEmpty' /\ LosesStrings
      BY <1>1, StartLeaks, EndLeaks
    <2>3. (oom = TRUE => oom' = TRUE) /\ (error' = error \/ oom' = TRUE)
      BY <1>1, StartCauses, EndCauses, Zenon
    <2>4. ASSUME NEW x \in Astray'
          PROVE  kind'[x] = "string" /\ oom' = TRUE
      <3>1. CASE x \in Astray /\ kind'[x] = kind[x]
        <4>1. kind[x] = "string" /\ oom = TRUE
          BY <2>1, <3>1 DEF Lossless
        <4> QED
          BY <2>3, <3>1, <4>1
      <3> QED
        BY <2>2, <2>4, <3>1 DEF LosesStrings
    <2>5. ErrorsHaveCause'
      BY <2>3 DEF ErrorsHaveCause
    <2> QED
      BY <2>2, <2>4, <2>5 DEF Lossless
  <1>2. ASSUME NEW ok \in BOOLEAN, Finish(ok)
        PROVE  LeakInv'
    <2>1. run' = "done" /\ error' = error /\ oom' = oom /\ temp' = [k \in Tx |-> NULL]
      BY <1>2 DEF Finish, DeleteSession
    <2>2. ChunkEmpty'
      BY <2>1 DEF ChunkEmpty, Tx, Items, ListOf
    <2> QED
      BY <2>1, <2>2 DEF RoomAhead, Lossless, ErrorsHaveCause
  <1>3. CASE Delete
    <2>1. /\ holder = "app" /\ run' = run /\ error' = error /\ oom' = oom /\ temp' = temp
          /\ \A a \in Addr : own'[a] \in {NoFields, own[a]}
      BY <1>3 DEF Delete, AppDelete, Free
    <2>2. run # "parsing"
      BY <2>1 DEF Running
    <2>3. temp["chunk"] # NULL => temp["chunk"] \in Addr
      BY DEF Ownership, PctrlTypeOK, CtrlTypeOK, Tx
    <2>4. NoFields["piece_hashes"] = <<>>
      BY DEF NoFields, Slots
    <2>5. ChunkEmpty'
      BY <2>1, <2>3, <2>4 DEF ChunkEmpty
    <2> QED
      BY <2>1, <2>2, <2>5 DEF RoomAhead, Lossless, ErrorsHaveCause
  <1>4. CASE UNCHANGED vars
    <2>1. Here' = Here /\ run' = run /\ UNCHANGED pctrlVars /\ error' = error /\ oom' = oom
      BY <1>4 DEF vars, stateVars, Here
    <2>2. PICK h : h = Here
      OBVIOUS
    <2>3. EmptyIn(h) => EmptyIn(h)'
      BY <2>1 DEF EmptyIn, pctrlVars
    <2>4. RoomAhead'
      BY <2>1, <2>2, <2>3 DEF RoomAhead
    <2>5. Lossless'
      BY <2>1, QuietRetains DEF Lossless, LosesStrings
    <2> QED
      BY <2>1, <2>4, <2>5, QuietChunk DEF ErrorsHaveCause
  <1> QED
    BY <1>1, <1>2, <1>3, <1>4 DEF Next, Terminated

LEMMA InitLeaks == ASSUME Init PROVE LeakInv
  <1>1. Live = {}
    BY DEF Init, PctrlInit, Live, Kinds, Tx
  <1>2. RoomAhead
    BY TextStates DEF Init, PctrlInit, RoomAhead, EmptyIn, Here, InFile, InPieces
  <1>3. ChunkEmpty
    BY DEF Init, PctrlInit, ChunkEmpty, Tx
  <1> QED
    BY <1>1, <1>2, <1>3 DEF LeakInv, Lossless, Astray, ErrorsHaveCause, Init

LEMMA LeakHolds == ASSUME Assertions, ~Repeats PROVE Spec => []LeakInv
  <1>1. Inv /\ Running /\ Ownership /\ LeakInv /\ [Next]_vars /\ Inv' => LeakInv'
    BY NextLeaks
  <1>2. TypeOK /\ Running /\ [Next]_vars => Running'
    BY NextCalls
  <1>3. Init => Running /\ LeakInv
    BY InitRuns, InitLeaks
  <1> QED
    BY <1>1, <1>2, <1>3, TypeCorrect, InvHolds, ParseOwns, PTL DEF Spec

=============================================================================
