--------------------------- MODULE SessionProofs ---------------------------
(***************************************************************************)
(* The buffers of both parser back ends, for documents of any size, in a   *)
(* library built with its assertions.  The inductive invariant is          *)
(* SessionInv: with libxml2 the stack holds the characters of the open     *)
(* elements, one buffer each; with expat a buffer is only known to be that *)
(* of the innermost element while its text is wanted.                      *)
(***************************************************************************)
EXTENDS Session, PstmProofs

\* A buffer holds the numbers of pieces; an open element those of its own text.
Buffer == Seq(Nat)
Element == [own : Buffer, leaf : BOOLEAN]

\* The types of what Session adds to Pstm.
SessionTypeOK ==
  /\ backend \in {"expat", "libxml2"}
  /\ characters_stack \in Seq(Buffer \cup {NULL})
  /\ bufferOom \in BOOLEAN
  /\ pieces \in Nat
  /\ open \in Seq(Element)

\* The open elements and the state.
Nested ==
  run = "parsing" =>
    /\ Len(open) = depth
    /\ \A i \in 2..Len(open) : ~open[i].leaf
    /\ Here \in Text => depth >= 1 + skip_depth
    /\ buffering => fun \in Text
    /\ fun \in Text /\ open[1].leaf => buffering

\* The open elements and the stack.
Stacked ==
  run = "parsing" /\ ~bufferOom =>
    /\ EveryElement =>
         /\ Len(characters_stack) = Len(open)
         /\ \A i \in 1..Len(open) : characters_stack[i] = open[i].own
    /\ ~EveryElement /\ buffering =>
         characters_stack # <<>> /\ characters_stack[1] = open[1].own

\* The state machine goes wrong only where a buffer is missing.
Sound == Safe \/ (run = "crashed" /\ bufferOom)

SessionInv == TypeOK /\ SessionTypeOK /\ Nested /\ Stacked /\ Sound

-----------------------------------------------------------------------------
(***************************************************************************)
(* Sequences.                                                              *)
(***************************************************************************)
LEMMA Pushed ==
  ASSUME NEW S, NEW x \in S, NEW s \in Seq(S)
  PROVE  /\ <<x>> \o s \in Seq(S)
         /\ Len(<<x>> \o s) = Len(s) + 1
         /\ (<<x>> \o s)[1] = x
         /\ \A i \in 1..Len(s) : (<<x>> \o s)[i + 1] = s[i]
         /\ <<x>> \o s # <<>>
  OBVIOUS

LEMMA Popped ==
  ASSUME NEW S, NEW s \in Seq(S), s # <<>>
  PROVE  /\ Tail(s) \in Seq(S)
         /\ Len(Tail(s)) = Len(s) - 1
         /\ \A i \in 1..Len(Tail(s)) : Tail(s)[i] = s[i + 1]
         /\ Len(s) \in Nat /\ Len(s) > 0
         /\ Head(s) = s[1] /\ s[1] \in S
  BY HeadTailProperties, LenProperties

LEMMA Appended ==
  ASSUME NEW b \in Buffer, NEW n \in Nat
  PROVE  Append(b, n) \in Buffer
  BY DEF Buffer

LEMMA BufferIsBuffer ==
  /\ NULL \notin Buffer
  /\ <<>> \in Buffer
  BY SessionAssumption, EmptySeq DEF Buffer

-----------------------------------------------------------------------------
(***************************************************************************)
(* What the handlers of the state machine do to the state.                 *)
(***************************************************************************)
LEMMA StartEffect ==
  ASSUME TypeOK, Start
  PROVE  /\ run = "parsing" /\ depth' = depth + 1
         /\ \/ run' # "parsing"
            \/ /\ fun \notin {"skip", "null"} /\ fun' \notin {"skip", "null"}
               /\ buffering' = (fun' \in Text)
               /\ skip_depth' = 0
            \/ /\ fun \notin {"skip", "null"} /\ fun' = "skip" /\ before_fun' = fun
               /\ buffering' = FALSE
               /\ skip_depth = 0 /\ skip_depth' = 1
            \/ fun' = "null" /\ buffering' = FALSE
            \/ fun \in {"null", "fin"} /\ UNCHANGED stateVars
            \/ /\ fun = "skip" /\ skip_depth' = skip_depth + 1
               /\ UNCHANGED <<fun, before_fun, buffering>>
  <1>1. ASSUME NEW ns \in Ns, StartIgnored(ns)
        PROVE  /\ run = "parsing" /\ depth' = depth + 1
               /\ fun \in {"null", "fin"} /\ UNCHANGED stateVars
    BY <1>1 DEF StartIgnored, StartElement, Stay
  <1>2. ASSUME NEW ns \in Ns, StartInSkip(ns)
        PROVE  /\ run = "parsing" /\ depth' = depth + 1
               /\ fun = "skip" /\ skip_depth' = skip_depth + 1
               /\ UNCHANGED <<fun, before_fun, buffering>>
    BY <1>2 DEF StartInSkip, StartElement
  <1> DEFINE
    Into == /\ fun \notin {"skip", "null"} /\ fun' \notin {"skip", "null"}
            /\ buffering' = (fun' \in Text)
            /\ skip_depth' = 0
    Over == /\ fun \notin {"skip", "null"} /\ fun' = "skip" /\ before_fun' = fun
            /\ buffering' = FALSE
            /\ skip_depth = 0 /\ skip_depth' = 1
    Bad == fun' = "null" /\ buffering' = FALSE
  <1>3. ASSUME NEW h \in Fun \ {"skip", "null"}, Enter(h), fun \notin {"skip", "null"}
        PROVE  Into
    <2>1. fun' = h /\ skip_depth' = 0
      BY <1>3 DEF Enter, TypeOK, HandlerTypeOK
    <2>2. buffering' = (fun' \in Text)
      BY <1>3, Zenon DEF Enter
    <2> QED
      BY <1>3, <2>1, <2>2
  <1>4. ASSUME EnterSkip, fun \notin {"skip", "null"}
        PROVE  Over
    BY <1>4 DEF EnterSkip, TypeOK, HandlerTypeOK
  <1>5. ASSUME NEW e, ErrorHandler(e)
        PROVE  Bad
    BY <1>5 DEF ErrorHandler
  <1>6. ASSUME NEW how, how # "parsing", Stop(how)
        PROVE  run' # "parsing"
    BY <1>6 DEF Stop
  <1> HIDE DEF Into, Over, Bad
  <1>7. ASSUME NEW ns \in Ns, StartMetalink(ns)
        PROVE  run = "parsing" /\ depth' = depth + 1 /\ Into
    <2>1. \E h \in {"metalink_v3", "metalink_v4"} : Enter(h)
      BY <1>7 DEF StartMetalink
    <2>2. {"metalink_v3", "metalink_v4"} \subseteq Fun \ {"skip", "null"}
      BY DEF Fun, Container, ContainerV3, ContainerV4
    <2> QED
      BY <1>7, <2>1, <2>2, <1>3 DEF StartMetalink, StartElement
  <1>8. ASSUME NEW ns \in Ns, StartSkipped(ns)
        PROVE  run = "parsing" /\ depth' = depth + 1 /\ Over
    BY <1>8, <1>4, TextStates DEF StartSkipped, StartElement
  <1>9. ASSUME NEW c \in Plain, StartPlain(c)
        PROVE  run = "parsing" /\ depth' = depth + 1 /\ (Into \/ run' # "parsing")
    <2>1. c[3] \in Fun \ {"skip", "null"} /\ c[1] \notin {"skip", "null"}
      BY PlainTable, TextStates
    <2> QED
      BY <1>9, <2>1, <1>3, <1>6 DEF StartPlain, StartElement
  <1>10. ASSUME StartPublisher
         PROVE  run = "parsing" /\ depth' = depth + 1 /\ (Over \/ Bad \/ run' # "parsing")
    BY <1>10, <1>4, <1>5, <1>6 DEF StartPublisher, StartElement
  <1>11. ASSUME NEW c \in Opening, StartTransaction(c)
         PROVE  run = "parsing" /\ depth' = depth + 1 /\ (Into \/ Over \/ Bad)
    <2>1. c.to \in Fun \ {"skip", "null"} /\ c.in \notin {"skip", "null"}
      BY OpeningTable, TextStates
    <2> QED
      BY <1>11, <2>1, <1>3, <1>4, <1>5 DEF StartTransaction, StartElement
  <1> QED
    BY <1>1, <1>2, <1>7, <1>8, <1>9, <1>10, <1>11 DEF Start, Into, Over, Bad

LEMMA EndEffect ==
  ASSUME TypeOK, Assertions, End
  PROVE  /\ run = "parsing" /\ depth' = depth - 1 /\ depth > 0
         /\ \/ run' # "parsing"
            \/ fun' \notin Text /\ fun' # "skip" /\ buffering' = FALSE
            \/ fun \in {"null", "fin", "initial"} /\ UNCHANGED stateVars
            \/ /\ fun = "skip" /\ fun' = before_fun /\ buffering' = FALSE
               /\ skip_depth = 1 /\ skip_depth' = 0
            \/ /\ fun = "skip" /\ skip_depth' = skip_depth - 1
               /\ UNCHANGED <<fun, before_fun, buffering>>
  <1>1. CASE EndIgnored
    BY <1>1 DEF EndIgnored, EndElement, Stay
  <1>2. CASE EndInSkip
    BY <1>2 DEF EndInSkip, EndElement, ExitSkip, BeforeSkipBuffering
  <1> DEFINE Out == fun' \notin Text /\ fun' # "skip" /\ buffering' = FALSE
  <1>3. ASSUME NEW h \in Container \cup {"fin"}, Enter(h)
        PROVE  Out
    <2>1. h \notin Text /\ h # "skip"
      BY TextStates
    <2>2. (h \in Text) = FALSE
      BY <2>1
    <2>3. buffering' = (h \in Text) /\ fun' = h
      BY <1>3, Zenon DEF Enter
    <2>4. buffering' = FALSE
      BY <2>2, <2>3, Zenon
    <2> QED
      BY <2>1, <2>3, <2>4, Zenon
  <1>4. ASSUME NEW e, ErrorHandler(e)
        PROVE  Out
    BY <1>4, TextStates DEF ErrorHandler
  <1>5. ASSUME fun \in Text, Return
        PROVE  Out \/ run' # "parsing"
    <2>1. CASE Stop("aborted")
      BY <2>1 DEF Stop
    <2> QED
      BY <1>5, <2>1, <1>3, Returns DEF TypeOK, DocumentTypeOK, ReturnsTo
  <1>6. ASSUME Stop("crashed")
        PROVE  run' # "parsing"
    BY <1>6 DEF Stop
  <1>7. EndElement
    BY DEF End, EndIgnored, EndInSkip, EndScalar, EndVersion, EndString, EndItem,
       EndFiles, EndFile, EndPieces, EndPlain
  <1> HIDE DEF Out
  <1>8. CASE EndScalar
    BY <1>8, <1>4, <1>5, <1>6, <1>7 DEF EndScalar, EndElement, Out
  <1>9. CASE EndVersion
    <2>1. SharedReturn("version", ns_uri) \in {"file_v3", "file_v4"}
      BY DEF SharedReturn, FileText
    <2>2. \/ run' # "parsing"
          \/ fun' \in {"file_v3", "file_v4", "null"} /\ buffering' = FALSE
      BY <1>9, <2>1 DEF EndVersion, Stop
    <2>3. {"file_v3", "file_v4"} \subseteq Container
      BY DEF Container, ContainerV3, ContainerV4
    <2> QED
      BY <1>7, <2>2, <2>3, TextStates DEF EndElement
  <1>10. CASE EndString
    BY <1>10, <1>4, <1>5, <1>7 DEF EndString, EndElement, StringListOf, Text, SharedText, Out
  <1>11. CASE EndItem
    <2>1. fun \in Text
      BY <1>11 DEF EndItem, ItemText, Text, SharedText, OwnText
    <2>2. Stop("crashed") \/ Return \/ ErrorHandler("bad_alloc")
      BY <1>11 DEF EndItem, CommitTarget
    <2> QED
      BY <1>4, <1>5, <1>6, <1>7, <2>1, <2>2 DEF EndElement, Out
  <1>12. CASE EndFiles \/ EndFile \/ EndPieces \/ EndPlain
    <2>1. \/ \E h \in {"metalink_v3", "fin", "files_v3", "metalink_v4", "verification_v3",
                       "file_v4", "file_v3"} : Enter(h)
          \/ \E e \in Errors : ErrorHandler(e)
      BY <1>12 DEF EndFiles, EndFile, EndPieces, EndPlain, Errors
    <2>2. {"metalink_v3", "fin", "files_v3", "metalink_v4", "verification_v3",
           "file_v4", "file_v3"} \subseteq Container \cup {"fin"}
      BY DEF Container, ContainerV3, ContainerV4
    <2> QED
      BY <1>3, <1>4, <1>7, <2>1, <2>2 DEF EndElement, Out
  <1> QED
    BY <1>1, <1>2, <1>8, <1>9, <1>10, <1>11, <1>12 DEF End

-----------------------------------------------------------------------------
(***************************************************************************)
(* The steps.                                                              *)
(***************************************************************************)
\* A new open element, innermost; the one around it has a child now.
LEMMA OpenedElement ==
  ASSUME SessionTypeOK,
         open' = <<[own |-> <<>>, leaf |-> TRUE]>>
                 \o IF open = <<>> THEN <<>>
                    ELSE <<[open[1] EXCEPT !.leaf = FALSE]>> \o Tail(open)
  PROVE  /\ open' \in Seq(Element)
         /\ Len(open') = Len(open) + 1
         /\ open'[1].own = <<>>
         /\ \A i \in 1..Len(open) :
              /\ open'[i + 1].own = open[i].own
              /\ i >= 2 => open'[i + 1] = open[i]
         /\ Len(open) >= 1 => open'[2].leaf = FALSE
  <1> DEFINE new  == [own |-> <<>>, leaf |-> TRUE]
             rest == IF open = <<>> THEN <<>>
                     ELSE <<[open[1] EXCEPT !.leaf = FALSE]>> \o Tail(open)
  <1>1. new \in Element
    BY BufferIsBuffer DEF Element
  <1>2. /\ rest \in Seq(Element)
        /\ Len(rest) = Len(open)
        /\ \A i \in 1..Len(open) :
             /\ rest[i].own = open[i].own
             /\ i >= 2 => rest[i] = open[i]
        /\ Len(open) >= 1 => rest[1].leaf = FALSE
    <2>1. CASE open = <<>>
      <3>1. Len(open) = 0 /\ rest = <<>>
        BY <2>1
      <3>2. rest \in Seq(Element)
        BY <3>1, EmptySeq
      <3> QED
        BY <2>1, <3>1, <3>2
    <2>2. CASE open # <<>>
      <3> DEFINE parent == [open[1] EXCEPT !.leaf = FALSE]
      <3>1. /\ Tail(open) \in Seq(Element)
            /\ Len(Tail(open)) = Len(open) - 1
            /\ \A i \in 1..Len(Tail(open)) : Tail(open)[i] = open[i + 1]
            /\ Len(open) \in Nat /\ Len(open) > 0 /\ open[1] \in Element
        BY <2>2, Popped DEF SessionTypeOK
      <3>2. parent \in Element /\ parent.own = open[1].own /\ parent.leaf = FALSE
        BY <3>1 DEF Element
      <3> HIDE DEF parent
      <3> DEFINE tail == Tail(open)
      <3> HIDE DEF tail
      <3>3. tail \in Seq(Element)
        BY <3>1 DEF tail
      <3>4. /\ <<parent>> \o tail \in Seq(Element)
            /\ Len(<<parent>> \o tail) = Len(tail) + 1
            /\ (<<parent>> \o tail)[1] = parent
            /\ \A i \in 1..Len(tail) : (<<parent>> \o tail)[i + 1] = tail[i]
        BY <3>2, <3>3, Pushed
      <3>5. rest = <<parent>> \o tail
        BY <2>2 DEF parent, tail
      <3> HIDE DEF rest
      <3>6. \A i \in 2..Len(open) : rest[i] = open[i]
        <4> TAKE i \in 2..Len(open)
        <4>1. i - 1 \in 1..Len(tail) /\ (i - 1) + 1 = i
          BY <3>1 DEF tail
        <4>2. rest[(i - 1) + 1] = tail[i - 1] /\ tail[i - 1] = open[(i - 1) + 1]
          BY <3>1, <3>4, <3>5, <4>1 DEF tail
        <4> QED
          BY <4>1, <4>2
      <3>7. Len(rest) = Len(open) /\ rest[1] = parent /\ rest \in Seq(Element)
        BY <3>1, <3>4, <3>5 DEF tail
      <3>8. \A i \in 1..Len(open) : i >= 2 \/ i = 1
        BY <3>1
      <3> QED
        BY <3>1, <3>2, <3>6, <3>7, <3>8
    <2> QED
      BY <2>1, <2>2
  <1>3. open' = <<new>> \o rest
    OBVIOUS
  <1>4. new.own = <<>>
    OBVIOUS
  <1> HIDE DEF new, rest
  <1>5. /\ <<new>> \o rest \in Seq(Element)
        /\ Len(<<new>> \o rest) = Len(rest) + 1
        /\ (<<new>> \o rest)[1] = new
        /\ \A i \in 1..Len(rest) : (<<new>> \o rest)[i + 1] = rest[i]
    BY <1>1, <1>2, Pushed
  <1>6. Len(open) \in Nat
    BY LenProperties DEF SessionTypeOK
  <1>7. Len(open) >= 1 => open'[2] = rest[1]
    <2>1. Len(open) >= 1 => 1 \in 1..Len(rest)
      BY <1>2, <1>6
    <2>2. \A i \in 1..Len(rest) : open'[i + 1] = rest[i]
      BY <1>3, <1>5, Zenon
    <2>3. Len(open) >= 1 => open'[1 + 1] = rest[1]
      BY <2>1, <2>2
    <2> QED
      BY <2>3
  <1>8. Len(open) >= 1 => open'[2].leaf = FALSE
    BY <1>2, <1>7
  <1>9. ASSUME NEW i \in 1..Len(open)
        PROVE  open'[i + 1].own = open[i].own /\ (i >= 2 => open'[i + 1] = open[i])
    <2>1. open'[i + 1] = rest[i]
      BY <1>2, <1>3, <1>5
    <2> QED
      BY <1>2, <2>1
  <1> QED
    BY <1>2, <1>3, <1>4, <1>5, <1>6, <1>8, <1>9

\* The end of an element: the elements around it all have a child.
LEMMA ClosedElement ==
  ASSUME SessionTypeOK, Nested, run = "parsing", depth > 0, open' = Tail(open)
  PROVE  /\ open' \in Seq(Element)
         /\ Len(open') = Len(open) - 1
         /\ \A i \in 1..Len(open') : open'[i] = open[i + 1] /\ ~open'[i].leaf
         /\ open # <<>>
  <1>1. open # <<>> /\ open \in Seq(Element)
    BY DEF Nested, SessionTypeOK
  <1>2. /\ open' \in Seq(Element)
        /\ Len(open') = Len(open) - 1
        /\ \A i \in 1..Len(open') : open'[i] = open[i + 1]
        /\ Len(open) \in Nat
    BY <1>1, Popped
  <1>3. ASSUME NEW i \in 1..Len(open')
        PROVE  open'[i] = open[i + 1] /\ ~open'[i].leaf
    <2>1. i + 1 \in 2..Len(open)
      BY <1>2
    <2> QED
      BY <1>2, <2>1 DEF Nested
  <1> QED
    BY <1>1, <1>2, <1>3

LEMMA PushedType ==
  ASSUME SessionTypeOK, PushBuffer
  PROVE  /\ characters_stack' \in Seq(Buffer \cup {NULL})
         /\ bufferOom' \in BOOLEAN
         /\ bufferOom => bufferOom'
         /\ ~bufferOom' => characters_stack' = <<<<>>>> \o characters_stack
  <1>1. /\ <<>> \in Buffer \cup {NULL}
        /\ NULL \in Buffer \cup {NULL}
        /\ characters_stack \in Seq(Buffer \cup {NULL})
    BY BufferIsBuffer DEF SessionTypeOK
  <1>2. /\ <<<<>>>> \o characters_stack \in Seq(Buffer \cup {NULL})
        /\ <<NULL>> \o characters_stack \in Seq(Buffer \cup {NULL})
    BY <1>1, Pushed
  <1>3. CASE characters_stack' = <<<<>>>> \o characters_stack /\ UNCHANGED bufferOom
    BY <1>2, <1>3 DEF SessionTypeOK
  <1>4. CASE /\ bufferOom' = TRUE
             /\ characters_stack' \in {<<NULL>> \o characters_stack, characters_stack}
    BY <1>1, <1>2, <1>4
  <1> QED
    BY <1>3, <1>4 DEF PushBuffer

LEMMA StartHandlerNested ==
  ASSUME TypeOK, SessionTypeOK, Nested, StartHandler
  PROVE  SessionTypeOK' /\ Nested'
  <1>1. /\ open' \in Seq(Element)
        /\ Len(open') = Len(open) + 1
        /\ \A i \in 1..Len(open) : i >= 2 => open'[i + 1] = open[i]
        /\ Len(open) >= 1 => open'[2].leaf = FALSE
    BY OpenedElement DEF StartHandler
  <1>2. SessionTypeOK'
    <2>1. characters_stack' \in Seq(Buffer \cup {NULL}) /\ bufferOom' \in BOOLEAN
      BY PushedType DEF StartHandler, SessionTypeOK
    <2> QED
      BY <1>1, <2>1 DEF SessionTypeOK, StartHandler
  <1>3. Len(open) \in Nat
    BY LenProperties DEF SessionTypeOK
  <1>4. ASSUME run' = "parsing"
        PROVE  Nested'
    <2>1. run = "parsing" /\ depth' = depth + 1 /\ depth \in Nat /\ skip_depth \in Nat
      BY StartEffect DEF StartHandler, TypeOK, HandlerTypeOK, DocumentTypeOK
    <2>2. Len(open') = depth'
      BY <1>1, <1>3, <2>1 DEF Nested
    <2>3. ASSUME NEW i \in 2..Len(open')
          PROVE  ~open'[i].leaf
      <3>1. CASE i = 2
        BY <1>1, <1>3, <3>1
      <3>2. CASE i # 2
        <4>1. i - 1 \in 2..Len(open) /\ (i - 1) + 1 = i /\ i - 1 \in 1..Len(open)
          BY <1>1, <1>3, <3>2
        <4>2. open'[(i - 1) + 1] = open[i - 1]
          BY <1>1, <4>1
        <4> QED
          BY <2>1, <4>1, <4>2 DEF Nested
      <3> QED
        BY <3>1, <3>2
    <2>4. Here' \in Text => depth' >= 1 + skip_depth'
      <3>1. Here \in Text => depth >= 1 + skip_depth
        BY <2>1 DEF Nested
      <3>2. \/ skip_depth' = 0
            \/ /\ fun \notin {"skip", "null"} /\ fun' = "skip" /\ before_fun' = fun
               /\ skip_depth = 0 /\ skip_depth' = 1
            \/ fun' = "null"
            \/ fun \in {"null", "fin"} /\ UNCHANGED stateVars
            \/ fun = "skip" /\ skip_depth' = skip_depth + 1 /\ UNCHANGED <<fun, before_fun>>
        BY <1>4, StartEffect DEF StartHandler
      <3>3. "null" \notin Text /\ "fin" \notin Text
        BY TextStates
      <3>4. CASE skip_depth' = 0
        BY <2>1, <3>4
      <3>5. CASE /\ fun \notin {"skip", "null"} /\ fun' = "skip" /\ before_fun' = fun
                 /\ skip_depth = 0 /\ skip_depth' = 1
        BY <2>1, <3>1, <3>5 DEF Here
      <3>6. CASE fun' = "null"
        BY <3>3, <3>6 DEF Here
      <3>7. CASE fun \in {"null", "fin"} /\ UNCHANGED stateVars
        BY <3>3, <3>7 DEF Here, stateVars
      <3>8. CASE /\ fun = "skip" /\ skip_depth' = skip_depth + 1
                 /\ UNCHANGED <<fun, before_fun>>
        BY <2>1, <3>1, <3>8 DEF Here
      <3> QED
        BY <3>2, <3>4, <3>5, <3>6, <3>7, <3>8
    <2>5. buffering' => fun' \in Text
      <3>1. \/ buffering' = (fun' \in Text)
            \/ buffering' = FALSE
            \/ buffering' = buffering /\ fun' = fun
        BY <1>4, StartEffect DEF StartHandler, stateVars
      <3>2. buffering => fun \in Text
        BY <2>1 DEF Nested
      <3> QED
        BY <3>1, <3>2, Zenon
    <2>6. fun' \in Text => buffering'
      <3>1. \/ buffering' = (fun' \in Text)
            \/ fun' \in {"skip", "null", "fin"}
        BY <1>4, StartEffect DEF StartHandler, stateVars
      <3>2. fun' \in {"skip", "null", "fin"} => fun' \notin Text
        BY TextStates
      <3> QED
        BY <3>1, <3>2, Zenon
    <2> QED
      BY <2>2, <2>3, <2>4, <2>5, <2>6 DEF Nested
  <1> QED
    BY <1>2, <1>4 DEF Nested

LEMMA StartHandlerStacked ==
  ASSUME TypeOK, SessionTypeOK, Nested, Stacked, StartHandler
  PROVE  Stacked'
  <1> SUFFICES ASSUME run' = "parsing", ~bufferOom'
               PROVE  Stacked'
    BY DEF Stacked
  <1>1. run = "parsing" /\ EveryElement' = EveryElement
    BY StartEffect DEF StartHandler, EveryElement
  <1>2. /\ Len(open') = Len(open) + 1
        /\ open'[1].own = <<>>
        /\ \A i \in 1..Len(open) : open'[i + 1].own = open[i].own
        /\ Len(open) \in Nat
    BY OpenedElement, LenProperties DEF StartHandler, SessionTypeOK
  <1>3. CASE EveryElement \/ buffering'
    <2>1. ~bufferOom /\ characters_stack' = <<<<>>>> \o characters_stack
      BY <1>3, PushedType DEF StartHandler
    <2> DEFINE top == <<>>
    <2>2. top \in Buffer \cup {NULL} /\ characters_stack \in Seq(Buffer \cup {NULL})
      BY BufferIsBuffer DEF SessionTypeOK
    <2> HIDE DEF top
    <2>3. /\ Len(<<top>> \o characters_stack) = Len(characters_stack) + 1
          /\ (<<top>> \o characters_stack)[1] = top
          /\ \A i \in 1..Len(characters_stack) :
               (<<top>> \o characters_stack)[i + 1] = characters_stack[i]
          /\ <<top>> \o characters_stack # <<>>
      BY <2>2, Pushed
    <2>4. characters_stack' = <<top>> \o characters_stack /\ top = <<>>
      BY <2>1 DEF top
    <2>5. characters_stack' # <<>> /\ characters_stack'[1] = open'[1].own
      BY <1>2, <2>3, <2>4
    <2>6. ASSUME EveryElement
          PROVE  /\ Len(characters_stack') = Len(open')
                 /\ \A i \in 1..Len(open') : characters_stack'[i] = open'[i].own
      <3>1. /\ Len(characters_stack) = Len(open)
            /\ \A i \in 1..Len(open) : characters_stack[i] = open[i].own
        BY <1>1, <2>1, <2>6 DEF Stacked
      <3>2. ASSUME NEW i \in 1..Len(open')
            PROVE  characters_stack'[i] = open'[i].own
        <4>1. CASE i = 1
          BY <2>5, <4>1
        <4>2. CASE i # 1
          <5>1. i - 1 \in 1..Len(open) /\ (i - 1) + 1 = i
            BY <1>2, <4>2
          <5>2. characters_stack'[(i - 1) + 1] = characters_stack[i - 1]
            BY <2>3, <2>4, <3>1, <5>1
          <5>3. open'[(i - 1) + 1].own = open[i - 1].own
            BY <1>2, <5>1
          <5> QED
            BY <3>1, <5>1, <5>2, <5>3
        <4> QED
          BY <4>1, <4>2
      <3> QED
        BY <1>2, <2>3, <2>4, <3>1, <3>2
    <2> QED
      BY <1>1, <2>5, <2>6 DEF Stacked
  <1> QED
    BY <1>1, <1>3 DEF Stacked

\* While no buffer is missing, the one on top is that of the innermost open
\* element whenever the handlers use it.
LEMMA TopKnown ==
  ASSUME SessionTypeOK, Nested, Stacked, run = "parsing", depth > 0, Pops, ~bufferOom
  PROVE  /\ characters_stack # <<>>
         /\ Top = open[1].own
         /\ Top # NULL
         /\ Passed = open[1].own
  <1>1. Len(open) > 0 /\ Len(open) \in Nat /\ 1 \in 1..Len(open) /\ open[1] \in Element
    <2>1. open \in Seq(Element) /\ Len(open) > 0
      BY DEF SessionTypeOK, Nested
    <2>2. open # <<>>
      BY <2>1
    <2>3. Len(open) \in Nat /\ open[1] \in Element
      BY <2>1, <2>2, Popped
    <2> QED
      BY <2>1, <2>3
  <1>2. characters_stack # <<>> /\ characters_stack[1] = open[1].own
    <2>1. CASE EveryElement
      <3>1. Len(characters_stack) = Len(open) /\ characters_stack[1] = open[1].own
        BY <1>1, <2>1 DEF Stacked
      <3> QED
        BY <1>1, <3>1
    <2>2. CASE ~EveryElement /\ buffering
      BY <2>2 DEF Stacked
    <2> QED
      BY <2>1, <2>2 DEF Pops
  <1>3. Top = open[1].own
    BY <1>2, Popped DEF Top, SessionTypeOK
  <1>4. open[1].own # NULL
    BY <1>1, BufferIsBuffer DEF Element
  <1> QED
    BY <1>2, <1>3, <1>4 DEF Passed

LEMMA EndHandlerNested ==
  ASSUME TypeOK, SessionTypeOK, Nested, Assertions, EndHandler
  PROVE  SessionTypeOK' /\ Nested'
  <1>1. /\ run = "parsing" /\ depth' = depth - 1 /\ depth > 0
        /\ open' = Tail(open) /\ depth \in Nat /\ skip_depth \in Nat
    BY EndEffect DEF EndHandler, TypeOK, HandlerTypeOK, DocumentTypeOK
  <1>2. /\ open' \in Seq(Element)
        /\ Len(open') = Len(open) - 1
        /\ \A i \in 1..Len(open') : ~open'[i].leaf
    BY <1>1, ClosedElement
  <1>3. SessionTypeOK'
    <2>1. characters_stack' \in Seq(Buffer \cup {NULL})
      <3>1. CASE Pops
        <4>1. characters_stack # <<>>
          BY <3>1 DEF EndHandler, PopCrashes, Top
        <4> QED
          BY <3>1, <4>1, Popped DEF EndHandler, SessionTypeOK
      <3>2. CASE ~Pops
        BY <3>2 DEF EndHandler, SessionTypeOK
      <3> QED
        BY <3>1, <3>2
    <2> QED
      BY <1>2, <2>1 DEF SessionTypeOK, EndHandler
  <1>4. ASSUME run' = "parsing"
        PROVE  Nested'
    <2>1. Len(open') = depth'
      BY <1>1, <1>2 DEF Nested
    <2>2. \A i \in 2..Len(open') : ~open'[i].leaf
      BY <1>2
    <2>3. Here' \in Text => depth' >= 1 + skip_depth'
      <3>1. Here \in Text => depth >= 1 + skip_depth
        BY <1>1 DEF Nested
      <3>2. \/ fun' \notin Text /\ fun' # "skip"
            \/ fun \in {"null", "fin", "initial"} /\ UNCHANGED stateVars
            \/ /\ fun = "skip" /\ fun' = before_fun
               /\ skip_depth = 1 /\ skip_depth' = 0
            \/ fun = "skip" /\ skip_depth' = skip_depth - 1 /\ UNCHANGED <<fun, before_fun>>
        BY <1>4, EndEffect DEF EndHandler
      <3>3. CASE fun' \notin Text /\ fun' # "skip"
        BY <3>3 DEF Here
      <3>4. CASE fun \in {"null", "fin", "initial"} /\ UNCHANGED stateVars
        <4>1. fun \notin Text /\ fun # "skip"
          BY <3>4, TextStates
        <4> QED
          BY <3>4, <4>1 DEF Here, stateVars
      <3>5. CASE /\ fun = "skip" /\ fun' = before_fun
                 /\ skip_depth = 1 /\ skip_depth' = 0
        <4>1. Here' = Here
          BY <3>5 DEF Here, TypeOK, HandlerTypeOK
        <4> QED
          BY <1>1, <3>1, <3>5, <4>1
      <3>6. CASE /\ fun = "skip" /\ skip_depth' = skip_depth - 1
                 /\ UNCHANGED <<fun, before_fun>>
        BY <1>1, <3>1, <3>6 DEF Here
      <3> QED
        BY <3>2, <3>3, <3>4, <3>5, <3>6
    <2>4. buffering' => fun' \in Text
      <3>1. \/ buffering' = FALSE
            \/ buffering' = buffering /\ fun' = fun
        BY <1>4, EndEffect DEF EndHandler, stateVars
      <3>2. buffering => fun \in Text
        BY <1>1 DEF Nested
      <3> QED
        BY <3>1, <3>2, Zenon
    <2>5. fun' \in Text => ~open'[1].leaf
      <3>1. SUFFICES ASSUME fun' \in Text
                     PROVE  ~open'[1].leaf
        OBVIOUS
      <3>2. Here' \in Text
        BY <3>1, TextStates DEF Here
      <3>3. skip_depth' \in Nat
        BY EndInv DEF EndHandler, TypeOK, HandlerTypeOK
      <3>4. depth' >= 1 + skip_depth' /\ depth' \in Int
        BY <2>3, <3>2, <1>1
      <3>5. 1 \in 1..depth'
        <4>1. \A d \in Int, n \in Nat : d >= 1 + n => 1 \in 1..d
          OBVIOUS
        <4> QED
          BY <3>3, <3>4, <4>1, Zenon
      <3>6. 1 \in 1..Len(open')
        BY <2>1, <3>5, Zenon
      <3> QED
        BY <1>2, <3>6
    <2> QED
      BY <2>1, <2>2, <2>3, <2>4, <2>5 DEF Nested
  <1> QED
    BY <1>3, <1>4 DEF Nested

LEMMA EndHandlerStacked ==
  ASSUME TypeOK, SessionTypeOK, Nested, Stacked, Assertions, EndHandler
  PROVE  Stacked'
  <1> SUFFICES ASSUME run' = "parsing", ~bufferOom'
               PROVE  Stacked'
    BY DEF Stacked
  <1>1. /\ run = "parsing" /\ depth > 0 /\ ~bufferOom
        /\ EveryElement' = EveryElement /\ open' = Tail(open)
    BY EndEffect DEF EndHandler, EveryElement
  <1>2. /\ Len(open') = Len(open) - 1
        /\ \A i \in 1..Len(open') : open'[i] = open[i + 1]
        /\ Len(open) \in Nat /\ Len(open) > 0
    BY <1>1, ClosedElement, Popped DEF SessionTypeOK
  <1>3. ASSUME EveryElement
        PROVE  /\ Len(characters_stack') = Len(open')
               /\ \A i \in 1..Len(open') : characters_stack'[i] = open'[i].own
    <2>1. /\ Len(characters_stack) = Len(open)
          /\ \A i \in 1..Len(open) : characters_stack[i] = open[i].own
      BY <1>1, <1>3 DEF Stacked
    <2>2. characters_stack # <<>> /\ characters_stack' = Tail(characters_stack)
      BY <1>2, <1>3, <2>1 DEF EndHandler, Pops
    <2>3. /\ Len(characters_stack') = Len(characters_stack) - 1
          /\ \A i \in 1..Len(characters_stack') :
               characters_stack'[i] = characters_stack[i + 1]
      BY <2>2, Popped DEF SessionTypeOK
    <2>4. ASSUME NEW i \in 1..Len(open')
          PROVE  characters_stack'[i] = open'[i].own
      <3>1. i + 1 \in 1..Len(open) /\ i \in 1..Len(characters_stack')
        BY <1>2, <2>1, <2>3
      <3> QED
        BY <1>2, <2>1, <2>3, <3>1
    <2> QED
      BY <1>2, <2>1, <2>3, <2>4
  <1>4. ~buffering'
    <2>1. \/ buffering' = FALSE
          \/ fun \in {"null", "fin", "initial", "skip"} /\ buffering' = buffering
      BY EndEffect DEF EndHandler, stateVars
    <2>2. fun \in {"null", "fin", "initial", "skip"} => fun \notin Text
      BY TextStates
    <2>3. buffering => fun \in Text
      BY <1>1 DEF Nested
    <2> QED
      BY <2>1, <2>2, <2>3, Zenon
  <1> QED
    BY <1>1, <1>3, <1>4 DEF Stacked

LEMMA CharactersOpen ==
  ASSUME SessionTypeOK, Nested, CharactersHandler
  PROVE  /\ open' \in Seq(Element)
         /\ Len(open') = Len(open)
         /\ Len(open) \in Nat /\ Len(open) > 0
         /\ open'[1].own = Append(open[1].own, pieces + 1)
         /\ \A i \in 1..Len(open) : open'[i].leaf = open[i].leaf
         /\ \A i \in 2..Len(open) : open'[i] = open[i]
  <1>1. open # <<>> /\ open \in Seq(Element)
    BY DEF CharactersHandler, Nested, SessionTypeOK
  <1>2. Len(open) \in Nat /\ Len(open) > 0 /\ open[1] \in Element
    BY <1>1, Popped
  <1> DEFINE e == [open[1] EXCEPT !.own = Append(@, pieces + 1)]
  <1>3. /\ e \in Element
        /\ e.own = Append(open[1].own, pieces + 1)
        /\ e.leaf = open[1].leaf
    <2>1. pieces + 1 \in Nat /\ open[1].own \in Buffer
      BY <1>2 DEF SessionTypeOK, Element
    <2>2. Append(open[1].own, pieces + 1) \in Buffer
      BY <2>1, Appended
    <2> QED
      BY <1>2, <2>2 DEF Element
  <1>4. open' = [open EXCEPT ![1] = e]
    BY DEF CharactersHandler
  <1> HIDE DEF e
  <1>5. /\ open' \in Seq(Element)
        /\ Len(open') = Len(open)
        /\ \A j \in 1..Len(open) : open'[j] = IF j = 1 THEN e ELSE open[j]
    <2>1. 1 \in 1..Len(open)
      BY <1>2
    <2> QED
      BY <1>1, <1>3, <1>4, <2>1, ExceptSeq
  <1> QED
    BY <1>2, <1>3, <1>5

LEMMA CrashType ==
  ASSUME TypeOK, Crash
  PROVE  TypeOK'
  <1>1. PctrlTypeOK'
    BY PctrlUnchangedType DEF TypeOK, Crash
  <1>2. HandlerTypeOK' /\ DocumentTypeOK'
    BY DEF TypeOK, HandlerTypeOK, DocumentTypeOK, Crash, stateVars, envVars
  <1> QED
    BY <1>1, <1>2 DEF TypeOK

LEMMA VarsKeep ==
  ASSUME TypeOK, UNCHANGED vars
  PROVE  TypeOK' /\ (Safe => Safe')
  BY UnchangedInv

LEMMA CharactersHandlerInv ==
  ASSUME SessionInv, CharactersHandler
  PROVE  SessionInv'
  <1>1. /\ run = "parsing" /\ depth > 0
        /\ backend' = backend /\ bufferOom' = bufferOom /\ pieces' \in Nat
        /\ pieces + 1 \in Nat
        /\ EveryElement' = EveryElement
    BY DEF SessionInv, SessionTypeOK, CharactersHandler, EveryElement
  <1>2. /\ open' \in Seq(Element)
        /\ Len(open') = Len(open)
        /\ Len(open) \in Nat /\ Len(open) > 0
        /\ open'[1].own = Append(open[1].own, pieces + 1)
        /\ \A i \in 1..Len(open) : open'[i].leaf = open[i].leaf
        /\ \A i \in 2..Len(open) : open'[i] = open[i]
    BY CharactersOpen DEF SessionInv
  <1>3. CASE ~Pops
    <2>1. UNCHANGED <<characters_stack, vars>>
      BY <1>3 DEF CharactersHandler
    <2>2. TypeOK' /\ Sound'
      BY <1>1, <2>1, VarsKeep DEF SessionInv, Sound, vars
    <2>3. SessionTypeOK'
      BY <1>1, <1>2, <2>1 DEF SessionInv, SessionTypeOK
    <2>4. Nested'
      BY <1>1, <1>2, <2>1 DEF SessionInv, Nested, Here, vars, stateVars, envVars
    <2>5. Stacked'
      BY <1>1, <1>3, <2>1 DEF Stacked, Pops, vars, stateVars
    <2> QED
      BY <2>2, <2>3, <2>4, <2>5 DEF SessionInv
  <1>4. CASE Pops /\ Top = NULL
    <2>1. bufferOom
      BY <1>1, <1>4, TopKnown DEF SessionInv
    <2>2. Crash /\ UNCHANGED characters_stack
      BY <1>4 DEF CharactersHandler
    <2>3. TypeOK'
      BY <2>2, CrashType DEF SessionInv
    <2>4. SessionTypeOK'
      BY <1>1, <1>2, <2>2 DEF SessionInv, SessionTypeOK
    <2>5. Nested' /\ Stacked' /\ Sound'
      BY <1>1, <2>1, <2>2 DEF Crash, Nested, Stacked, Sound
    <2> QED
      BY <2>3, <2>4, <2>5 DEF SessionInv
  <1>5. CASE Pops /\ Top # NULL
    <2>1. characters_stack' = <<Append(Top, pieces + 1)>> \o Tail(characters_stack)
          /\ UNCHANGED vars
      BY <1>5 DEF CharactersHandler
    <2>2. /\ characters_stack # <<>>
          /\ Top = characters_stack[1]
          /\ Top \in Buffer
          /\ Tail(characters_stack) \in Seq(Buffer \cup {NULL})
          /\ Len(Tail(characters_stack)) = Len(characters_stack) - 1
          /\ \A i \in 1..Len(Tail(characters_stack)) :
               Tail(characters_stack)[i] = characters_stack[i + 1]
          /\ Len(characters_stack) \in Nat /\ Len(characters_stack) > 0
      BY <1>5, Popped DEF Top, SessionInv, SessionTypeOK
    <2> DEFINE top  == Append(Top, pieces + 1)
               tail == Tail(characters_stack)
    <2>3. top \in Buffer \cup {NULL}
      BY <1>1, <2>2, Appended
    <2>4. tail \in Seq(Buffer \cup {NULL})
      BY <2>2
    <2>5. top = Append(Top, pieces + 1) /\ characters_stack' = <<top>> \o tail
      BY <2>1
    <2>6. /\ Len(tail) = Len(characters_stack) - 1
          /\ \A i \in 1..Len(tail) : tail[i] = characters_stack[i + 1]
      BY <2>2
    <2> HIDE DEF top, tail
    <2>7. /\ <<top>> \o tail \in Seq(Buffer \cup {NULL})
          /\ Len(<<top>> \o tail) = Len(tail) + 1
          /\ (<<top>> \o tail)[1] = top
          /\ \A i \in 1..Len(tail) : (<<top>> \o tail)[i + 1] = tail[i]
          /\ <<top>> \o tail # <<>>
      BY <2>3, <2>4, Pushed
    <2>8. /\ characters_stack' \in Seq(Buffer \cup {NULL})
          /\ Len(characters_stack') = Len(characters_stack)
          /\ characters_stack'[1] = Append(Top, pieces + 1)
          /\ characters_stack' # <<>>
      <3>1. characters_stack' = <<top>> \o tail /\ top = Append(Top, pieces + 1)
        BY <2>5
      <3>2. characters_stack' \in Seq(Buffer \cup {NULL}) /\ characters_stack' # <<>>
        BY ONLY <3>1, <2>7
      <3>3. characters_stack'[1] = Append(Top, pieces + 1)
        BY <3>1, <2>7
      <3>4. Len(characters_stack') = Len(tail) + 1
        BY <3>1, <2>7
      <3> QED
        BY <2>2, <2>6, <3>2, <3>3, <3>4
    <2>9. ASSUME NEW i \in 2..Len(characters_stack)
          PROVE  characters_stack'[i] = characters_stack[i]
      <3>1. i - 1 \in 1..Len(tail) /\ (i - 1) + 1 = i
        BY <2>2, <2>6
      <3>2. characters_stack'[(i - 1) + 1] = tail[i - 1]
        BY <2>5, <2>7, <3>1
      <3>3. tail[i - 1] = characters_stack[(i - 1) + 1]
        BY <2>6, <3>1
      <3> QED
        BY <3>1, <3>2, <3>3
    <2>10. TypeOK' /\ Sound'
      BY <1>1, <2>1, VarsKeep DEF SessionInv, Sound, vars
    <2>11. SessionTypeOK'
      BY <1>1, <1>2, <2>8 DEF SessionInv, SessionTypeOK
    <2>12. Nested'
      BY <1>1, <1>2, <2>1 DEF SessionInv, Nested, Here, vars, stateVars, envVars
    <2>13. Stacked'
      <3> SUFFICES ASSUME ~bufferOom
                   PROVE  Stacked'
        BY <1>1 DEF Stacked
      <3>1. Top = open[1].own
        BY <1>1, <1>5, TopKnown DEF SessionInv
      <3>2. characters_stack'[1] = open'[1].own
        BY <1>2, <2>8, <3>1
      <3>3. ASSUME EveryElement
            PROVE  /\ Len(characters_stack') = Len(open')
                   /\ \A i \in 1..Len(open') : characters_stack'[i] = open'[i].own
        <4>1. /\ Len(characters_stack) = Len(open)
              /\ \A i \in 1..Len(open) : characters_stack[i] = open[i].own
          BY <1>1, <3>3 DEF SessionInv, Stacked
        <4>2. ASSUME NEW i \in 1..Len(open')
              PROVE  characters_stack'[i] = open'[i].own
          <5>1. CASE i = 1
            BY <3>2, <5>1
          <5>2. CASE i # 1
            <6>1. i \in 2..Len(open) /\ i \in 2..Len(characters_stack) /\ i \in 1..Len(open)
              BY <1>2, <4>1, <5>2
            <6> QED
              BY <1>2, <2>9, <4>1, <6>1
          <5> QED
            BY <5>1, <5>2
        <4> QED
          BY <1>2, <2>8, <4>1, <4>2
      <3> QED
        BY <1>1, <2>8, <3>2, <3>3 DEF Stacked
    <2> QED
      BY <2>10, <2>11, <2>12, <2>13 DEF SessionInv
  <1> QED
    BY <1>3, <1>4, <1>5

LEMMA SessionNextInv ==
  ASSUME SessionInv, Assertions, [SessionNext]_<<vars, sessionVars>>
  PROVE  SessionInv'
  <1>1. CASE StartHandler
    <2>1. TypeOK' /\ (Safe => Safe') /\ run = "parsing"
      BY <1>1, StartInv, StartEffect DEF SessionInv, StartHandler
    <2>2. Sound'
      BY <2>1 DEF SessionInv, Sound
    <2> QED
      BY <1>1, <2>1, <2>2, StartHandlerNested, StartHandlerStacked DEF SessionInv
  <1>2. CASE EndHandler
    <2>1. TypeOK' /\ (Safe => Safe') /\ run = "parsing"
      BY <1>2, EndInv, EndEffect DEF SessionInv, EndHandler
    <2>2. Sound'
      BY <2>1 DEF SessionInv, Sound
    <2> QED
      BY <1>2, <2>1, <2>2, EndHandlerNested, EndHandlerStacked DEF SessionInv
  <1>3. CASE EndHandlerCrashes
    <2>1. bufferOom
      <3>1. run = "parsing" /\ depth > 0 /\ Pops /\ Top = NULL
        BY <1>3 DEF EndHandlerCrashes, PopCrashes
      <3> QED
        BY <3>1, TopKnown DEF SessionInv
    <2>2. TypeOK'
      BY <1>3, CrashType DEF SessionInv, EndHandlerCrashes
    <2>3. SessionTypeOK'
      BY <1>3 DEF SessionInv, SessionTypeOK, EndHandlerCrashes, sessionVars
    <2>4. Nested' /\ Stacked' /\ Sound'
      BY <1>3, <2>1 DEF EndHandlerCrashes, Crash, Nested, Stacked, Sound, sessionVars
    <2> QED
      BY <2>2, <2>3, <2>4 DEF SessionInv
  <1>4. CASE CharactersHandler
    BY <1>4, CharactersHandlerInv
  <1>5. CASE FinishSession
    <2>1. PICK ok \in BOOLEAN : Finish(ok)
      BY <1>5 DEF FinishSession
    <2>2. TypeOK' /\ (Safe => Safe') /\ run = "parsing" /\ run' = "done"
      BY <2>1, FinishInv DEF SessionInv, Finish
    <2>3. SessionTypeOK'
      <3>1. characters_stack' \in Seq(Buffer \cup {NULL}) /\ open' \in Seq(Element)
        BY <1>5, EmptySeq DEF FinishSession
      <3> QED
        BY <1>5, <3>1 DEF FinishSession, SessionInv, SessionTypeOK
    <2>4. Nested' /\ Stacked' /\ Sound'
      BY <2>2 DEF Nested, Stacked, Sound, SessionInv
    <2> QED
      BY <2>2, <2>3, <2>4 DEF SessionInv
  <1>6. CASE (Delete \/ UNCHANGED vars) /\ UNCHANGED sessionVars
    <2>1. TypeOK' /\ (Safe => Safe')
      BY <1>6, DeleteInv, VarsKeep DEF SessionInv
    <2>2. UNCHANGED <<stateVars, envVars, run>>
      BY <1>6 DEF Delete, vars
    <2>3. SessionTypeOK'
      BY <1>6 DEF SessionInv, SessionTypeOK, sessionVars
    <2>4. Nested' /\ Sound'
      BY <1>6, <2>1, <2>2 DEF SessionInv, Nested, Sound, Here, sessionVars, stateVars, envVars
    <2>5. Stacked'
      BY <1>6, <2>2 DEF SessionInv, Stacked, EveryElement, sessionVars, stateVars
    <2> QED
      BY <2>1, <2>3, <2>4, <2>5 DEF SessionInv
  <1> QED
    BY <1>1, <1>2, <1>3, <1>4, <1>5, <1>6 DEF SessionNext, Terminated

LEMMA SessionInitInv ==
  ASSUME SessionInit
  PROVE  SessionInv
  <1>1. TypeOK /\ Safe
    BY InitInv DEF SessionInit
  <1>2. SessionTypeOK
    <2>1. characters_stack \in Seq(Buffer \cup {NULL}) /\ open \in Seq(Element)
      BY EmptySeq DEF SessionInit
    <2> QED
      BY <2>1, SessionAssumption DEF SessionInit, SessionTypeOK
  <1>3. fun \notin Text /\ Here \notin Text /\ buffering = FALSE /\ depth = 0
    BY TextStates DEF SessionInit, Init, Here
  <1>4. Len(open) = 0 /\ Len(characters_stack) = 0
    BY DEF SessionInit
  <1>5. Nested /\ Stacked
    BY <1>3, <1>4 DEF Nested, Stacked
  <1> QED
    BY <1>1, <1>2, <1>5 DEF SessionInv, Sound

LEMMA SessionInvHolds == ASSUME Assertions PROVE SessionSpec => []SessionInv
  <1>1. SessionInit => SessionInv
    BY SessionInitInv
  <1>2. SessionInv /\ [SessionNext]_<<vars, sessionVars>> => SessionInv'
    BY SessionNextInv
  <1> QED
    BY <1>1, <1>2, PTL DEF SessionSpec

-----------------------------------------------------------------------------
(***************************************************************************)
(* Theorems.                                                               *)
(***************************************************************************)
\* With both back ends, in a document of any size, the end handler of a text
\* element without children is passed exactly its characters, and that of any
\* text element none but its own, whatever the stack still holds of others.
THEOREM TextStaysOwn == ASSUME Assertions PROVE SessionSpec => []TextIsOwn
  <1>1. SessionInv => TextIsOwn
    <2> SUFFICES ASSUME SessionInv, AtText
                 PROVE  /\ open[1].leaf => Passed = open[1].own
                        /\ Passed \in {open[1].own, <<>>}
      BY DEF TextIsOwn
    <2>1. run = "parsing" /\ fun \in Text /\ ~bufferOom
      BY DEF AtText
    <2>2. depth > 0
      <3>1. Here \in Text
        BY <2>1, TextStates DEF Here
      <3> QED
        BY <2>1, <3>1 DEF SessionInv, Nested, TypeOK, HandlerTypeOK, DocumentTypeOK
    <2>3. CASE Pops
      BY <2>1, <2>2, <2>3, TopKnown DEF SessionInv
    <2>4. CASE ~Pops
      <3>1. Passed = <<>> /\ ~buffering
        BY <2>4 DEF Passed, Pops
      <3>2. ~open[1].leaf
        BY <2>1, <3>1 DEF SessionInv, Nested
      <3> QED
        BY <3>1, <3>2
    <2> QED
      BY <2>3, <2>4
  <1> QED
    BY <1>1, SessionInvHolds, PTL

\* The stack is never popped or appended to without a buffer on it, and the
\* process never dereferences NULL, unless an allocation failed before.
THEOREM BuffersStayBalanced == ASSUME Assertions PROVE SessionSpec => []BuffersBalanced
  <1>1. SessionInv => BuffersBalanced
    <2> SUFFICES ASSUME SessionInv
                 PROVE  BuffersBalanced
      OBVIOUS
    <2>1. run = "parsing" /\ Pops /\ depth > 0 /\ ~bufferOom => Top # NULL
      BY TopKnown DEF SessionInv
    <2>2. run = "crashed" => bufferOom
      BY DEF SessionInv, Sound, Safe, NoInternalError
    <2> QED
      BY <2>1, <2>2 DEF BuffersBalanced
  <1> QED
    BY <1>1, SessionInvHolds, PTL

\* The libxml2 handlers keep one buffer per open element.
THEOREM OneBufferEach == ASSUME Assertions PROVE SessionSpec => []OneBufferPerElement
  <1>1. SessionInv => OneBufferPerElement
    BY DEF SessionInv, Stacked, Nested, OneBufferPerElement
  <1> QED
    BY <1>1, SessionInvHolds, PTL

=============================================================================
