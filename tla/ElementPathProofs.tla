------------------------- MODULE ElementPathProofs -------------------------
(***************************************************************************)
(* The states of the state machine implement ElementPath, for documents of *)
(* any size and depth whose text elements contain no element of another    *)
(* namespace.  The inductive invariant is Placed: the path of an element is*)
(* known from its state, and the document is there.  Handed adds where the *)
(* files are that were committed.  With them and LeakInv of PstmProofs it  *)
(* is known what the end of the session leaves allocated.                  *)
(***************************************************************************)
EXTENDS PstmProofs

-----------------------------------------------------------------------------
(***************************************************************************)
(* Paths.                                                                  *)
(***************************************************************************)
LEMMA Longer ==
  ASSUME NEW S, NEW s \in Seq(S), NEW x \in S
  PROVE  /\ Append(s, x) \in Seq(S)
         /\ Len(Append(s, x)) = Len(s) + 1
         /\ Len(s) \in Nat
         /\ Append(s, x) # <<>>
         /\ Abstract!Front(Append(s, x)) = s
  <1> DEFINE t == Append(s, x)
  <1>1. /\ t \in Seq(S)
        /\ Len(t) = Len(s) + 1
        /\ Len(s) \in Nat
        /\ t # <<>>
    OBVIOUS
  <1>2. \A i \in 1..Len(s) : t[i] = s[i]
    OBVIOUS
  <1> HIDE DEF t
  <1> DEFINE u == SubSeq(t, 1, Len(s))
  <1>3. \A i \in 1..Len(s) : t[i] \in S
    BY <1>2, ElementOfSeq
  <1>4. /\ u \in Seq(S)
        /\ Len(u) = Len(s)
        /\ \A i \in 1..Len(s) : u[i] = t[i]
    <2>1. /\ u \in Seq(S)
          /\ Len(u) = IF 1 <= Len(s) THEN Len(s) - 1 + 1 ELSE 0
          /\ \A i \in 1..(Len(s) - 1 + 1) : u[i] = t[1 + i - 1]
      BY <1>1, <1>3, SubSeqProperties
    <2> QED
      BY <1>1, <2>1
  <1>5. u = s
    <2> HIDE DEF u
    <2> QED
      BY <1>1, <1>2, <1>4, SeqEqual
  <1>6. Abstract!Front(t) = u
    BY <1>1 DEF Abstract!Front
  <1> QED
    BY <1>1, <1>5, <1>6 DEF t

LEMMA Tuple1 ==
  ASSUME NEW S, NEW a \in S
  PROVE  <<a>> \in Seq(S) /\ Append(<<>>, a) = <<a>>
  <1>1. <<>> \in Seq(S) /\ <<a>> \in Seq(S) /\ Append(<<>>, a) \in Seq(S)
    OBVIOUS
  <1>2. Len(Append(<<>>, a)) = 1 /\ Len(<<a>>) = 1
    OBVIOUS
  <1>3. \A i \in 1..1 : Append(<<>>, a)[i] = <<a>>[i]
    OBVIOUS
  <1> QED
    BY <1>1, <1>2, <1>3, SeqEqual

LEMMA Tuple2 ==
  ASSUME NEW S, NEW a \in S, NEW b \in S
  PROVE  <<a, b>> \in Seq(S) /\ Append(<<a>>, b) = <<a, b>>
  <1>1. <<a>> \in Seq(S) /\ <<a, b>> \in Seq(S) /\ Append(<<a>>, b) \in Seq(S)
    OBVIOUS
  <1>2. Len(Append(<<a>>, b)) = 2 /\ Len(<<a, b>>) = 2
    OBVIOUS
  <1>3. \A i \in 1..2 : Append(<<a>>, b)[i] = <<a, b>>[i]
    OBVIOUS
  <1> QED
    BY <1>1, <1>2, <1>3, SeqEqual

LEMMA Tuple3 ==
  ASSUME NEW S, NEW a \in S, NEW b \in S, NEW c \in S
  PROVE  <<a, b, c>> \in Seq(S) /\ Append(<<a, b>>, c) = <<a, b, c>>
  <1>1. <<a, b>> \in Seq(S) /\ <<a, b, c>> \in Seq(S) /\ Append(<<a, b>>, c) \in Seq(S)
    OBVIOUS
  <1>2. Len(Append(<<a, b>>, c)) = 3 /\ Len(<<a, b, c>>) = 3
    OBVIOUS
  <1>3. \A i \in 1..3 : Append(<<a, b>>, c)[i] = <<a, b, c>>[i]
    OBVIOUS
  <1> QED
    BY <1>1, <1>2, <1>3, SeqEqual

LEMMA Concat2 ==
  ASSUME NEW S, NEW s \in Seq(S), NEW a \in S, NEW b \in S
  PROVE  s \o <<a, b>> = Append(Append(s, a), b)
  <1>1. s \o <<a, b>> \in Seq(S) /\ Append(Append(s, a), b) \in Seq(S)
    OBVIOUS
  <1>2. Len(s \o <<a, b>>) = Len(s) + 2 /\ Len(Append(Append(s, a), b)) = Len(s) + 2
    OBVIOUS
  <1>3. \A i \in 1..(Len(s) + 2) : (s \o <<a, b>>)[i] = Append(Append(s, a), b)[i]
    OBVIOUS
  <1> QED
    BY <1>1, <1>2, <1>3, SeqEqual

\* The elements of paths.
Labels ==
  {"metalink", "files", "file", "identity", "tags", "resources", "verification",
   "pieces", "url", "hash", "size", "version", "language", "os", "generator",
   "origin", "published", "updated", "description", "copyright", "logo",
   "metaurl", "signature"}

LEMMA SomeLabels ==
  /\ "metalink" \in Labels /\ "files" \in Labels /\ "file" \in Labels
  /\ "identity" \in Labels /\ "tags" \in Labels
  /\ "resources" \in Labels /\ "verification" \in Labels
  /\ "pieces" \in Labels /\ "url" \in Labels /\ "hash" \in Labels
  /\ "generator" \in Labels /\ "origin" \in Labels
  /\ "published" \in Labels /\ "updated" \in Labels
  /\ FileText \subseteq Labels
  BY DEF Labels, FileText

\* The paths in PathOf that end in two elements.
LEMMA TwoMore ==
  ASSUME NEW s \in Seq(Labels)
  PROVE  /\ s \o <<"pieces", "hash">> = Append(Append(s, "pieces"), "hash")
         /\ s \o <<"resources", "url">> = Append(Append(s, "resources"), "url")
  <1>1. "pieces" \in Labels /\ "hash" \in Labels
    BY DEF Labels
  <1>2. "resources" \in Labels /\ "url" \in Labels
    BY DEF Labels
  <1>3. s \o <<"pieces", "hash">> = Append(Append(s, "pieces"), "hash")
    BY <1>1, Concat2
  <1>4. s \o <<"resources", "url">> = Append(Append(s, "resources"), "url")
    BY <1>2, Concat2
  <1> QED
    BY <1>3, <1>4

LEMMA FilePathV3 ==
  ASSUME version = "v3"
  PROVE  /\ FilePath = Append(<<"metalink", "files">>, "file")
         /\ FilePath = <<"metalink", "files", "file">>
         /\ FilePath \in Seq(Labels)
  <1>1. FilePath = <<"metalink", "files", "file">>
    BY DEF FilePath
  <1>2. {"metalink", "files", "file"} \subseteq Labels
    BY SomeLabels
  <1>3. <<"metalink", "files", "file">> = Append(<<"metalink", "files">>, "file")
        /\ <<"metalink", "files", "file">> \in Seq(Labels)
    BY <1>2, Tuple3
  <1> QED
    BY <1>1, <1>3

LEMMA FilePathV4 ==
  ASSUME version = "v4"
  PROVE  /\ FilePath = Append(<<"metalink">>, "file")
         /\ FilePath = <<"metalink", "file">>
         /\ FilePath \in Seq(Labels)
  <1>1. FilePath = <<"metalink", "file">>
    BY DEF FilePath
  <1> QED
    BY <1>1, Tuple2, SomeLabels, Zenon

\* The paths of the states of version 3 ...
LEMMA PathsV3 ==
  ASSUME version = "v3"
  PROVE  /\ PathOf("initial")         = <<>>
         /\ PathOf("fin")             = <<>>
         /\ PathOf("metalink_v3")     = Append(<<>>, "metalink")
         /\ PathOf("files_v3")        = Append(PathOf("metalink_v3"), "files")
         /\ PathOf("file_v3")         = Append(PathOf("files_v3"), "file")
         /\ PathOf("resources_v3")    = Append(PathOf("file_v3"), "resources")
         /\ PathOf("verification_v3") = Append(PathOf("file_v3"), "verification")
         /\ PathOf("pieces_v3")       = Append(PathOf("verification_v3"), "pieces")
         /\ PathOf("url")             = Append(PathOf("resources_v3"), "url")
         /\ PathOf("hash")            = Append(PathOf("verification_v3"), "hash")
         /\ PathOf("piece_hash")      = Append(PathOf("pieces_v3"), "hash")
         /\ \A f \in FileText : PathOf(f) = Append(PathOf("file_v3"), f)
         /\ PathOf("identity_v3")     = Append(PathOf("metalink_v3"), "identity")
         /\ PathOf("tags_v3")         = Append(PathOf("metalink_v3"), "tags")
         /\ PathOf("metalink_v3")     = <<"metalink">>
         /\ PathOf("files_v3")        = <<"metalink", "files">>
         /\ PathOf("file_v3")         = <<"metalink", "files", "file">>
  <1>1. /\ PathOf("initial")         = <<>>
        /\ PathOf("fin")             = <<>>
        /\ PathOf("metalink_v3")     = <<"metalink">>
        /\ PathOf("files_v3")        = <<"metalink", "files">>
        /\ PathOf("file_v3")         = FilePath
        /\ PathOf("resources_v3")    = Append(FilePath, "resources")
        /\ PathOf("verification_v3") = Append(FilePath, "verification")
        /\ PathOf("pieces_v3")       = Append(Append(FilePath, "verification"), "pieces")
        /\ PathOf("hash")            = Append(Append(FilePath, "verification"), "hash")
    BY DEF PathOf, FileText
  <1>2. /\ PathOf("piece_hash")      = Append(FilePath, "verification") \o <<"pieces", "hash">>
        /\ PathOf("url")             = FilePath \o <<"resources", "url">>
        /\ \A f \in FileText : PathOf(f) = Append(FilePath, f)
        /\ PathOf("identity_v3")     = <<"metalink", "identity">>
        /\ PathOf("tags_v3")         = <<"metalink", "tags">>
    BY DEF PathOf, FileText
  <1>3. /\ FilePath = Append(<<"metalink", "files">>, "file")
        /\ FilePath = <<"metalink", "files", "file">>
        /\ FilePath \in Seq(Labels)
    BY FilePathV3
  <1>4. Append(FilePath, "verification") \o <<"pieces", "hash">>
          = Append(Append(Append(FilePath, "verification"), "pieces"), "hash")
    <2>1. Append(FilePath, "verification") \in Seq(Labels)
      BY <1>3, SomeLabels, Longer, Zenon
    <2> QED
      BY <2>1, TwoMore
  <1>5. FilePath \o <<"resources", "url">> = Append(Append(FilePath, "resources"), "url")
    BY <1>3, TwoMore
  <1>6. /\ <<"metalink">> = Append(<<>>, "metalink")
        /\ <<"metalink", "files">> = Append(<<"metalink">>, "files")
        /\ <<"metalink", "identity">> = Append(<<"metalink">>, "identity")
        /\ <<"metalink", "tags">> = Append(<<"metalink">>, "tags")
    BY Tuple1, Tuple2, SomeLabels, Zenon
  <1> QED
    BY <1>1, <1>2, <1>3, <1>4, <1>5, <1>6, Zenon

\* ... and of version 4.
LEMMA PathsV4 ==
  ASSUME version = "v4"
  PROVE  /\ PathOf("initial")         = <<>>
         /\ PathOf("fin")             = <<>>
         /\ PathOf("metalink_v4")     = Append(<<>>, "metalink")
         /\ PathOf("file_v4")         = Append(PathOf("metalink_v4"), "file")
         /\ PathOf("pieces_v4")       = Append(PathOf("file_v4"), "pieces")
         /\ PathOf("url")             = Append(PathOf("file_v4"), "url")
         /\ PathOf("hash")            = Append(PathOf("file_v4"), "hash")
         /\ PathOf("piece_hash")      = Append(PathOf("pieces_v4"), "hash")
         /\ \A f \in FileText : PathOf(f) = Append(PathOf("file_v4"), f)
         /\ PathOf("generator_v4")    = Append(PathOf("metalink_v4"), "generator")
         /\ PathOf("origin_v4")       = Append(PathOf("metalink_v4"), "origin")
         /\ PathOf("published_v4")    = Append(PathOf("metalink_v4"), "published")
         /\ PathOf("updated_v4")      = Append(PathOf("metalink_v4"), "updated")
         /\ PathOf("description_v4")  = Append(PathOf("file_v4"), "description")
         /\ PathOf("copyright_v4")    = Append(PathOf("file_v4"), "copyright")
         /\ PathOf("identity_v4")     = Append(PathOf("file_v4"), "identity")
         /\ PathOf("logo_v4")         = Append(PathOf("file_v4"), "logo")
         /\ PathOf("signature_v4")    = Append(PathOf("file_v4"), "signature")
         /\ PathOf("metaurl_v4")      = Append(PathOf("file_v4"), "metaurl")
         /\ PathOf("metalink_v4")     = <<"metalink">>
         /\ PathOf("file_v4")         = <<"metalink", "file">>
  <1>1. /\ PathOf("initial")         = <<>>
        /\ PathOf("fin")             = <<>>
        /\ PathOf("metalink_v4")     = <<"metalink">>
        /\ PathOf("file_v4")         = FilePath
        /\ PathOf("pieces_v4")       = Append(FilePath, "pieces")
        /\ PathOf("url")             = Append(FilePath, "url")
        /\ PathOf("hash")            = Append(FilePath, "hash")
        /\ PathOf("piece_hash")      = FilePath \o <<"pieces", "hash">>
        /\ \A f \in FileText : PathOf(f) = Append(FilePath, f)
    BY DEF PathOf, FileText
  <1>2. /\ PathOf("generator_v4")    = <<"metalink", "generator">>
        /\ PathOf("origin_v4")       = <<"metalink", "origin">>
        /\ PathOf("published_v4")    = <<"metalink", "published">>
        /\ PathOf("updated_v4")      = <<"metalink", "updated">>
        /\ PathOf("description_v4")  = Append(FilePath, "description")
        /\ PathOf("copyright_v4")    = Append(FilePath, "copyright")
        /\ PathOf("identity_v4")     = Append(FilePath, "identity")
        /\ PathOf("logo_v4")         = Append(FilePath, "logo")
        /\ PathOf("signature_v4")    = Append(FilePath, "signature")
        /\ PathOf("metaurl_v4")      = Append(FilePath, "metaurl")
    BY DEF PathOf, FileText
  <1>3. /\ FilePath = Append(<<"metalink">>, "file")
        /\ FilePath = <<"metalink", "file">>
        /\ FilePath \in Seq(Labels)
    BY FilePathV4
  <1>4. FilePath \o <<"pieces", "hash">> = Append(Append(FilePath, "pieces"), "hash")
    BY <1>3, TwoMore
  <1>5. /\ <<"metalink">> = Append(<<>>, "metalink")
        /\ <<"metalink", "generator">> = Append(<<"metalink">>, "generator")
        /\ <<"metalink", "origin">> = Append(<<"metalink">>, "origin")
        /\ <<"metalink", "published">> = Append(<<"metalink">>, "published")
        /\ <<"metalink", "updated">> = Append(<<"metalink">>, "updated")
    BY Tuple1, Tuple2, SomeLabels, Zenon
  <1> QED
    BY <1>1, <1>2, <1>3, <1>4, <1>5, Zenon

\* The element a state stands for.
Tag(f) ==
  CASE f \in {"metalink_v3", "metalink_v4"} -> "metalink"
    [] f = "files_v3"                       -> "files"
    [] f \in {"file_v3", "file_v4"}         -> "file"
    [] f = "resources_v3"                   -> "resources"
    [] f = "verification_v3"                -> "verification"
    [] f \in {"pieces_v3", "pieces_v4"}     -> "pieces"
    [] f = "piece_hash"                     -> "hash"
    [] f \in {"identity_v3", "identity_v4"} -> "identity"
    [] f = "tags_v3"                        -> "tags"
    [] f = "generator_v4"                   -> "generator"
    [] f = "origin_v4"                      -> "origin"
    [] f = "published_v4"                   -> "published"
    [] f = "updated_v4"                     -> "updated"
    [] f = "description_v4"                 -> "description"
    [] f = "copyright_v4"                   -> "copyright"
    [] f = "logo_v4"                        -> "logo"
    [] f = "metaurl_v4"                     -> "metaurl"
    [] f = "signature_v4"                   -> "signature"
    [] OTHER                                -> f

\* State s stands for an element inside that of state p, in version v.
Below(p, s, v) ==
  \/ p = "initial" /\ s = IF v = "v3" THEN "metalink_v3" ELSE "metalink_v4"
  \/ NsOf(p) = v /\ \E c \in Plain : c[1] = p /\ c[3] = s
  \/ NsOf(p) = v /\ \E c \in Opening : c.in = p /\ c.to = s

\* Its path extends that of p as the format allows.
Extends(p, s) ==
  /\ PathOf(s) = Append(PathOf(p), Tag(s))
  /\ PathOf(p) \in Seq(Labels)
  /\ Tag(s) \in Labels
  /\ <<PathOf(p), Tag(s)>> \in AllNesting

LEMMA PathTypeV3 ==
  ASSUME version = "v3"
  PROVE  \A f \in ContainerV3 \cup {"initial"} : PathOf(f) \in Seq(Labels)
  <1>1. PathOf("initial") \in Seq(Labels)
    BY PathsV3, EmptySeq
  <1>2. PathOf("metalink_v3") \in Seq(Labels)
    BY PathsV3, Tuple1, SomeLabels
  <1>3. PathOf("files_v3") \in Seq(Labels)
    BY PathsV3, <1>2, Longer, SomeLabels, Zenon
  <1>4. PathOf("file_v3") \in Seq(Labels)
    BY PathsV3, <1>3, Longer, SomeLabels, Zenon
  <1>5. PathOf("resources_v3") \in Seq(Labels)
    BY PathsV3, <1>4, Longer, SomeLabels, Zenon
  <1>6. PathOf("verification_v3") \in Seq(Labels)
    BY PathsV3, <1>4, Longer, SomeLabels, Zenon
  <1>7. PathOf("pieces_v3") \in Seq(Labels)
    BY PathsV3, <1>6, Longer, SomeLabels, Zenon
  <1> QED
    BY <1>1, <1>2, <1>3, <1>4, <1>5, <1>6, <1>7 DEF ContainerV3

LEMMA PathTypeV4 ==
  ASSUME version = "v4"
  PROVE  \A f \in ContainerV4 \cup {"initial"} : PathOf(f) \in Seq(Labels)
  <1>1. PathOf("initial") \in Seq(Labels)
    BY PathsV4, EmptySeq
  <1>2. PathOf("metalink_v4") \in Seq(Labels)
    BY PathsV4, Tuple1, SomeLabels
  <1>3. PathOf("file_v4") \in Seq(Labels)
    BY PathsV4, <1>2, Longer, SomeLabels, Zenon
  <1>4. PathOf("pieces_v4") \in Seq(Labels)
    BY PathsV4, <1>3, Longer, SomeLabels, Zenon
  <1> QED
    BY <1>1, <1>2, <1>3, <1>4 DEF ContainerV4

LEMMA PlainBelowV3 ==
  ASSUME version = "v3", NEW c \in Plain, NsOf(c[1]) = "v3"
  PROVE  Extends(c[1], c[3])
  <1>0. Tag(c[3]) = c[2]
    BY DEF Plain, Tag
  <1>1. PathOf(c[3]) = Append(PathOf(c[1]), c[2])
    BY PathsV3 DEF Plain, NsOf, ContainerV3, FileText
  <1>2. c[1] \in ContainerV3 /\ c[2] \in Labels
    BY DEF Plain, NsOf, ContainerV3, Labels
  <1>3. <<PathOf(c[1]), c[2]>> \in AllNesting
    BY PathsV3 DEF Plain, NsOf, ContainerV3, AllNesting, NestingOf, Sub
  <1> QED
    BY <1>0, <1>1, <1>2, <1>3, PathTypeV3 DEF Extends

LEMMA PlainBelowV4 ==
  ASSUME version = "v4", NEW c \in Plain, NsOf(c[1]) = "v4"
  PROVE  Extends(c[1], c[3])
  <1>0. Tag(c[3]) = c[2]
    BY DEF Plain, Tag
  <1>1. PathOf(c[3]) = Append(PathOf(c[1]), c[2])
    BY PathsV4 DEF Plain, NsOf, ContainerV3, FileText
  <1>2. c[1] \in ContainerV4 /\ c[2] \in Labels
    BY DEF Plain, NsOf, ContainerV3, ContainerV4, Labels
  <1>3. <<PathOf(c[1]), c[2]>> \in AllNesting
    BY PathsV4 DEF Plain, NsOf, ContainerV3, AllNesting, NestingOf, Sub
  <1> QED
    BY <1>0, <1>1, <1>2, <1>3, PathTypeV4 DEF Extends

LEMMA NestedV3 ==
  ASSUME version = "v3"
  PROVE  /\ <<PathOf("files_v3"), "file">> \in AllNesting
         /\ <<PathOf("resources_v3"), "url">> \in AllNesting
         /\ <<PathOf("verification_v3"), "hash">> \in AllNesting
         /\ <<PathOf("verification_v3"), "pieces">> \in AllNesting
         /\ <<PathOf("pieces_v3"), "hash">> \in AllNesting
  <1>1. NestingOf("v3") \subseteq AllNesting
    BY DEF AllNesting
  <1> DEFINE file == <<"metalink", "files", "file">>
  <1>2. /\ <<<<"metalink", "files">>, "file">> \in NestingOf("v3")
        /\ <<Append(file, "resources"), "url">> \in NestingOf("v3")
    BY Zenon DEF NestingOf, Sub
  <1>3. /\ <<Append(file, "verification"), "hash">> \in NestingOf("v3")
        /\ <<Append(file, "verification"), "pieces">> \in NestingOf("v3")
        /\ <<Append(Append(file, "verification"), "pieces"), "hash">> \in NestingOf("v3")
    BY Zenon DEF NestingOf, Sub
  <1> QED
    BY <1>1, <1>2, <1>3, PathsV3

LEMMA OpeningBelowV3 ==
  ASSUME version = "v3", NEW c \in Opening, NsOf(c.in) = "v3"
  PROVE  Extends(c.in, c.to)
  <1>0. \/ c.in = "files_v3" /\ c.to = "file_v3"
        \/ c.in = "resources_v3" /\ c.to = "url"
        \/ c.in = "verification_v3" /\ c.to \in {"hash", "pieces_v3"}
        \/ c.in = "pieces_v3" /\ c.to = "piece_hash"
    BY DEF Opening, NsOf, ContainerV3
  <1>1. PathOf(c.to) = Append(PathOf(c.in), Tag(c.to))
    BY <1>0, PathsV3 DEF Tag
  <1>2. c.in \in ContainerV3 /\ Tag(c.to) \in Labels
    BY DEF Opening, NsOf, ContainerV3, ContainerV4, Labels, Tag
  <1>3. <<PathOf(c.in), Tag(c.to)>> \in AllNesting
    BY NestedV3 DEF Opening, NsOf, ContainerV3, Tag
  <1> QED
    BY <1>1, <1>2, <1>3, PathTypeV3 DEF Extends

LEMMA InitialBelowV3 ==
  ASSUME version = "v3"
  PROVE  Extends("initial", "metalink_v3")
  <1>1. <<<<>>, "metalink">> \in AllNesting
    BY DEF AllNesting, Sub
  <1> QED
    BY <1>1, PathsV3, EmptySeq, SomeLabels DEF Extends, Tag

LEMMA NestedV4 ==
  ASSUME version = "v4"
  PROVE  /\ <<PathOf("metalink_v4"), "file">> \in AllNesting
         /\ \A n \in {"url", "metaurl", "hash", "pieces", "signature"} :
              <<PathOf("file_v4"), n>> \in AllNesting
         /\ <<PathOf("pieces_v4"), "hash">> \in AllNesting
  <1>1. NestingOf("v4") \subseteq AllNesting
    BY DEF AllNesting
  <1> DEFINE file == <<"metalink", "file">>
  <1>2. <<<<"metalink">>, "file">> \in NestingOf("v4")
    BY Zenon DEF NestingOf, Sub
  <1>3. \A n \in {"url", "metaurl", "hash", "pieces", "signature"} :
          <<file, n>> \in NestingOf("v4")
    BY Zenon DEF NestingOf, Sub
  <1>4. <<Append(file, "pieces"), "hash">> \in NestingOf("v4")
    BY Zenon DEF NestingOf, Sub
  <1> QED
    BY <1>1, <1>2, <1>3, <1>4, PathsV4

LEMMA OpeningBelowV4 ==
  ASSUME version = "v4", NEW c \in Opening, NsOf(c.in) = "v4"
  PROVE  Extends(c.in, c.to)
  <1>1. PathOf(c.to) = Append(PathOf(c.in), Tag(c.to))
    BY PathsV4 DEF Opening, NsOf, ContainerV3, Tag
  <1>2. c.in \in ContainerV4 /\ Tag(c.to) \in Labels
    BY DEF Opening, NsOf, ContainerV3, ContainerV4, Labels, Tag
  <1>3. <<PathOf(c.in), Tag(c.to)>> \in AllNesting
    BY NestedV4 DEF Opening, NsOf, ContainerV3, Tag
  <1> QED
    BY <1>1, <1>2, <1>3, PathTypeV4 DEF Extends

LEMMA InitialBelowV4 ==
  ASSUME version = "v4"
  PROVE  Extends("initial", "metalink_v4")
  <1>1. <<<<>>, "metalink">> \in AllNesting
    BY DEF AllNesting, Sub
  <1> QED
    BY <1>1, PathsV4, EmptySeq, SomeLabels DEF Extends, Tag

LEMMA BelowExtends ==
  ASSUME version \in {"v3", "v4"}, NEW p, NEW s, Below(p, s, version)
  PROVE  Extends(p, s)
  <1>1. CASE version = "v3"
    BY <1>1, PlainBelowV3, OpeningBelowV3, InitialBelowV3 DEF Below
  <1>2. CASE version = "v4"
    BY <1>2, PlainBelowV4, OpeningBelowV4, InitialBelowV4 DEF Below
  <1> QED
    BY <1>1, <1>2

\* The version whose documents have the elements of a state.
Home(f, v) ==
  /\ f \in Container => NsOf(f) = v
  /\ f \in {"identity_v3", "tags_v3"} => v = "v3"
  /\ f \in OwnText \ {"identity_v3", "tags_v3"} => v = "v4"

\* Where the end handlers of text elements return to.
Parent(f, v) == IF f \in OwnText THEN OwnReturn(f) ELSE SharedReturn(f, v)

LEMMA ParentAbove ==
  ASSUME NEW f \in Text, NEW v \in {"v3", "v4"}, Home(f, v)
  PROVE  Parent(f, v) \in Container /\ Below(Parent(f, v), f, v)
  <1>1. CASE f \in OwnText \ {"metaurl_v4", "signature_v4"}
    <2>1. OwnReturn(f) \in Container /\ NsOf(OwnReturn(f)) = v
      BY <1>1 DEF Home, OwnText, OwnReturn, Container, ContainerV3, ContainerV4, NsOf
    <2>2. <<OwnReturn(f), Tag(f), f>> \in Plain
      BY <1>1 DEF OwnText, OwnReturn, Tag, Plain
    <2> QED
      BY <1>1, <2>1, <2>2 DEF Parent, Below
  <1>2. CASE f \in FileText
    <2>1. f \notin OwnText
      BY <1>2 DEF FileText, OwnText
    <2>2. SharedReturn(f, v) \in Container /\ NsOf(SharedReturn(f, v)) = v
      BY <1>2 DEF SharedReturn, Container, ContainerV3, ContainerV4, NsOf
    <2>3. <<SharedReturn(f, v), f, f>> \in Plain
      BY <1>2 DEF SharedReturn, FileText, Plain
    <2> QED
      BY <2>1, <2>2, <2>3 DEF Parent, Below
  <1>3. CASE f \in ItemText
    <2>1. Parent(f, v) \in Container /\ NsOf(Parent(f, v)) = v
      BY <1>3 DEF Parent, Home, ItemText, OwnText, OwnReturn, SharedReturn, FileText,
         Container, ContainerV3, ContainerV4, NsOf
    <2>2. \E c \in Opening : c.in = Parent(f, v) /\ c.to = f
      <3>1. CASE f = "url"
        BY <3>1 DEF Parent, OwnText, SharedReturn, FileText, Opening
      <3>2. CASE f = "hash"
        BY <3>2 DEF Parent, OwnText, SharedReturn, FileText, Opening
      <3>3. CASE f = "piece_hash"
        BY <3>3 DEF Parent, OwnText, SharedReturn, FileText, Opening
      <3>4. CASE f \in {"metaurl_v4", "signature_v4"}
        BY <3>4 DEF Parent, OwnText, OwnReturn, Opening
      <3> QED
        BY <1>3, <3>1, <3>2, <3>3, <3>4 DEF ItemText
    <2> QED
      BY <2>1, <2>2 DEF Below
  <1> QED
    BY <1>1, <1>2, <1>3 DEF Text, SharedText, FileText, ItemText

LEMMA BelowHome ==
  ASSUME NEW p \in Container, NEW s, NEW v \in {"v3", "v4"}, Below(p, s, v)
  PROVE  s \in Text \cup Container /\ Home(s, v)
  <1>1. p # "initial"
    BY TextStates
  <1>2. ASSUME NEW c \in Plain, c[1] = p, c[3] = s, NsOf(p) = v
        PROVE  s \in Text \cup Container /\ Home(s, v)
    BY <1>2 DEF Plain, Home, NsOf, Text, SharedText, OwnText, Container, ContainerV3, ContainerV4
  <1>3. ASSUME NEW c \in Opening, c.in = p, c.to = s, NsOf(p) = v
        PROVE  s \in Text \cup Container /\ Home(s, v)
    BY <1>3 DEF Opening, Home, NsOf, Text, SharedText, OwnText, Container, ContainerV3, ContainerV4
  <1> QED
    BY <1>1, <1>2, <1>3 DEF Below

\* The containers and what is above them.
LEMMA ContainersBelow ==
  /\ Below("initial", "metalink_v3", "v3")
  /\ Below("initial", "metalink_v4", "v4")
  /\ Below("metalink_v3", "files_v3", "v3")
  /\ Below("files_v3", "file_v3", "v3")
  /\ Below("metalink_v4", "file_v4", "v4")
  /\ Below("file_v3", "resources_v3", "v3")
  /\ Below("file_v3", "verification_v3", "v3")
  /\ Below("verification_v3", "pieces_v3", "v3")
  /\ Below("file_v4", "pieces_v4", "v4")
  <1>1. /\ <<"metalink_v3", "files", "files_v3">> \in Plain
        /\ <<"file_v3", "resources", "resources_v3">> \in Plain
        /\ <<"file_v3", "verification", "verification_v3">> \in Plain
    BY DEF Plain
  <1>2. /\ \E c \in Opening : c.in = "files_v3" /\ c.to = "file_v3"
        /\ \E c \in Opening : c.in = "metalink_v4" /\ c.to = "file_v4"
    BY DEF Opening
  <1>3. /\ \E c \in Opening : c.in = "verification_v3" /\ c.to = "pieces_v3"
        /\ \E c \in Opening : c.in = "file_v4" /\ c.to = "pieces_v4"
    BY DEF Opening
  <1> QED
    BY <1>1, <1>2, <1>3 DEF Below, NsOf, ContainerV3

-----------------------------------------------------------------------------
(***************************************************************************)
(* The invariant.                                                          *)
(***************************************************************************)
\* What holds of the document while state h is in charge.
At(h) ==
  /\ depth = Len(PathOf(h)) + skip_depth
  /\ h \in Text \cup Container => version \in {"v3", "v4"} /\ Home(h, version)
  /\ h \in Text => ns_uri = version
  /\ h = "fin" => rootDone

Placed ==
  /\ fun = "skip" => before_fun \notin {"null", "fin"}
  /\ run = "parsing" /\ Here # "null" => At(Here)

AbstractStep == [Abstract!Next]_Abstract!vars

LEMMA PathKept ==
  ASSUME version' = version
  PROVE  \A s : PathOf(s)' = PathOf(s)
  BY DEF PathOf, FilePath

LEMMA PathOfNone ==
  PathOf("null") = <<>> /\ PathOf("initial") = <<>> /\ PathOf("fin") = <<>>
  BY DEF PathOf, FileText

\* An element that is recognised.
LEMMA Down ==
  ASSUME NEW p \in Container, fun = p, skip_depth = 0, At(p),
         NEW s, Below(p, s, version), Enter(s),
         run = "parsing", version' = version, depth' = depth + 1, ns_uri' = version
  PROVE  Placed' /\ AbstractStep
  <1>1. version \in {"v3", "v4"} /\ depth = Len(PathOf(p))
    BY DEF At
  <1>2. s \in Text \cup Container /\ Home(s, version)
    BY <1>1, BelowHome
  <1>3. Extends(p, s)
    BY <1>1, BelowExtends
  <1>4. Len(PathOf(s)) = Len(PathOf(p)) + 1 /\ Len(PathOf(p)) \in Nat
    BY <1>3, Longer DEF Extends
  <1>5. /\ p \notin {"skip", "null"}
        /\ s \notin {"skip", "null", "fin"}
    BY <1>2, TextStates
  <1>6. PathOf(s)' = PathOf(s)
    BY PathKept
  <1>7. fun' = s /\ skip_depth' = 0 /\ run' = "parsing"
    BY DEF Enter
  <1>8. At(s)'
    BY <1>1, <1>2, <1>4, <1>5, <1>6, <1>7 DEF At, Home
  <1>9. Placed'
    BY <1>5, <1>7, <1>8 DEF Placed, Here
  <1>10. Abstract!Recognise
    <2>1. Here = p /\ Here' = s
      BY <1>5, <1>7 DEF Here
    <2>2. PathOf(Here) = PathOf(p) /\ PathOf(Here)' = PathOf(s)
      BY <2>1, <1>6 DEF PathOf
    <2> QED
      BY <1>3, <1>5, <1>7, <2>1, <2>2 DEF Abstract!Recognise, Extends
  <1> QED
    BY <1>9, <1>10 DEF AbstractStep, Abstract!Next

\* The state changes to h and nothing is skipped.
Goes(h) == fun' = h /\ UNCHANGED <<before_fun, skip_depth, run>>

\* The end tag of a recognised element.
LEMMA Up ==
  ASSUME NEW s \in Text \cup Container, fun = s, skip_depth = 0, At(s),
         NEW p, Below(p, s, version),
         NEW h \in Container \cup {"fin"}, Goes(h), PathOf(h) = PathOf(p),
         Home(h, version), h = "fin" => rootDone',
         run = "parsing", version' = version, depth' = depth - 1
  PROVE  Placed' /\ AbstractStep
  <1>1. version \in {"v3", "v4"} /\ depth = Len(PathOf(s))
    BY DEF At
  <1>2. Extends(p, s)
    BY <1>1, BelowExtends
  <1>3. /\ Len(PathOf(s)) = Len(PathOf(h)) + 1
        /\ Len(PathOf(h)) \in Nat
        /\ PathOf(s) # <<>>
        /\ Abstract!Front(PathOf(s)) = PathOf(h)
    BY <1>2, Longer DEF Extends
  <1>4. s \notin {"skip", "null"} /\ h \notin {"skip", "null"} /\ h \notin Text
    BY TextStates
  <1>5. PathOf(h)' = PathOf(h)
    BY PathKept
  <1>6. fun' = h /\ skip_depth' = 0 /\ run' = "parsing"
    BY DEF Goes
  <1>7. At(h)'
    BY <1>1, <1>3, <1>4, <1>5, <1>6 DEF At, Home
  <1>8. Placed'
    BY <1>4, <1>6, <1>7 DEF Placed, Here
  <1>9. Abstract!Close
    <2>1. Here = s /\ Here' = h
      BY <1>4, <1>6 DEF Here
    <2>2. PathOf(Here) = PathOf(s) /\ PathOf(Here)' = PathOf(h)
      BY <2>1, <1>5 DEF PathOf
    <2> QED
      BY <1>3, <1>4, <1>6, <2>1, <2>2 DEF Abstract!Close
  <1> QED
    BY <1>8, <1>9 DEF AbstractStep, Abstract!Next

\* An element that is skipped.
LEMMA IntoSkip ==
  ASSUME NEW s \in Text \cup Container \cup {"initial"}, fun = s, skip_depth = 0, At(s),
         EnterSkip, s \in Text => ns_uri' = version,
         run = "parsing", version' = version, depth' = depth + 1, depth \in Nat
  PROVE  Placed' /\ AbstractStep
  <1>1. s \notin {"skip", "null", "fin"}
    BY TextStates
  <1>2. PathOf(s)' = PathOf(s)
    BY PathKept
  <1>3. fun' = "skip" /\ before_fun' = s /\ skip_depth' = 1 /\ run' = "parsing"
    BY DEF EnterSkip
  <1>4. At(s)'
    <2>1. depth' = Len(PathOf(s)') + skip_depth'
      BY <1>2, <1>3 DEF At
    <2> QED
      BY <1>1, <2>1 DEF At, Home
  <1>5. Placed'
    BY <1>1, <1>3, <1>4 DEF Placed, Here
  <1>6. Abstract!Ignore
    <2>1. Here = s /\ Here' = s
      BY <1>1, <1>3 DEF Here
    <2>2. PathOf(Here) = PathOf(s) /\ PathOf(Here)' = PathOf(s)
      BY <2>1, <1>2 DEF PathOf
    <2> QED
      BY <1>1, <1>3, <2>1, <2>2 DEF Abstract!Ignore
  <1> QED
    BY <1>5, <1>6 DEF AbstractStep, Abstract!Next

LEMMA FailStep ==
  ASSUME NEW e, ErrorHandler(e), version' = version
  PROVE  Placed' /\ AbstractStep
  <1>1. fun' = "null"
    BY DEF ErrorHandler
  <1>2. Here' = "null"
    BY <1>1 DEF Here
  <1>3. Placed'
    BY <1>1, <1>2 DEF Placed
  <1>4. PathOf(Here)' = <<>>
    BY <1>2 DEF PathOf, FileText
  <1>5. Abstract!Fail
    BY <1>1, <1>2, <1>4 DEF Abstract!Fail
  <1> QED
    BY <1>3, <1>5 DEF AbstractStep, Abstract!Next

\* The states, and so the path, stay as they are.
LEMMA SamePlace ==
  ASSUME UNCHANGED stateVars, version' = version
  PROVE  AbstractStep
  <1>1. Here' = Here
    BY DEF Here, stateVars
  <1>2. PathOf(Here)' = PathOf(Here)
    BY <1>1 DEF PathOf, FilePath
  <1> QED
    BY <1>1, <1>2 DEF AbstractStep, Abstract!vars, stateVars

LEMMA StopStep ==
  ASSUME Placed, NEW how \in {"aborted", "crashed"}, Stop(how), version' = version
  PROVE  Placed' /\ AbstractStep
  <1>1. UNCHANGED stateVars /\ run' # "parsing"
    BY DEF Stop
  <1>2. Placed'
    BY <1>1 DEF Placed, stateVars
  <1> QED
    BY <1>1, <1>2, SamePlace

LEMMA StayFailed ==
  ASSUME Placed, fun = "null", Stay, version' = version
  PROVE  Placed' /\ AbstractStep
  <1>1. UNCHANGED stateVars
    BY DEF Stay
  <1>2. Placed'
    BY <1>1 DEF Placed, Here, stateVars
  <1> QED
    BY <1>1, <1>2, SamePlace

-----------------------------------------------------------------------------
(***************************************************************************)
(* Start tags.                                                             *)
(***************************************************************************)
LEMMA AtHere ==
  ASSUME TypeOK, Placed, run = "parsing", fun \notin {"skip", "null"}
  PROVE  At(fun) /\ skip_depth = 0
  <1>1. skip_depth = 0
    BY DEF TypeOK, HandlerTypeOK
  <1> QED
    BY <1>1 DEF Placed, Here

LEMMA StartIgnoredPlaced ==
  ASSUME TypeOK, Placed, NEW ns \in Ns, StartIgnored(ns)
  PROVE  Placed' /\ AbstractStep
  <1>1. fun = "null"
    <2>1. run = "parsing" /\ ~rootDone /\ fun \in {"null", "fin"}
      BY DEF StartIgnored, StartElement
    <2> QED
      BY <2>1, AtHere DEF At
  <1> QED
    BY <1>1, StayFailed DEF StartIgnored

LEMMA StartInSkipPlaced ==
  ASSUME TypeOK, Placed, ~ForeignInText, NEW ns \in Ns, StartInSkip(ns)
  PROVE  Placed' /\ AbstractStep
  <1>1. /\ fun = "skip" /\ run = "parsing" /\ before_fun # "null"
        /\ fun' = "skip" /\ run' = "parsing" /\ before_fun' = before_fun
        /\ depth' = depth + 1 /\ skip_depth' = skip_depth + 1
        /\ ns_uri' = ns /\ version' = version
        /\ before_fun \in Text => ns = version
    BY DEF StartInSkip, StartElement, Placed, InsideText
  <1>2. At(before_fun) /\ depth \in Nat /\ skip_depth \in Nat
    BY <1>1 DEF Placed, Here, TypeOK, HandlerTypeOK, DocumentTypeOK
  <1>3. PICK h : h = before_fun
    OBVIOUS
  <1>4. PathOf(h)' = PathOf(h)
    BY <1>1, PathKept
  <1>5. before_fun # "fin"
    BY <1>1, <1>2 DEF At, StartInSkip, StartElement
  <1>6. At(h)'
    <2>1. Len(PathOf(h)) + skip_depth = depth
      BY <1>2, <1>3 DEF At
    <2>2. Len(PathOf(h)) + (skip_depth + 1) = depth + 1
      BY <2>1, <1>2
    <2> QED
      BY <1>1, <1>2, <1>3, <1>4, <1>5, <2>2 DEF At, Home
  <1>7. Here = h /\ Here' = h
    BY <1>1, <1>3 DEF Here
  <1>8. Placed'
    BY <1>1, <1>6, <1>7 DEF Placed
  <1>9. Abstract!Ignore
    <2>1. PathOf(Here) = PathOf(h) /\ PathOf(Here)' = PathOf(h)
      BY <1>7, <1>4 DEF PathOf
    <2> QED
      BY <1>1, <1>3, <1>7, <2>1 DEF Abstract!Ignore
  <1> QED
    BY <1>8, <1>9 DEF AbstractStep, Abstract!Next

LEMMA StartMetalinkPlaced ==
  ASSUME TypeOK, Placed, NEW ns \in Ns, StartMetalink(ns)
  PROVE  Placed' /\ AbstractStep
  <1>0. PICK h \in {"metalink_v3", "metalink_v4"} :
          h = IF ns = "v3" THEN "metalink_v3" ELSE "metalink_v4"
    OBVIOUS
  <1>1. /\ fun = "initial" /\ run = "parsing" /\ ns \in {"v3", "v4"}
        /\ Enter(h) /\ version' = ns /\ ns_uri' = ns /\ depth' = depth + 1
    BY <1>0 DEF StartMetalink, StartElement
  <1>2. /\ fun' = h /\ run' = "parsing" /\ skip_depth' = 0 /\ skip_depth = 0
        /\ At("initial")
    BY <1>1, AtHere DEF Enter
  <1>3. PathOf("initial") = <<>> /\ PathOf(h)' = <<"metalink">>
    <2>1. PathOf(h)' = <<"metalink">>
      BY DEF PathOf, FileText
    <2> QED
      BY <2>1, PathOfNone
  <1>4. /\ depth = 0
        /\ <<"metalink">> = Append(<<>>, "metalink")
        /\ Len(<<"metalink">>) = 1
    BY <1>2, <1>3, SomeLabels, Tuple1 DEF At
  <1>5. /\ h \in Container /\ h \notin Text /\ h \notin {"skip", "null", "fin"}
        /\ NsOf(h) = ns
        /\ h \notin OwnText
    BY <1>0, <1>1, TextStates DEF Container, ContainerV3, ContainerV4, NsOf, Text
  <1>6. At(h)'
    BY <1>1, <1>2, <1>3, <1>4, <1>5 DEF At, Home, OwnText
  <1>7. Placed'
    BY <1>2, <1>5, <1>6 DEF Placed, Here
  <1>8. Abstract!Recognise
    <2>1. Here = "initial" /\ Here' = h
      BY <1>1, <1>2, <1>5 DEF Here
    <2>2. PathOf(Here) = <<>> /\ PathOf(Here)' = <<"metalink">>
      BY <2>1, <1>3 DEF PathOf
    <2>3. <<<<>>, "metalink">> \in AllNesting
      BY DEF AllNesting, Sub
    <2> QED
      BY <1>1, <1>2, <1>4, <1>5, <2>1, <2>2, <2>3 DEF Abstract!Recognise
  <1> QED
    BY <1>7, <1>8 DEF AbstractStep, Abstract!Next

LEMMA StartSkippedPlaced ==
  ASSUME TypeOK, Placed, ~ForeignInText, NEW ns \in Ns, StartSkipped(ns)
  PROVE  Placed' /\ AbstractStep
  <1>1. /\ fun \in Text \cup Container \cup {"initial"} /\ run = "parsing"
        /\ depth' = depth + 1 /\ version' = version /\ EnterSkip
        /\ fun \in Text => ns_uri' = version
    BY DEF StartSkipped, StartElement, InsideText
  <1>2. At(fun) /\ skip_depth = 0 /\ depth \in Nat
    BY <1>1, AtHere, TextStates DEF TypeOK, DocumentTypeOK
  <1> QED
    BY <1>1, <1>2, IntoSkip

LEMMA StartPlainPlaced ==
  ASSUME TypeOK, Placed, NEW c \in Plain, StartPlain(c)
  PROVE  Placed' /\ AbstractStep
  <1>1. /\ fun = c[1] /\ run = "parsing" /\ version' = version
        /\ depth' = depth + 1 /\ ns_uri' = NsOf(fun)
    BY DEF StartPlain, StartElement
  <1>2. c[1] \in Container
    BY PlainTable
  <1>3. CASE Stop("crashed")
    BY <1>1, <1>3, StopStep
  <1>4. CASE Enter(c[3])
    <2>1. At(fun) /\ skip_depth = 0
      BY <1>1, <1>2, AtHere, TextStates
    <2>2. NsOf(c[1]) = version
      BY <1>1, <1>2, <2>1 DEF At, Home
    <2>3. Below(c[1], c[3], version)
      BY <2>2 DEF Below
    <2> QED
      BY <1>1, <1>2, <1>4, <2>1, <2>2, <2>3, Down
  <1> QED
    BY <1>3, <1>4 DEF StartPlain

LEMMA StartPublisherPlaced ==
  ASSUME TypeOK, Placed, StartPublisher
  PROVE  Placed' /\ AbstractStep
  <1>1. /\ fun = "file_v4" /\ run = "parsing" /\ version' = version
        /\ depth' = depth + 1
    BY DEF StartPublisher, StartElement
  <1>2. CASE Stop("crashed")
    BY <1>1, <1>2, StopStep
  <1>3. CASE ErrorHandler("bad_alloc")
    BY <1>1, <1>3, FailStep
  <1>4. CASE EnterSkip
    <2>1. fun \in Container /\ fun \notin Text
      BY <1>1, TextStates DEF Container, ContainerV4
    <2>2. At(fun) /\ skip_depth = 0 /\ depth \in Nat
      BY <1>1, AtHere DEF TypeOK, DocumentTypeOK
    <2> QED
      BY <1>1, <1>4, <2>1, <2>2, IntoSkip
  <1> QED
    BY <1>2, <1>3, <1>4 DEF StartPublisher

LEMMA StartTransactionPlaced ==
  ASSUME TypeOK, Placed, NEW c \in Opening, StartTransaction(c)
  PROVE  Placed' /\ AbstractStep
  <1>1. /\ fun = c.in /\ run = "parsing" /\ version' = version
        /\ depth' = depth + 1 /\ ns_uri' = NsOf(fun)
        /\ Enter(c.to) \/ EnterSkip \/ ErrorHandler("bad_alloc")
    BY DEF StartTransaction, StartElement
  <1>2. c.in \in Container /\ c.in \notin Text
    BY OpeningTable, TextStates
  <1>3. At(fun) /\ skip_depth = 0 /\ depth \in Nat
    BY <1>1, <1>2, AtHere, TextStates DEF TypeOK, DocumentTypeOK
  <1>4. CASE ErrorHandler("bad_alloc")
    BY <1>1, <1>4, FailStep
  <1>5. CASE EnterSkip
    BY <1>1, <1>2, <1>3, <1>5, IntoSkip
  <1>6. CASE Enter(c.to)
    <2>1. NsOf(c.in) = version
      BY <1>1, <1>2, <1>3 DEF At, Home
    <2>2. Below(c.in, c.to, version)
      BY <2>1 DEF Below
    <2> QED
      BY <1>1, <1>2, <1>3, <1>6, <2>1, <2>2, Down
  <1> QED
    BY <1>1, <1>4, <1>5, <1>6

LEMMA StartPlaced ==
  ASSUME TypeOK, Placed, ~ForeignInText, Start
  PROVE  Placed' /\ AbstractStep
  BY StartIgnoredPlaced, StartInSkipPlaced, StartMetalinkPlaced, StartSkippedPlaced,
     StartPlainPlaced, StartPublisherPlaced, StartTransactionPlaced DEF Start

-----------------------------------------------------------------------------
(***************************************************************************)
(* End tags.                                                               *)
(***************************************************************************)
LEMMA EndIgnoredPlaced ==
  ASSUME TypeOK, Placed, EndIgnored
  PROVE  Placed' /\ AbstractStep
  <1>1. /\ fun \in {"null", "fin", "initial"} /\ run = "parsing" /\ depth > 0
        /\ Stay /\ version' = version
    BY DEF EndIgnored, EndElement
  <1>2. fun = "null"
    <2>1. ASSUME fun \in {"fin", "initial"}
          PROVE  FALSE
      <3>1. At(fun) /\ skip_depth = 0
        BY <1>1, <2>1, AtHere
      <3>2. PathOf(fun) = <<>>
        BY <2>1, PathOfNone
      <3> QED
        BY <1>1, <3>1, <3>2 DEF At
    <2> QED
      BY <1>1, <2>1
  <1> QED
    BY <1>1, <1>2, StayFailed

LEMMA EndInSkipPlaced ==
  ASSUME TypeOK, Placed, EndInSkip
  PROVE  Placed' /\ AbstractStep
  <1>1. /\ fun = "skip" /\ run = "parsing" /\ run' = "parsing"
        /\ depth' = depth - 1 /\ ns_uri' = ns_uri /\ version' = version
        /\ IF skip_depth = 1 THEN ExitSkip
           ELSE skip_depth' = skip_depth - 1 /\ UNCHANGED <<fun, before_fun>>
    BY DEF EndInSkip, EndElement, ExitSkip
  <1>2. PICK h : h = before_fun
    OBVIOUS
  <1>3. /\ h \notin {"skip", "null", "fin"}
        /\ skip_depth \in Nat /\ skip_depth > 0 /\ depth \in Nat
        /\ At(h)
    BY <1>1, <1>2 DEF Placed, Here, TypeOK, HandlerTypeOK, DocumentTypeOK
  <1>4. PathOf(h)' = PathOf(h)
    BY <1>1, PathKept
  <1>5. /\ Here = h /\ Here' = h
        /\ skip_depth' = skip_depth - 1
        /\ fun' = "skip" => before_fun' = h
        /\ IF fun' = "skip" THEN skip_depth' > 0 ELSE skip_depth' = 0
    BY <1>1, <1>2, <1>3 DEF Here, ExitSkip
  <1>6. At(h)'
    <2>1. depth = Len(PathOf(h)) + skip_depth
      BY <1>3 DEF At
    <2>2. depth - 1 = Len(PathOf(h)) + (skip_depth - 1)
      BY <2>1, <1>3
    <2> QED
      BY <1>1, <1>3, <1>4, <1>5, <2>2 DEF At, Home
  <1>7. Placed'
    BY <1>1, <1>3, <1>5, <1>6 DEF Placed
  <1>8. Abstract!CloseIgnored
    <2>1. PathOf(Here) = PathOf(h) /\ PathOf(Here)' = PathOf(h)
      BY <1>4, <1>5 DEF PathOf
    <2> QED
      BY <1>1, <1>3, <1>5, <2>1 DEF Abstract!CloseIgnored
  <1> QED
    BY <1>7, <1>8 DEF AbstractStep, Abstract!Next

LEMMA ContainerHome ==
  ASSUME NEW h \in Container, NEW s, NEW v, Below(h, s, v)
  PROVE  Home(h, v) /\ h # "fin"
  <1>1. h # "initial" /\ h # "fin" /\ h \notin Text
    BY TextStates
  <1>2. NsOf(h) = v
    BY <1>1 DEF Below
  <1>3. h \notin OwnText /\ h \notin {"identity_v3", "tags_v3"}
    BY <1>1 DEF Text, OwnText
  <1> QED
    BY <1>1, <1>2, <1>3 DEF Home

\* The end tag of a text element, whichever handler serves it.
LEMMA TextUp ==
  ASSUME TypeOK, Placed, run = "parsing", NEW s \in Text, fun = s,
         Goes(Parent(s, version)), version' = version, depth' = depth - 1
  PROVE  Placed' /\ AbstractStep
  <1>1. At(s) /\ skip_depth = 0
    BY AtHere, TextStates
  <1>2. version \in {"v3", "v4"} /\ Home(s, version)
    BY <1>1 DEF At
  <1>3. PICK h : h = Parent(s, version)
    OBVIOUS
  <1>4. h \in Container /\ Below(h, s, version)
    BY <1>2, <1>3, ParentAbove
  <1>5. Home(h, version) /\ h # "fin"
    BY <1>4, ContainerHome
  <1> QED
    BY <1>1, <1>3, <1>4, <1>5, Up

LEMMA ReturnPlaced ==
  ASSUME TypeOK, Placed, run = "parsing", NEW s \in Text, fun = s,
         Return, version' = version, depth' = depth - 1
  PROVE  Placed' /\ AbstractStep
  <1>1. version \in {"v3", "v4"} /\ ns_uri = version
    BY AtHere, TextStates DEF At
  <1>2. Enter(Parent(s, version))
    BY <1>1 DEF Return, Parent
  <1>3. Goes(Parent(s, version))
    BY <1>2 DEF Enter, Goes
  <1> QED
    BY <1>3, TextUp

LEMMA EndScalarPlaced ==
  ASSUME TypeOK, Placed, EndScalar
  PROVE  Placed' /\ AbstractStep
  <1>1. /\ fun \in Text /\ run = "parsing" /\ version' = version /\ depth' = depth - 1
        /\ Stop("crashed") \/ Return \/ ErrorHandler("bad_alloc")
    BY DEF EndScalar, EndElement
  <1> QED
    BY <1>1, StopStep, ReturnPlaced, FailStep

LEMMA EndVersionPlaced ==
  ASSUME TypeOK, Placed, EndVersion
  PROVE  Placed' /\ AbstractStep
  <1>1. /\ fun = "version" /\ run = "parsing" /\ version' = version /\ depth' = depth - 1
    BY DEF EndVersion, EndElement
  <1>2. "version" \in Text /\ "version" \notin OwnText
    BY DEF Text, SharedText, OwnText
  <1>3. version \in {"v3", "v4"} /\ ns_uri = version
    BY <1>1, <1>2, AtHere, TextStates DEF At
  <1>4. CASE Stop("crashed")
    BY <1>1, <1>4, StopStep
  <1>5. CASE Goes(Parent("version", version))
    BY <1>1, <1>2, <1>5, TextUp
  <1>6. Stop("crashed") \/ Goes(Parent("version", version))
    BY <1>1, <1>2, <1>3 DEF EndVersion, Goes, Parent
  <1> QED
    BY <1>4, <1>5, <1>6

LEMMA EndStringPlaced ==
  ASSUME TypeOK, Placed, EndString
  PROVE  Placed' /\ AbstractStep
  <1>1. /\ fun \in Text /\ run = "parsing" /\ version' = version /\ depth' = depth - 1
        /\ Return \/ ErrorHandler("bad_alloc")
    BY DEF EndString, EndElement, StringListOf, Text, SharedText
  <1> QED
    BY <1>1, ReturnPlaced, FailStep

LEMMA EndItemPlaced ==
  ASSUME TypeOK, Placed, EndItem
  PROVE  Placed' /\ AbstractStep
  <1>1. /\ fun \in Text /\ run = "parsing" /\ version' = version /\ depth' = depth - 1
        /\ Stop("crashed") \/ Return \/ ErrorHandler("bad_alloc")
    BY DEF EndItem, EndElement, CommitTarget, ItemText, Text, SharedText, OwnText
  <1> QED
    BY <1>1, StopStep, ReturnPlaced, FailStep

\* The end tag of a container.
LEMMA ContainerUp ==
  ASSUME TypeOK, Placed, run = "parsing", NEW s \in Container, fun = s,
         NEW h \in Container, Below(h, s, version), Enter(h),
         version' = version, depth' = depth - 1
  PROVE  Placed' /\ AbstractStep
  <1>1. At(s) /\ skip_depth = 0
    BY AtHere, TextStates
  <1>2. Home(h, version) /\ h # "fin"
    BY ContainerHome
  <1>3. Goes(h)
    BY DEF Enter, Goes
  <1> QED
    BY <1>1, <1>2, <1>3, Up

\* The end tag of the root.
LEMMA RootUp ==
  ASSUME TypeOK, Placed, run = "parsing", NEW s \in {"metalink_v3", "metalink_v4"},
         fun = s, Enter("fin"), EndElement
  PROVE  Placed' /\ AbstractStep
  <1>1. s \in Container
    BY DEF Container, ContainerV3, ContainerV4
  <1>2. At(s) /\ skip_depth = 0
    BY <1>1, AtHere, TextStates
  <1>3. version \in {"v3", "v4"} /\ Home(s, version)
    BY <1>1, <1>2 DEF At
  <1>4. Below("initial", s, version)
    BY <1>1, <1>3 DEF Home, NsOf, ContainerV3, Below
  <1>5. Extends("initial", s)
    BY <1>3, <1>4, BelowExtends
  <1>6. Len(PathOf(s)) = 1
    BY <1>5, PathOfNone, Longer DEF Extends
  <1>7. rootDone'
    <2>1. depth = 1
      BY <1>2, <1>6 DEF At
    <2> QED
      BY <2>1, Zenon DEF EndElement
  <1>8. Goes("fin") /\ Home("fin", version)
    BY TextStates DEF Enter, Goes, Home, Text
  <1> QED
    BY <1>1, <1>2, <1>4, <1>7, <1>8, PathOfNone, Up DEF EndElement

LEMMA HomeHere ==
  ASSUME TypeOK, Placed, run = "parsing", fun \in Container
  PROVE  version = NsOf(fun)
  BY AtHere, TextStates DEF At, Home

LEMMA EndFilesPlaced ==
  ASSUME TypeOK, Placed, EndFiles
  PROVE  Placed' /\ AbstractStep
  <1>1. /\ fun \in {"files_v3", "metalink_v4"} /\ run = "parsing"
        /\ version' = version /\ depth' = depth - 1 /\ EndElement
        /\ \/ Enter(IF fun = "files_v3" THEN "metalink_v3" ELSE "fin")
           \/ ErrorHandler("bad_alloc")
    BY DEF EndFiles, EndElement
  <1>2. CASE ErrorHandler("bad_alloc")
    BY <1>1, <1>2, FailStep
  <1>3. CASE fun = "metalink_v4" /\ Enter("fin")
    BY <1>1, <1>3, RootUp
  <1>4. CASE fun = "files_v3" /\ Enter("metalink_v3")
    <2>1. "files_v3" \in Container /\ "metalink_v3" \in Container
      BY DEF Container, ContainerV3
    <2>2. Below("metalink_v3", "files_v3", version)
      BY <1>1, <1>4, <2>1, HomeHere, ContainersBelow DEF NsOf, ContainerV3
    <2> QED
      BY <1>1, <1>4, <2>1, <2>2, ContainerUp
  <1> QED
    BY <1>1, <1>2, <1>3, <1>4

LEMMA EndFilePlaced ==
  ASSUME TypeOK, Placed, EndFile
  PROVE  Placed' /\ AbstractStep
  <1>1. /\ fun \in {"file_v3", "file_v4"} /\ run = "parsing"
        /\ version' = version /\ depth' = depth - 1
        /\ \/ Enter(IF fun = "file_v3" THEN "files_v3" ELSE "metalink_v4")
           \/ \E e \in Errors : ErrorHandler(e)
    BY DEF EndFile, EndElement, Errors
  <1>2. CASE \E e \in Errors : ErrorHandler(e)
    BY <1>1, <1>2, FailStep
  <1>3. CASE fun = "file_v3" /\ Enter("files_v3")
    <2>1. "file_v3" \in Container /\ "files_v3" \in Container
      BY DEF Container, ContainerV3
    <2>2. Below("files_v3", "file_v3", version)
      BY <1>1, <1>3, <2>1, HomeHere, ContainersBelow DEF NsOf, ContainerV3
    <2> QED
      BY <1>1, <1>3, <2>1, <2>2, ContainerUp
  <1>4. CASE fun = "file_v4" /\ Enter("metalink_v4")
    <2>1. "file_v4" \in Container /\ "metalink_v4" \in Container
      BY DEF Container, ContainerV4
    <2>2. Below("metalink_v4", "file_v4", version)
      BY <1>1, <1>4, <2>1, HomeHere, ContainersBelow DEF NsOf, ContainerV3
    <2> QED
      BY <1>1, <1>4, <2>1, <2>2, ContainerUp
  <1> QED
    BY <1>1, <1>2, <1>3, <1>4

LEMMA EndPiecesPlaced ==
  ASSUME TypeOK, Placed, EndPieces
  PROVE  Placed' /\ AbstractStep
  <1>1. /\ fun \in {"pieces_v3", "pieces_v4"} /\ run = "parsing"
        /\ version' = version /\ depth' = depth - 1
        /\ \/ Enter(IF fun = "pieces_v3" THEN "verification_v3" ELSE "file_v4")
           \/ \E e \in Errors : ErrorHandler(e)
    BY DEF EndPieces, EndElement, Errors
  <1>2. CASE \E e \in Errors : ErrorHandler(e)
    BY <1>1, <1>2, FailStep
  <1>3. CASE fun = "pieces_v3" /\ Enter("verification_v3")
    <2>1. "pieces_v3" \in Container /\ "verification_v3" \in Container
      BY DEF Container, ContainerV3
    <2>2. Below("verification_v3", "pieces_v3", version)
      BY <1>1, <1>3, <2>1, HomeHere, ContainersBelow DEF NsOf, ContainerV3
    <2> QED
      BY <1>1, <1>3, <2>1, <2>2, ContainerUp
  <1>4. CASE fun = "pieces_v4" /\ Enter("file_v4")
    <2>1. "pieces_v4" \in Container /\ "file_v4" \in Container
      BY DEF Container, ContainerV4
    <2>2. Below("file_v4", "pieces_v4", version)
      BY <1>1, <1>4, <2>1, HomeHere, ContainersBelow DEF NsOf, ContainerV3
    <2> QED
      BY <1>1, <1>4, <2>1, <2>2, ContainerUp
  <1> QED
    BY <1>1, <1>2, <1>3, <1>4

LEMMA EndPlainPlaced ==
  ASSUME TypeOK, Placed, EndPlain
  PROVE  Placed' /\ AbstractStep
  <1>1. /\ fun \in {"metalink_v3", "resources_v3", "verification_v3"} /\ run = "parsing"
        /\ version' = version /\ depth' = depth - 1 /\ EndElement
        /\ Enter(IF fun = "metalink_v3" THEN "fin" ELSE "file_v3")
    BY DEF EndPlain, EndElement
  <1>2. CASE fun = "metalink_v3"
    BY <1>1, <1>2, RootUp
  <1>3. CASE fun \in {"resources_v3", "verification_v3"}
    <2>1. fun \in Container /\ "file_v3" \in Container
      BY <1>3 DEF Container, ContainerV3
    <2>2. Below("file_v3", fun, version)
      BY <1>1, <1>3, <2>1, HomeHere, ContainersBelow DEF NsOf, ContainerV3
    <2> QED
      BY <1>1, <1>3, <2>1, <2>2, ContainerUp
  <1> QED
    BY <1>1, <1>2, <1>3

LEMMA EndPlaced ==
  ASSUME TypeOK, Placed, End
  PROVE  Placed' /\ AbstractStep
  BY EndIgnoredPlaced, EndInSkipPlaced, EndScalarPlaced, EndVersionPlaced,
     EndStringPlaced, EndItemPlaced, EndFilesPlaced, EndFilePlaced,
     EndPiecesPlaced, EndPlainPlaced DEF End

-----------------------------------------------------------------------------
(***************************************************************************)
(* Theorems.                                                               *)
(***************************************************************************)
LEMMA NextPlaced ==
  ASSUME TypeOK, Placed, ~ForeignInText, [Next]_vars
  PROVE  Placed' /\ AbstractStep
  <1>1. CASE Start
    BY <1>1, StartPlaced
  <1>2. CASE End
    BY <1>2, EndPlaced
  <1>3. ASSUME NEW ok \in BOOLEAN, Finish(ok)
        PROVE  Placed' /\ AbstractStep
    <2>1. UNCHANGED stateVars /\ version' = version /\ run' = "done"
      BY <1>3 DEF Finish
    <2>2. Placed'
      BY <2>1 DEF Placed, stateVars
    <2> QED
      BY <2>1, <2>2, SamePlace
  <1>4. CASE UNCHANGED <<stateVars, envVars, version, run>>
    <2>1. At(Here)' <=> At(Here)
      BY <1>4 DEF At, Here, PathOf, FilePath, Home, stateVars, envVars
    <2>2. Placed'
      BY <1>4, <2>1 DEF Placed, Here, stateVars
    <2> QED
      BY <1>4, <2>2, SamePlace
  <1>5. Delete \/ Terminated \/ UNCHANGED vars => UNCHANGED <<stateVars, envVars, version, run>>
    BY DEF Delete, Terminated, vars
  <1> QED
    BY <1>1, <1>2, <1>3, <1>4, <1>5 DEF Next

LEMMA InitPlaced ==
  ASSUME Init
  PROVE  Placed /\ Abstract!Init
  <1>1. fun = "initial" /\ Here = "initial" /\ skip_depth = 0 /\ depth = 0
    BY DEF Init, Here
  <1>2. PathOf("initial") = <<>>
    BY PathOfNone
  <1>3. At("initial")
    BY <1>1, <1>2, TextStates DEF At
  <1>4. PathOf(Here) = <<>>
    BY <1>1, <1>2 DEF PathOf
  <1> QED
    BY <1>1, <1>3, <1>4 DEF Placed, Abstract!Init

\* For documents of any size and depth whose text elements contain no element
\* of another namespace, the open elements are at every moment the path the
\* state stands for and those skip_depth counts: no end tag is taken for that
\* of another element.
THEOREM StaysInStep == ASSUME ~ForeignInText PROVE Spec => []InStep
  <1>1. Init => Placed
    BY InitPlaced
  <1>2. TypeOK /\ Placed /\ [Next]_vars => Placed'
    BY NextPlaced
  <1>3. Placed => InStep
    BY DEF Placed, InStep, At
  <1> QED
    BY <1>1, <1>2, <1>3, TypeCorrect, PTL DEF Spec

\* ... and the handlers implement the abstract element path: an element is
\* recognised only in its place below a recognised parent, everything inside
\* an ignored element is ignored, and an end tag closes the innermost element.
THEOREM ElementPathImplemented ==
  ASSUME ~ForeignInText PROVE Spec => ImplementsElementPath
  <1>1. Init => Placed /\ Abstract!Init
    BY InitPlaced
  <1>2. TypeOK /\ Placed /\ [Next]_vars => Placed' /\ [Abstract!Next]_Abstract!vars
    BY NextPlaced DEF AbstractStep
  <1> QED
    BY <1>1, <1>2, TypeCorrect, PTL DEF Spec, ImplementsElementPath, Abstract!Spec

-----------------------------------------------------------------------------
(***************************************************************************)
(* What is handed over when the whole document has been read.              *)
(***************************************************************************)
\* The states in which no file of the document is still being collected.
Outside == {"initial", "metalink_v3", "identity_v3", "tags_v3", "fin"}

Handed ==
  /\ rootDone => depth = 0
  /\ run = "parsing" /\ fun = "null" => error # "none"
  /\ run = "parsing" /\ Here \in Outside => list["files"] = <<>>

\* The ways in which a step keeps the last two parts of Handed.
Keeps ==
  \/ run' # "parsing"
  \/ fun' = "null" /\ error' # "none"
  \/ fun' \notin {"null", "skip"} /\ fun' \notin Outside
  \/ fun' \notin {"null", "skip"} /\ list'["files"] = <<>>
  \/ /\ run = "parsing"
     /\ list'["files"] = list["files"]
     /\ Here' \in Outside => Here \in Outside
     /\ fun' = "null" => fun = "null" /\ error' = error
  \/ fun' = "skip" /\ before_fun' \notin Outside

LEMMA KeepsHanded ==
  ASSUME Handed, Keeps, rootDone' => depth' = 0
  PROVE  Handed'
  <1>1. "null" \notin Outside /\ "skip" \notin Outside
    BY DEF Outside
  <1> QED
    BY <1>1, Zenon DEF Handed, Keeps, Here

LEMMA DocumentEnds ==
  ASSUME TypeOK, Handed, (\E ns \in Ns : StartElement(ns)) \/ EndElement
  PROVE  rootDone' => depth' = 0
  <1>1. CASE EndElement
    <2>1. depth' = depth - 1
      BY <1>1 DEF EndElement
    <2>2. rootDone' => depth = 1
      BY <1>1, Zenon DEF EndElement
    <2> QED
      BY <2>1, <2>2
  <1> QED
    BY <1>1 DEF StartElement

LEMMA OutsideStates ==
  /\ Outside \cap InFile = {}
  /\ Outside \subseteq Fun \ {"skip", "null"}
  /\ Outside \cap ItemText = {}
  /\ Outside \cap DOMAIN StringListOf = {}
  /\ "version" \notin Outside /\ "version" \in InFile
  /\ ItemText \subseteq InFile
  /\ DOMAIN StringListOf \subseteq InFile /\ DOMAIN StringListOf \subseteq Text
  BY DEF Outside, InFile, ItemText, StringListOf, Fun, Text, SharedText, OwnText,
     Container, ContainerV3, ContainerV4

LEMMA StartKeeps ==
  ASSUME TypeOK, Start
  PROVE  Keeps
  <1>1. ASSUME NEW ns \in Ns, StartIgnored(ns) \/ StartInSkip(ns) \/ StartSkipped(ns)
        PROVE  Keeps
    <2>1. /\ run = "parsing" /\ list' = list
          /\ fun' = "null" => fun = "null" /\ error' = error
          /\ Here' = Here
      BY <1>1, TextStates DEF StartIgnored, StartInSkip, StartSkipped, StartElement, Stay,
         stateVars, EnterSkip, Here, pctrlVars
    <2> QED
      BY <2>1 DEF Keeps
  <1>2. ASSUME NEW ns \in Ns, StartMetalink(ns)
        PROVE  Keeps
    <2>1. /\ run = "parsing" /\ list' = list /\ fun = "initial"
          /\ fun' \in {"metalink_v3", "metalink_v4"}
      BY <1>2 DEF StartMetalink, StartElement, Enter, pctrlVars
    <2> QED
      BY <2>1 DEF Keeps, Here, Outside
  <1>3. ASSUME NEW c \in Plain, StartPlain(c)
        PROVE  Keeps
    <2>1. /\ run = "parsing" /\ list' = list /\ fun = c[1]
          /\ run' = "crashed" \/ fun' = c[3]
      BY <1>3 DEF StartPlain, StartElement, Enter, Stop, pctrlVars
    <2>2. /\ c[3] \in Outside => c[1] \in Outside
          /\ c[3] \notin {"null", "skip"} /\ c[1] \notin {"null", "skip"}
      BY DEF Plain, Outside
    <2> QED
      BY <2>1, <2>2 DEF Keeps, Here
  <1>4. CASE StartPublisher
    <2>1. /\ list' = list /\ fun = "file_v4"
          /\ \/ run' = "crashed"
             \/ fun' = "null" /\ error' = "bad_alloc"
             \/ fun' = "skip" /\ before_fun' = fun
      BY <1>4 DEF StartPublisher, StartElement, EnterSkip, ErrorHandler, Stop, pctrlVars
    <2> QED
      BY <2>1 DEF Keeps, Outside
  <1>5. ASSUME NEW c \in Opening, StartTransaction(c)
        PROVE  Keeps
    <2>1. /\ fun = c.in
          /\ \/ fun' = c.to
             \/ fun' = "null" /\ error' = "bad_alloc"
             \/ fun' = "skip" /\ before_fun' = fun
      BY <1>5 DEF StartTransaction, EnterSkip, ErrorHandler, Enter
    <2>2. /\ c.to \notin Outside /\ c.in \notin Outside
          /\ c.to \notin {"null", "skip"}
      BY DEF Opening, Outside
    <2> QED
      BY <2>1, <2>2 DEF Keeps
  <1> QED
    BY <1>1, <1>2, <1>3, <1>4, <1>5 DEF Start

\* Text inside a file returns to a state inside a file.
LEMMA ReturnKeeps ==
  ASSUME TypeOK, Return, fun \in Text, fun \in InFile, Assertions
  PROVE  Keeps
  <1>1. CASE Stop("aborted")
    BY <1>1 DEF Keeps, Stop
  <1>2. ASSUME NEW h \in ReturnsTo(fun), Enter(h)
        PROVE  Keeps
    <2>1. h \in InFile /\ h \in Container
      BY DEF ReturnsTo
    <2>2. h \notin Outside /\ h \notin {"null", "skip"}
      BY <2>1, OutsideStates, TextStates
    <2> QED
      BY <1>2, <2>2 DEF Keeps, Enter
  <1> QED
    BY <1>1, <1>2, Returns DEF TypeOK, DocumentTypeOK

LEMMA ErrorKeeps ==
  ASSUME NEW e, ErrorHandler(e), e # "none"
  PROVE  Keeps
  BY DEF ErrorHandler, Keeps

LEMMA StopKeeps ==
  ASSUME NEW how \in {"aborted", "crashed"}, Stop(how)
  PROVE  Keeps
  BY DEF Stop, Keeps

LEMMA EnterKeeps ==
  ASSUME NEW h \in Container, Enter(h), h \notin Outside
  PROVE  Keeps
  BY TextStates DEF Enter, Keeps

LEMMA EndKeeps ==
  ASSUME TypeOK, Placed, Assertions, End
  PROVE  Keeps
  <1>1. CASE EndIgnored
    BY <1>1 DEF EndIgnored, EndElement, Stay, stateVars, pctrlVars, Here, Keeps
  <1>2. CASE EndInSkip
    <2>1. /\ fun = "skip" /\ run = "parsing" /\ list' = list
          /\ before_fun \notin {"null", "skip"}
          /\ fun' = before_fun \/ (fun' = "skip" /\ before_fun' = before_fun)
      BY <1>2 DEF EndInSkip, EndElement, ExitSkip, pctrlVars, Placed, TypeOK, HandlerTypeOK
    <2> QED
      BY <2>1 DEF Keeps, Here
  <1>3. CASE EndScalar
    <2>1. /\ fun \in Text /\ list' = list /\ run = "parsing"
          /\ Stop("crashed") \/ Return \/ ErrorHandler("bad_alloc")
      BY <1>3 DEF EndScalar, EndElement, pctrlVars
    <2>2. CASE Return /\ fun \notin InFile
      <3>1. fun \in OwnText /\ OwnReturn(fun) \notin {"null", "skip"}
            /\ (OwnReturn(fun) \in Outside => fun \in Outside)
        BY <2>1, <2>2 DEF Text, SharedText, OwnText, InFile, OwnReturn, Outside
      <3>2. fun' = OwnReturn(fun)
        BY <2>2, <3>1 DEF Return, Enter
      <3> QED
        BY <2>1, <3>1, <3>2, TextStates DEF Keeps, Here
    <2> QED
      BY <2>1, <2>2, ReturnKeeps, StopKeeps, ErrorKeeps
  <1>4. CASE EndVersion
    <2>1. \/ run' # "parsing"
          \/ fun' \in {"file_v3", "file_v4"}
          \/ fun' = "null" /\ error' = "bad_alloc"
      <3>1. SharedReturn("version", ns_uri) \in {"file_v3", "file_v4"}
        BY DEF SharedReturn, FileText
      <3> QED
        BY <1>4, <3>1 DEF EndVersion, Stop
    <2> QED
      BY <2>1 DEF Keeps, Outside
  <1>5. CASE EndString
    <2>1. fun \in Text /\ fun \in InFile /\ (Return \/ ErrorHandler("bad_alloc"))
      BY <1>5, OutsideStates DEF EndString
    <2> QED
      BY <2>1, ReturnKeeps, ErrorKeeps
  <1>6. CASE EndItem
    <2>1. /\ fun \in Text /\ fun \in InFile
          /\ Stop("crashed") \/ Return \/ ErrorHandler("bad_alloc")
      BY <1>6, OutsideStates DEF EndItem, CommitTarget, ItemText, Text, SharedText, OwnText
    <2> QED
      BY <2>1, ReturnKeeps, StopKeeps, ErrorKeeps
  <1>7. CASE EndFiles
    <2>1. CASE ErrorHandler("bad_alloc")
      BY <2>1, ErrorKeeps
    <2>2. CASE AccumulateFiles /\ Enter(IF fun = "files_v3" THEN "metalink_v3" ELSE "fin")
      <3>1. list'["files"] = <<>>
        BY <2>2, Names DEF AccumulateFiles, TypeOK, PctrlTypeOK, CtrlTypeOK
      <3> QED
        BY <2>2, <3>1 DEF Keeps, Enter
    <2> QED
      BY <1>7, <2>1, <2>2 DEF EndFiles
  <1>8. CASE EndFile
    <2>1. \/ \E h \in {"files_v3", "metalink_v4"} : Enter(h)
          \/ \E e \in Errors \ {"none"} : ErrorHandler(e)
      BY <1>8 DEF EndFile, Errors
    <2>2. {"files_v3", "metalink_v4"} \subseteq Container \ Outside
      BY DEF Container, ContainerV3, ContainerV4, Outside
    <2> QED
      BY <2>1, <2>2, EnterKeeps, ErrorKeeps
  <1>9. CASE EndPieces
    <2>1. \/ \E h \in {"verification_v3", "file_v4"} : Enter(h)
          \/ \E e \in Errors \ {"none"} : ErrorHandler(e)
      BY <1>9 DEF EndPieces, Errors
    <2>2. {"verification_v3", "file_v4"} \subseteq Container \ Outside
      BY DEF Container, ContainerV3, ContainerV4, Outside
    <2> QED
      BY <2>1, <2>2, EnterKeeps, ErrorKeeps
  <1>10. CASE EndPlain
    <2>1. /\ list' = list /\ run = "parsing"
          /\ fun \in {"metalink_v3", "resources_v3", "verification_v3"}
          /\ fun' = IF fun = "metalink_v3" THEN "fin" ELSE "file_v3"
      BY <1>10 DEF EndPlain, EndElement, Enter, pctrlVars
    <2> QED
      BY <2>1 DEF Keeps, Here, Outside
  <1> QED
    BY <1>1, <1>2, <1>3, <1>4, <1>5, <1>6, <1>7, <1>8, <1>9, <1>10 DEF End

LEMMA NextHanded ==
  ASSUME TypeOK, Placed, Handed, Assertions, [Next]_vars
  PROVE  Handed'
  <1>1. CASE Start
    <2>1. \E ns \in Ns : StartElement(ns)
      <3>1. \A f : NsOf(f) \in Ns
        BY DEF NsOf, Ns
      <3> QED
        BY <1>1, <3>1 DEF Start, StartIgnored, StartInSkip, StartMetalink, StartSkipped,
           StartPlain, StartPublisher, StartTransaction
    <2> QED
      BY <1>1, <2>1, StartKeeps, KeepsHanded, DocumentEnds
  <1>2. CASE End
    <2>1. EndElement
      BY <1>2 DEF End, EndIgnored, EndInSkip, EndScalar, EndVersion, EndString, EndItem,
         EndFiles, EndFile, EndPieces, EndPlain
    <2> QED
      BY <1>2, <2>1, EndKeeps, KeepsHanded, DocumentEnds
  <1>3. ASSUME NEW ok \in BOOLEAN, Finish(ok)
        PROVE  Handed'
    BY <1>3 DEF Finish, Handed, envVars
  <1>4. CASE Delete
    <2>1. UNCHANGED <<stateVars, envVars, run, error>>
      BY <1>4 DEF Delete
    <2>2. list' = list
      BY <1>4 DEF Delete, AppDelete
    <2> QED
      BY <2>1, <2>2 DEF Handed, Here, stateVars, envVars
  <1>5. CASE UNCHANGED vars
    BY <1>5 DEF vars, Handed, Here, stateVars, envVars, pctrlVars
  <1> QED
    BY <1>1, <1>2, <1>3, <1>4, <1>5 DEF Next, Terminated

LEMMA InitHanded ==
  ASSUME Init
  PROVE  Handed
  <1>1. list["files"] = <<>>
    BY Names DEF Init, PctrlInit
  <1> QED
    BY <1>1 DEF Init, Handed

\* The states at the end of the document.
LEMMA OnlyOutside ==
  ASSUME TypeOK, Placed, Handed, run = "parsing", rootDone, error = "none"
  PROVE  Here \in {"initial", "fin"}
  <1>1. depth = 0
    BY DEF Handed
  <1>2. Here # "null" /\ Here \in Fun \ {"skip"}
    BY TextStates DEF Handed, Placed, Here, TypeOK, HandlerTypeOK
  <1>3. PICK h : h = Here
    OBVIOUS
  <1>4. At(h) /\ skip_depth \in Nat
    BY <1>2, <1>3 DEF Placed, TypeOK, HandlerTypeOK
  <1>5. ASSUME h \in Text \cup Container
        PROVE  FALSE
    <2>1. version \in {"v3", "v4"} /\ Home(h, version)
      BY <1>4, <1>5 DEF At
    <2>2. \E p : Below(p, h, version)
      <3>1. CASE h \in Text
        BY <2>1, <3>1, ParentAbove
      <3>2. CASE h \in Container
        <4>1. NsOf(h) = version
          BY <2>1, <3>2 DEF Home
        <4> QED
          BY <3>2, <4>1, ContainersBelow DEF NsOf, Container, ContainerV3, ContainerV4
      <3> QED
        BY <1>5, <3>1, <3>2
    <2>3. \E p : Extends(p, h)
      BY <2>1, <2>2, BelowExtends
    <2>4. \E n \in Nat : Len(PathOf(h)) = n + 1
      BY <2>3, Longer DEF Extends
    <2> QED
      BY <1>1, <1>4, <2>4 DEF At
  <1> QED
    BY <1>2, <1>3, <1>5 DEF Fun

LEMMA RunsHold == Spec => []Running
  <1>1. Init => Running
    BY InitRuns
  <1>2. TypeOK /\ Running /\ [Next]_vars => Running'
    BY NextCalls
  <1> QED
    BY <1>1, <1>2, TypeCorrect, PTL DEF Spec

\* The files of the document so far are in the list, or they have been handed
\* over to the array and the list is empty.
Recorded ==
  run = "parsing" /\ error = "none" =>
    \/ files = <<>> /\ ended = list["files"]
    \/ list["files"] = <<>> /\ ended = files

\* What a step that neither commits nor hands over a file leaves alone.
KeepsFiles ==
  /\ files' = files /\ list'["files"] = list["files"] /\ ended' = ended
  /\ error' = "none" => error = "none"

LEMMA KeptRecorded ==
  ASSUME Recorded, KeepsFiles, run = "parsing"
  PROVE  Recorded'
  BY DEF Recorded, KeepsFiles

\* An error leaves nothing to show.
LEMMA FailedRecorded ==
  ASSUME NEW e \in Errors \ {"none"}, ErrorHandler(e)
  PROVE  Recorded'
  BY DEF ErrorHandler, Recorded

LEMMA OthersLeaveFiles ==
  ASSUME TypeOK
  PROVE  /\ \A k \in Tx : \A p : NewTransaction(k, p) \/ NewTransactionFails(k) =>
              files' = files /\ list'["files"] = list["files"]
         /\ \A k \in Items : CommitItem(k) => files' = files /\ list'["files"] = list["files"]
         /\ \A l \in StringLists : AddString(l) => files' = files /\ list'["files"] = list["files"]
         /\ AddStringAppendFails \/ CommitSignature \/ CommitChunk \/ CommitChunkFails =>
              files' = files /\ list'["files"] = list["files"]
  <1>1. list \in [Lists -> Seq(Addr)] /\ "files" \in Lists
    BY Names DEF TypeOK, PctrlTypeOK, CtrlTypeOK
  <1>2. \A k \in Tx : "files" \notin Cleared(k)
    BY Names DEF Cleared, FileLists, CommitOrder
  <1>3. \A k \in Items : ListOf[k] # "files"
    BY DEF Items, ListOf
  <1>4. "files" \notin StringLists
    BY DEF StringLists
  <1>5. ASSUME NEW k \in Tx, NEW p, NewTransaction(k, p) \/ NewTransactionFails(k)
        PROVE  files' = files /\ list'["files"] = list["files"]
    BY <1>1, <1>2, <1>5 DEF NewTransaction, NewTransactionFails
  <1>6. ASSUME NEW k \in Items, CommitItem(k)
        PROVE  files' = files /\ list'["files"] = list["files"]
    BY <1>1, <1>3, <1>6 DEF CommitItem
  <1>7. ASSUME NEW l \in StringLists, AddString(l)
        PROVE  files' = files /\ list'["files"] = list["files"]
    BY <1>1, <1>4, <1>7 DEF AddString
  <1>8. ASSUME AddStringAppendFails \/ CommitSignature \/ CommitChunk \/ CommitChunkFails
        PROVE  files' = files /\ list'["files"] = list["files"]
    BY <1>1, <1>8 DEF AddStringAppendFails, CommitSignature, CommitChunk, CommitChunkFails
  <1> QED
    BY <1>5, <1>6, <1>7, <1>8

LEMMA StartRecorded ==
  ASSUME TypeOK, Recorded, Start
  PROVE  Recorded'
  <1>1. run = "parsing" /\ ended' = ended
    BY DEF Start, StartIgnored, StartInSkip, StartMetalink, StartSkipped, StartPlain,
       StartPublisher, StartTransaction, StartElement
  <1>2. ASSUME NEW ns \in Ns,
               StartIgnored(ns) \/ StartInSkip(ns) \/ StartMetalink(ns) \/ StartSkipped(ns)
        PROVE  KeepsFiles
    BY <1>1, <1>2 DEF StartIgnored, StartInSkip, StartMetalink, StartSkipped, Stay, Enter,
       EnterSkip, pctrlVars, KeepsFiles
  <1>3. ASSUME NEW c \in Plain, StartPlain(c)
        PROVE  KeepsFiles
    BY <1>1, <1>3 DEF StartPlain, Stop, Enter, pctrlVars, KeepsFiles
  <1>4. CASE StartPublisher
    <2>1. ErrorHandler("bad_alloc") \/ Stop("crashed") \/ EnterSkip
      BY <1>4 DEF StartPublisher
    <2>2. files' = files /\ list' = list
      BY <1>4 DEF StartPublisher, pctrlVars
    <2> QED
      BY <1>1, <2>1, <2>2, KeptRecorded, FailedRecorded, BadAllocIsError
      DEF Stop, EnterSkip, KeepsFiles
  <1>5. ASSUME NEW c \in Opening, StartTransaction(c)
        PROVE  Recorded'
    <2>1. \/ \E p : NewTransaction(c.tx, p)
          \/ NewTransactionFails(c.tx)
      BY <1>5 DEF StartTransaction
    <2>2. files' = files /\ list'["files"] = list["files"]
      BY <2>1, OpeningTable, OthersLeaveFiles
    <2>3. ErrorHandler("bad_alloc") \/ Enter(c.to) \/ EnterSkip
      BY <1>5 DEF StartTransaction
    <2> QED
      BY <1>1, <2>2, <2>3, KeptRecorded, FailedRecorded, BadAllocIsError
      DEF Enter, EnterSkip, KeepsFiles
  <1> QED
    BY <1>1, <1>2, <1>3, <1>4, <1>5, KeptRecorded DEF Start

LEMMA EndRecorded ==
  ASSUME Inv, LeakInv, Recorded, End
  PROVE  Recorded'
  <1>0. TypeOK /\ run = "parsing" /\ EndElement
    BY DEF Inv, End, EndIgnored, EndInSkip, EndScalar, EndVersion, EndString, EndItem,
       EndFiles, EndFile, EndPieces, EndPlain, EndElement
  <1>1. fun \notin {"file_v3", "file_v4"} => ended' = ended
    BY <1>0 DEF EndElement
  <1>2. \A e \in {"bad_alloc", "no_file_transaction", "no_chunk_checksum_transaction"} :
          ErrorHandler(e) => Recorded'
    BY FailedRecorded DEF Errors
  <1>3. {"file_v3", "file_v4"} \cap Text = {}
    BY DEF Text, SharedText, OwnText
  <1>4. ASSUME UNCHANGED <<files, error>>, list'["files"] = list["files"],
               fun \notin {"file_v3", "file_v4"}
        PROVE  Recorded'
    BY <1>0, <1>1, <1>4, KeptRecorded DEF KeepsFiles
  <1>5. CASE EndIgnored \/ EndInSkip \/ EndPlain
    <2>1. fun \notin {"file_v3", "file_v4"} /\ UNCHANGED <<files, error, list>>
      BY <1>5 DEF EndIgnored, EndInSkip, EndPlain, Stay, ExitSkip, Enter, pctrlVars
    <2> QED
      BY <1>4, <2>1
  <1>6. CASE EndScalar
    <2>1. fun \in Text /\ UNCHANGED <<files, list>>
          /\ (Stop("crashed") \/ Return \/ ErrorHandler("bad_alloc"))
      BY <1>6 DEF EndScalar, pctrlVars
    <2> QED
      BY <1>2, <1>3, <1>4, <2>1, ReturnKeepsError DEF Stop
  <1>7. CASE EndVersion
    <2>1. fun \notin {"file_v3", "file_v4"} /\ UNCHANGED <<files, list>>
          /\ error' \in {"bad_alloc", error}
      BY <1>7 DEF EndVersion, Stop, pctrlVars
    <2> QED
      BY <1>4, <2>1 DEF Recorded
  <1>8. CASE EndString
    <2>1. /\ fun \in Text
          /\ Return \/ ErrorHandler("bad_alloc")
      BY <1>8, OutsideStates DEF EndString
    <2>2. StringListOf[fun] \in StringLists
      BY <1>8 DEF EndString, StringListOf, StringLists
    <2>3. files' = files /\ list'["files"] = list["files"]
      BY <1>0, <1>8, <2>2, OthersLeaveFiles DEF EndString, pctrlVars
    <2> QED
      BY <1>2, <1>3, <1>4, <2>1, <2>3, ReturnKeepsError
  <1>9. CASE EndItem
    <2>1. /\ fun \in Text
          /\ Stop("crashed") \/ Return \/ ErrorHandler("bad_alloc")
      BY <1>9 DEF EndItem, CommitTarget, ItemText, Text, SharedText, OwnText
    <2>2. fun # "signature_v4" => Target[fun] \in Items
      BY <1>9, Targets DEF EndItem, ItemText, Items, ListOf
    <2>3. \/ \E k \in Items : CommitItem(k)
          \/ CommitSignature
          \/ UNCHANGED pctrlVars
      BY <1>9, <2>2 DEF EndItem, CommitTarget
    <2>4. files' = files /\ list'["files"] = list["files"]
      BY <1>0, <2>3, OthersLeaveFiles DEF pctrlVars
    <2> QED
      BY <1>2, <1>3, <1>4, <2>1, <2>4, ReturnKeepsError DEF Stop
  <1>10. CASE EndPieces
    <2>1. /\ fun \notin {"file_v3", "file_v4"}
          /\ \/ \E h : Enter(h)
             \/ ErrorHandler("bad_alloc") \/ ErrorHandler("no_file_transaction")
             \/ ErrorHandler("no_chunk_checksum_transaction")
      BY <1>10 DEF EndPieces
    <2>2. files' = files /\ list'["files"] = list["files"]
      BY <1>0, <1>10, OthersLeaveFiles DEF EndPieces, pctrlVars
    <2> QED
      BY <1>2, <1>4, <2>1, <2>2 DEF Enter
  <1>11. fun \in {"file_v3", "file_v4", "files_v3", "metalink_v4"} => files = <<>>
    <2>1. fun \in {"file_v3", "file_v4", "files_v3", "metalink_v4"} =>
            fun \in Fun \ {"skip", "null"} /\ fun \notin Taken
      BY TextStates DEF Container, ContainerV3, ContainerV4, Taken
    <2> QED
      BY <1>0, <2>1, EmptyHere DEF LeakInv, EmptyIn
  <1>12. CASE EndFiles
    <2>1. CASE AccumulateFiles /\ \E h : Enter(h)
      <3>1. list'["files"] = <<>> /\ error' = error
            /\ files' = IF list["files"] = <<>> THEN files ELSE list["files"]
        BY <1>0, <2>1, Names DEF AccumulateFiles, Enter, TypeOK, PctrlTypeOK, CtrlTypeOK
      <3>2. ended' = ended /\ files = <<>>
        BY <1>1, <1>11, <1>12 DEF EndFiles
      <3> QED
        BY <1>0, <3>1, <3>2 DEF Recorded
    <2> QED
      BY <1>2, <1>12, <2>1 DEF EndFiles
  <1>13. CASE EndFile
    <2>1. CASE CommitFile("none") /\ \E h : Enter(h)
      <3>1. temp["file"] # NULL /\ files' = files
            /\ list'["files"] = Append(list["files"], temp["file"]) /\ error' = error
        <4>1. "files" \in Lists /\ "files" \notin MovedBefore("none")
          BY Names DEF MovedBefore, CommitOrder
        <4> QED
          BY <2>1, <4>1 DEF CommitFile, Enter
      <3>2. ended' = Append(ended, temp["file"]) /\ files = <<>>
        BY <1>0, <1>11, <1>13, <3>1 DEF EndFile, EndElement
      <3> QED
        BY <1>0, <3>1, <3>2 DEF Recorded
    <2> QED
      BY <1>2, <1>13, <2>1 DEF EndFile
  <1> QED
    BY <1>5, <1>6, <1>7, <1>8, <1>9, <1>10, <1>12, <1>13, Zenon DEF End

LEMMA NextRecorded ==
  ASSUME Inv, Running, LeakInv, Recorded, [Next]_vars
  PROVE  Recorded'
  <1>1. CASE \E ok \in BOOLEAN : Finish(ok)
    BY <1>1 DEF Finish, Recorded
  <1>2. CASE Delete
    BY <1>2 DEF Delete, AppDelete, Running, Recorded
  <1>3. CASE UNCHANGED vars
    BY <1>3 DEF vars, pctrlVars, envVars, Recorded
  <1> QED
    BY <1>1, <1>2, <1>3, StartRecorded, EndRecorded DEF Inv, Next, Terminated

\* In a library built with its assertions, and for documents whose text
\* elements contain no element of another namespace and which have one <files>:
\* the array that the application is handed for a whole document is the files
\* whose end tags were read, in that order, and none of them has been freed.
THEOREM FilesHandedOver ==
  ASSUME Assertions, ~ForeignInText, ~Repeats PROVE Spec => EveryFileHandedOver
  <1>1. Init => Placed /\ Handed /\ Recorded
    BY InitPlaced, InitHanded, Names DEF Init, PctrlInit, Recorded
  <1>2. TypeOK /\ Placed /\ Handed /\ [Next]_vars => Placed' /\ Handed'
    BY NextPlaced, NextHanded
  <1>3. Inv /\ Running /\ LeakInv /\ Recorded /\ [Next]_vars => Recorded'
    BY NextRecorded
  <1> DEFINE Given == run = "parsing" /\ holder' = "app" /\ rootDone =>
                        files' = ended /\ \A f \in Range(ended) : kind'[f] = "file"
  <1>4. Inv /\ Running /\ Placed /\ Handed /\ Recorded /\ Ownership' /\ [Next]_vars
        => [Given]_vars
    <2> SUFFICES ASSUME Inv, Running, Placed, Handed, Recorded, Ownership', [Next]_vars,
                        run = "parsing", holder' = "app", rootDone
                 PROVE  files' = ended /\ \A f \in Range(ended) : kind'[f] = "file"
      OBVIOUS
    <2>1. holder = "ctrl"
      BY DEF Running
    <2>2. PICK ok \in BOOLEAN : Finish(ok)
      <3>1. Start \/ End => holder' = holder
        BY StartCalls, EndCalls DEF Inv, Calls, pctrlVars
      <3>2. Delete \/ UNCHANGED vars => holder = "app" \/ holder' = holder
        BY DEF Delete, AppDelete, vars, pctrlVars
      <3> QED
        BY <2>1, <3>1, <3>2 DEF Next, Terminated
    <2>3. error = "none" /\ files' = files
      BY <2>2 DEF Finish, DeleteSession
    <2>4. Here \in {"initial", "fin"}
      BY <2>3, OnlyOutside DEF Inv
    <2>5. list["files"] = <<>>
      BY <2>4 DEF Handed, Outside
    <2>6. files' = ended
      BY <2>3, <2>5 DEF Recorded
    <2>7. \A f \in Range(files') : kind'[f] = "file"
      <3>1. Range(files') \subseteq Addr
        BY RangeInSet DEF Ownership, PctrlTypeOK, CtrlTypeOK
      <3>2. \A f \in Range(files') : Holds(NULL, "metalink", f)'
        BY DEF Holds
      <3>3. NULL \in Owners /\ "metalink" \in Spots
        BY DEF Owners, Spots
      <3> QED
        BY <3>1, <3>2, <3>3, KindOfPlace DEF Ownership, RightKind
    <2> QED
      BY <2>6, <2>7
  <1> QED
    BY <1>1, <1>2, <1>3, <1>4, TypeCorrect, InvHolds, RunsHold, ParseOwns, LeakHolds, PTL
    DEF Spec, EveryFileHandedOver

-----------------------------------------------------------------------------
(***************************************************************************)
(* What is left after the session.  Nothing is astray while the parse goes *)
(* on but strings the lists had no room for (LeakInv), and the strings in  *)
(* the lists of the session are all it does not delete itself.  At the end *)
(* of a whole document those lists are empty.                              *)
(***************************************************************************)
LEMMA HandlersGoOn == ASSUME Start \/ End PROVE run' # "done"
  <1>1. ASSUME NEW h, run = "parsing",
               \/ Stop("aborted") \/ Stop("crashed") \/ Stay \/ ExitSkip \/ EnterSkip
               \/ Return \/ Enter(h) \/ ErrorHandler(h)
        PROVE  run' # "done"
    BY <1>1 DEF Stop, Stay, ExitSkip, EnterSkip, Return, Enter, ErrorHandler
  <1>2. CASE Start
    <2>1. ASSUME NEW ns \in Ns,
                 StartIgnored(ns) \/ StartInSkip(ns) \/ StartMetalink(ns) \/ StartSkipped(ns)
          PROVE  run' # "done"
      BY <2>1 DEF StartIgnored, StartInSkip, StartMetalink, StartSkipped, StartElement,
         Stay, Enter, EnterSkip
    <2>2. ASSUME NEW c \in Plain, StartPlain(c)
          PROVE  run' # "done"
      BY <1>1, <2>2 DEF StartPlain, StartElement
    <2>3. CASE StartPublisher
      BY <1>1, <2>3 DEF StartPublisher, StartElement
    <2>4. ASSUME NEW c \in Opening, StartTransaction(c)
          PROVE  run' # "done"
      BY <1>1, <2>4 DEF StartTransaction, StartElement
    <2> QED
      BY <1>2, <2>1, <2>2, <2>3, <2>4 DEF Start
  <1>3. CASE End
    <2>1. CASE EndIgnored \/ EndInSkip \/ EndPlain
      BY <2>1 DEF EndIgnored, EndInSkip, EndPlain, EndElement, Stay, ExitSkip, Enter
    <2>2. CASE EndScalar \/ EndString
      BY <1>1, <2>2 DEF EndScalar, EndString, EndElement
    <2>3. CASE EndVersion
      BY <1>1, <2>3 DEF EndVersion, EndElement
    <2>4. CASE EndItem
      BY <1>1, <2>4 DEF EndItem, CommitTarget, EndElement
    <2>5. CASE EndFiles \/ EndFile \/ EndPieces
      BY <1>1, <2>5 DEF EndFiles, EndFile, EndPieces, EndElement
    <2> QED
      BY <1>3, <2>1, <2>2, <2>3, <2>4, <2>5 DEF End
  <1> QED
    BY <1>2, <1>3

LEMMA FinishLeaves ==
  ASSUME Inv, Ownership, Running, Placed, Handed, LeakInv, NEW ok \in BOOLEAN, Finish(ok)
  PROVE  OnlyStringsLeak'
  <1> DEFINE detach == ok /\ error = "none"
  <1>0. detach \in BOOLEAN /\ DeleteSession(detach) /\ run = "parsing"
        /\ rootDone' = rootDone /\ oom' = oom
    BY DEF Finish, envVars
  <1> HIDE DEF detach
  <1>1. \A y \in Astray : kind[y] = "string" /\ oom = TRUE
    BY <1>0 DEF LeakInv, Lossless
  <1>2. rootDone /\ oom # TRUE => \A l \in StringLists : list[l] = <<>>
    <2>1. SUFFICES ASSUME rootDone, oom # TRUE
                   PROVE  \A l \in StringLists : list[l] = <<>>
      OBVIOUS
    <2>2. error = "none"
      BY <2>1 DEF LeakInv, ErrorsHaveCause
    <2>3. Here \in {"initial", "fin"}
      BY <1>0, <2>1, <2>2, OnlyOutside DEF Inv
    <2>4. Here \notin InFile /\ Here # "null"
      BY <2>3, TextStates
    <2>5. \A l \in FileLists : list[l] = <<>>
      BY <1>0, <2>4 DEF Inv, Safe, TransactionsOpen, OpenIn
    <2> QED
      BY <2>5, Names DEF StringLists
  <1>3. ASSUME NEW x \in Leaked'
        PROVE  kind'[x] = "string" /\ (oom' = TRUE \/ ~rootDone')
    <2>1. x \in Addr /\ kind'[x] \in Kinds /\ ~(detach /\ x \in Trees(Range(files))')
      BY <1>0, <1>3 DEF Leaked, Live, DeleteSession
    <2>2. /\ kind'[x] = kind[x]
          /\ x \in Astray \/ \E l \in StringLists : x \in Range(list[l])
      BY <1>0, <1>1, <2>1, DeleteSessionLeaves
    <2>3. CASE x \in Astray
      BY <1>0, <1>1, <2>2, <2>3
    <2>4. ASSUME NEW l \in StringLists, x \in Range(list[l])
          PROVE  kind'[x] = "string" /\ (oom' = TRUE \/ ~rootDone')
      <3>1. kind[x] = "string"
        BY <2>1, <2>4, Names, KindOfPlace DEF Ownership, RightKind, Holds, Owners, Spots
      <3>2. list[l] # <<>>
        BY <2>4, RangeEmpty
      <3> QED
        BY <1>0, <1>2, <2>2, <2>4, <3>1, <3>2
    <2> QED
      BY <2>2, <2>3, <2>4
  <1> QED
    BY <1>3 DEF OnlyStringsLeak

LEMMA NextLeaves ==
  ASSUME Inv, Ownership, Running, Placed, Handed, LeakInv, OnlyStringsLeak, [Next]_vars
  PROVE  OnlyStringsLeak'
  <1>1. CASE Start \/ End
    BY <1>1, HandlersGoOn DEF OnlyStringsLeak
  <1>2. CASE \E ok \in BOOLEAN : Finish(ok)
    BY <1>2, FinishLeaves
  <1>3. CASE Delete
    <2>1. ASSUME NEW x \in Leaked'
          PROVE  x \in Leaked /\ kind'[x] = kind[x]
      BY <1>3, <2>1 DEF Delete, AppDelete, Free, Leaked, Live, Kinds, Tx
    <2>2. run' = run /\ oom' = oom /\ rootDone' = rootDone
      BY <1>3 DEF Delete, envVars
    <2> QED
      BY <2>1, <2>2 DEF OnlyStringsLeak
  <1>4. CASE UNCHANGED vars
    <2>1. Leaked' = Leaked
      BY <1>4 DEF vars, pctrlVars, Leaked, Live, Trees, Tree, Fields
    <2> QED
      BY <1>4, <2>1 DEF vars, pctrlVars, envVars, OnlyStringsLeak
  <1> QED
    BY <1>1, <1>2, <1>3, <1>4 DEF Next, Terminated

\* In a library built with its assertions, for documents whose text elements
\* contain no element of another namespace and which repeat neither <files> nor,
\* in one file, <pieces>: after the session is deleted no object is left that the
\* application does not hold, except copies of <language> and <os> text, and those
\* only if the document broke off or an allocation failed.
THEOREM OnlyStringsAreLost ==
  ASSUME Assertions, ~ForeignInText, ~Repeats PROVE Spec => []OnlyStringsLeak
  <1>1. Init => Placed /\ Handed /\ OnlyStringsLeak
    BY InitPlaced, InitHanded DEF Init, OnlyStringsLeak
  <1>2. TypeOK /\ Placed /\ Handed /\ [Next]_vars => Placed' /\ Handed'
    BY NextPlaced, NextHanded
  <1>3. /\ Inv /\ Ownership /\ Running /\ Placed /\ Handed /\ LeakInv
        /\ OnlyStringsLeak /\ [Next]_vars
        => OnlyStringsLeak'
    BY NextLeaves
  <1> QED
    BY <1>1, <1>2, <1>3, TypeCorrect, InvHolds, ParseOwns, RunsHold, LeakHolds, PTL
    DEF Spec

=============================================================================
