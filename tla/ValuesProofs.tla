---------------------------- MODULE ValuesProofs ----------------------------
(***************************************************************************)
(* Proofs about what becomes of the values of a document: numbers, the     *)
(* ranks of addresses, dates, paths, and the strings of the objects.       *)
(***************************************************************************)
EXTENDS Numbers, Ranking, Calendar, SafePath, Fields, FiniteSetTheorems, TLAPS

-----------------------------------------------------------------------------
(***************************************************************************)
(* Numbers, for any widths of int, long and long long.  The argument: the  *)
(* handlers' test leaves a number that the cast to int does not change,    *)
(* and it refuses the bounds that strtol returns for a number beyond them. *)
(***************************************************************************)
\* The largest number that may be stored at a site.
Limit == IF site = "size" THEN LLONG_MAX ELSE INT_MAX

\* The inductive invariant.  long is as wide as int or as long long, and what
\* is stored so far is the number of the text.
NumbersInv ==
  /\ NumberTypeOK
  /\ long_max \in {INT_MAX, LLONG_MAX}
  /\ text \in Texts
  /\ outcome = "none" => number = 0
  /\ NumbersArrive

\* The cast to int leaves alone what an int can hold.
LEMMA CastKeeps ==
  ASSUME NumbersAssumption, NEW n \in 0 .. Limit PROVE Cast(n) = n
<1>1. CASE site = "size"
  BY <1>1 DEF Cast
<1>2. CASE site # "size"
  <2> DEFINE m == INT_MAX + 1
  <2>1. m \in Nat /\ m > 1 /\ n \in 0 .. m - 1
    BY <1>2 DEF Limit, NumbersAssumption
  <2>2. \A a, b \in Nat : b > 0 /\ a < b => a % b = a
    OBVIOUS
  <2>3. (n + m) % (2 * m) = n + m
    BY <2>1, <2>2
  <2> QED
    BY <1>2, <2>1, <2>3 DEF Cast, NumbersAssumption
<1> QED
  BY <1>1, <1>2

\* What strtol and strtoll make of a text, and what the test leaves of it.
LEMMA Reads ==
  ASSUME NumbersAssumption, NumbersInv
  PROVE  /\ ReadNumber.value \in Int
         /\ ReadNumber.erange \in BOOLEAN
         /\ text.number \in Int
         /\ text.digits \in BOOLEAN
         /\ text.digits /\ text.number \in 0 .. Limit =>
              ReadNumber = [value |-> text.number, erange |-> FALSE]
         /\ ~ReadNumber.erange => ReadNumber.value = text.number
         /\ ReadNumber.value <= LLONG_MAX
<1>1. text.number \in Int /\ text.digits \in BOOLEAN /\ (~text.digits => text.number = 0)
  BY DEF NumbersInv, Texts, NumbersAssumption
<1>2. PICK max : max = (IF site = "size" THEN LLONG_MAX ELSE long_max)
  OBVIOUS
<1>3. max \in Nat /\ max <= LLONG_MAX /\ Limit <= max
  BY <1>2 DEF NumbersInv, NumbersAssumption, Limit
<1>4. ReadNumber = Strto(text, max)
  BY <1>2 DEF ReadNumber
<1> QED
  BY <1>1, <1>3, <1>4 DEF Strto, Limit, NumbersAssumption

\* Nothing is made up where there is no number that fits.
LEMMA WithoutNumber ==
  ASSUME NumbersAssumption, NumbersInv,
         ~(text.digits /\ text.number \in 0 .. Limit),
         UNCHANGED <<long_max, site, text>>,
         \/ outcome' = "skipped" /\ number' = 0
         \/ outcome' = "stored" /\ number' = Default
  PROVE  NumbersInv'
<1>1. Default \in 0 .. INT_MAX /\ Default' = Default
  <2>1. 0 \in 0 .. INT_MAX /\ INT_MAX - 1 \in 0 .. INT_MAX
    BY DEF NumbersAssumption
  <2> QED
    BY <2>1, Zenon DEF Default
<1>2. NumberTypeOK'
  BY <1>1 DEF NumberTypeOK, NumbersAssumption
<1>3. StoredNumbersFit'
  BY <1>1 DEF StoredNumbersFit, NumbersAssumption
<1>4. PlainNumbersArrive'
  BY DEF PlainNumbersArrive, Limit
<1>5. NothingMadeUp'
  BY <1>1 DEF NothingMadeUp
<1> QED
  BY <1>2, <1>3, <1>4, <1>5 DEF NumbersInv, NumbersArrive

LEMMA ReadTextInv == ASSUME NumbersAssumption, NumbersInv, ReadText PROVE NumbersInv'
<1> USE DEF NumbersInv
<1>1. outcome = "none" /\ number = 0 /\ UNCHANGED <<long_max, site, text>>
  BY DEF ReadText
<1>2. CASE ~Refused(ReadNumber)
  <2>1. ReadNumber.value \in 0 .. Limit /\ ReadNumber.value = text.number
    BY <1>2, Reads DEF Refused, Limit, NumbersAssumption
  <2>2. outcome' = "stored" /\ number' = text.number
    BY <1>2, <2>1, CastKeeps DEF ReadText, Stores
  <2> QED
    BY <1>1, <2>1, <2>2
    DEF NumberTypeOK, NumbersArrive, StoredNumbersFit, PlainNumbersArrive,
        NothingMadeUp, Default, Limit, NumbersAssumption
<1>3. CASE Refused(ReadNumber)
  <2>1. ~(text.digits /\ text.number \in 0 .. Limit)
    BY <1>3, Reads DEF Refused, Limit, NumbersAssumption
  <2>2. \/ outcome' = "skipped" /\ number' = 0
        \/ outcome' = "stored" /\ number' = Default
    BY <1>1, <1>3 DEF ReadText, Stores, Skips
  <2> QED
    BY <1>1, <2>1, <2>2, WithoutNumber
<1> QED
  BY <1>2, <1>3

LEMMA ReadAbsentInv == ASSUME NumbersAssumption, NumbersInv, ReadAbsent PROVE NumbersInv'
<1>1. ~text.digits
  BY DEF ReadAbsent, NumbersInv, Texts
<1>2. /\ UNCHANGED <<long_max, site, text>>
      /\ \/ outcome' = "skipped" /\ number' = 0
         \/ outcome' = "stored" /\ number' = Default
  BY DEF ReadAbsent, Stores, Skips, NumbersInv
<1> QED
  BY <1>1, <1>2, WithoutNumber

LEMMA NumbersInitInv == ASSUME NumbersAssumption, NumberInit PROVE NumbersInv
BY DEF NumberInit, NumbersInv, NumberTypeOK, NumbersArrive, StoredNumbersFit,
  PlainNumbersArrive, NothingMadeUp, NumbersAssumption

LEMMA NumbersNextInv ==
  ASSUME NumbersAssumption, NumbersInv, [NumberNext]_numberVars PROVE NumbersInv'
<1>1. CASE UNCHANGED numberVars
  BY <1>1 DEF numberVars, NumbersInv, NumberTypeOK, NumbersArrive, StoredNumbersFit,
    PlainNumbersArrive, NothingMadeUp, Default
<1> QED
  BY <1>1, ReadTextInv, ReadAbsentInv DEF NumberNext

\* With any widths of int and long and any text, what a handler stores fits its
\* field, is the document's number if that fits, and is never the bound that
\* strtol returns for a number out of its range.
THEOREM NumbersAlwaysArrive ==
  ASSUME NumbersAssumption PROVE NumberSpec => []NumbersArrive
<1>1. NumberInit => NumbersInv
  BY NumbersInitInv
<1>2. NumbersInv /\ [NumberNext]_numberVars => NumbersInv'
  BY NumbersNextInv
<1>3. NumbersInv => NumbersArrive
  BY DEF NumbersInv
<1> QED
  BY <1>1, <1>2, <1>3, PTL DEF NumberSpec

-----------------------------------------------------------------------------
(***************************************************************************)
(* Proofs about Ranking, for any width of int, any pivot and any document: *)
(* subtracting priorities is a sound comparison of the addresses of one    *)
(* file, and the array comes out in the document's order.                  *)
(***************************************************************************)
\* What version 4 makes of an attribute: a text without digits is a 0.
Priority4(e) ==
  IF RankedBy(e) THEN e.attr.number ELSE IF e.attr.says = "words" THEN 0 ELSE NoPriority

\* What the handlers make of an attribute, by the array it goes to.
InRange(l, e) ==
  CASE l = "url_v3"  -> /\ e.preference \in 0 .. IntMax
                        /\ e.priority = Pivot - e.preference
                        /\ e.preference = IF RankedBy(e) THEN e.attr.number ELSE 0
    [] l = "url_v4"  -> /\ e.priority \in 0 .. IntMax
                        /\ e.preference = Pivot - e.priority
                        /\ e.priority = Priority4(e)
    [] l = "metaurl" -> /\ e.priority \in 0 .. IntMax
                        /\ e.preference = 0
                        /\ e.priority = Priority4(e)

Entries == [preference : Int, priority : Int, attr : Attributes]

\* The inductive invariant: every entry is in its handler's range, and the
\* array of the file is in order.
RankingInv ==
  /\ list \in {"url_v3", "url_v4", "metaurl"}
  /\ committed \in BOOLEAN
  /\ entries \in Seq(Entries)
  /\ \A i \in DOMAIN entries : InRange(list, entries[i])
  /\ committed =>
       \A i, j \in DOMAIN entries : i < j => entries[i].priority <= entries[j].priority

\* Two entries of one array are at most INT_MAX apart.
LEMMA Apart ==
  ASSUME RankingAssumption, NEW l \in {"url_v3", "url_v4", "metaurl"},
         NEW a \in Entries, NEW b \in Entries, InRange(l, a), InRange(l, b)
  PROVE  a.priority - b.priority \in - IntMax .. IntMax
<1>1. /\ IntMax \in Nat /\ Pivot \in Int
      /\ a.priority \in Int /\ a.preference \in Int
      /\ b.priority \in Int /\ b.preference \in Int
  BY DEF RankingAssumption, Entries
<1>2. CASE l = "url_v3"
  <2>1. /\ a.preference \in 0 .. IntMax /\ a.priority = Pivot - a.preference
        /\ b.preference \in 0 .. IntMax /\ b.priority = Pivot - b.preference
    BY <1>2 DEF InRange
  <2> QED
    BY <1>1, <2>1
<1>3. CASE l # "url_v3"
  <2>1. a.priority \in 0 .. IntMax /\ b.priority \in 0 .. IntMax
    BY <1>3 DEF InRange
  <2> QED
    BY <1>1, <2>1
<1> QED
  BY <1>2, <1>3

\* ... so that their comparison is the comparison of their priorities.
LEMMA CompareIsExact ==
  ASSUME RankingAssumption, NEW l \in {"url_v3", "url_v4", "metaurl"},
         NEW a \in Entries, NEW b \in Entries, InRange(l, a), InRange(l, b)
  PROVE  Compare(a, b) <= 0 <=> a.priority <= b.priority
<1>1. a.priority - b.priority \in - IntMax .. IntMax
  BY Apart
<1>2. IntMax \in Nat /\ a.priority \in Int /\ b.priority \in Int
  BY DEF RankingAssumption, Entries
<1>3. Wrap(a.priority - b.priority) = a.priority - b.priority
  BY <1>1, <1>2 DEF Wrap, IntMin
<1> QED
  BY <1>2, <1>3 DEF Compare

\* What an attribute is.
LEMMA AttributeIs ==
  ASSUME RankingAssumption, NEW attr \in Attributes
  PROVE  attr.says \in {"nothing", "words", "number"} /\ attr.number \in Int
<1>1. CASE attr \in [says : {"nothing", "words"}, number : {0}]
  BY <1>1
<1>2. CASE attr \in [says : {"number"}, number : Numbers]
  BY <1>2 DEF RankingAssumption
<1> QED
  BY <1>1, <1>2 DEF Attributes

\* What a handler appends is in its range.
LEMMA UrlInRange ==
  ASSUME RankingAssumption, NEW attr \in Attributes
  PROVE  /\ UrlV3(attr) \in Entries /\ InRange("url_v3", UrlV3(attr))
         /\ UrlV4(attr) \in Entries /\ InRange("url_v4", UrlV4(attr))
         /\ Metaurl(attr) \in Entries /\ InRange("metaurl", Metaurl(attr))
<1>1. /\ IntMax \in Nat /\ Pivot \in 0 .. IntMax /\ NoPriority \in 0 .. IntMax
      /\ attr.says \in {"nothing", "words", "number"} /\ attr.number \in Int
      /\ Usable(0)
  <2>1. IntMax \in Nat /\ Pivot \in 0 .. IntMax /\ NoPriority \in 0 .. IntMax /\ Numbers \subseteq Int
    BY DEF RankingAssumption
  <2>2. attr.says \in {"nothing", "words", "number"} /\ attr.number \in Int
    BY <2>1, AttributeIs
  <2> QED
    BY <2>1, <2>2 DEF Usable
<1>2. \A d \in 0 .. IntMax :
        /\ Taken(attr, d) \in 0 .. IntMax
        /\ Taken(attr, d) = IF attr.says = "number" /\ Usable(attr.number) THEN attr.number
                            ELSE IF attr.says = "words" THEN 0 ELSE d
  BY <1>1 DEF Taken, Strtol, Usable
<1>3. PICK p : p = Taken(attr, 0)
  OBVIOUS
<1>4. PICK q : q = Taken(attr, NoPriority)
  OBVIOUS
<1>5. UrlV3(attr) \in Entries /\ InRange("url_v3", UrlV3(attr))
  <2>1. UrlV3(attr) = [preference |-> p, priority |-> Pivot - p, attr |-> attr]
    BY <1>3 DEF UrlV3, Preferred, Entry
  <2>2. /\ p \in 0 .. IntMax
        /\ p = IF attr.says = "number" /\ Usable(attr.number) THEN attr.number ELSE 0
    BY <1>1, <1>2, <1>3
  <2> QED
    BY <1>1, <2>1, <2>2 DEF Entries, InRange, RankedBy
<1>6. ASSUME NEW n \in Int
      PROVE  /\ Entry(n, q, attr) \in Entries
             /\ q \in 0 .. IntMax /\ q = Priority4(Entry(n, q, attr))
  <2>1. Entry(n, q, attr) = [preference |-> n, priority |-> q, attr |-> attr]
    BY DEF Entry
  <2>2. q \in 0 .. IntMax
    BY <1>1, <1>2, <1>4
  <2>3. q = IF attr.says = "number" /\ Usable(attr.number) THEN attr.number
            ELSE IF attr.says = "words" THEN 0 ELSE NoPriority
    BY <1>1, <1>2, <1>4
  <2> QED
    BY <1>6, <2>1, <2>2, <2>3 DEF Entries, Priority4, RankedBy
<1>7. UrlV4(attr) \in Entries /\ InRange("url_v4", UrlV4(attr))
  <2>1. UrlV4(attr) = Entry(Pivot - q, q, attr) /\ Pivot - q \in Int
    BY <1>1, <1>2, <1>4 DEF UrlV4, Prioritised
  <2>2. UrlV4(attr).priority = q /\ UrlV4(attr).preference = Pivot - q
    BY <2>1 DEF Entry
  <2> QED
    BY <1>6, <2>1, <2>2 DEF InRange
<1>8. Metaurl(attr) \in Entries /\ InRange("metaurl", Metaurl(attr))
  <2>1. Metaurl(attr) = Entry(0, q, attr)
    BY <1>4 DEF Metaurl
  <2>2. Metaurl(attr).priority = q /\ Metaurl(attr).preference = 0
    BY <2>1 DEF Entry
  <2> QED
    BY <1>6, <2>1, <2>2 DEF InRange
<1> QED
  BY <1>5, <1>7, <1>8

LEMMA RankingInitInv == ASSUME RankingInit PROVE RankingInv
<1>1. entries = <<>> /\ entries \in Seq(Entries) /\ DOMAIN entries = {}
  BY DEF RankingInit
<1> QED
  BY <1>1 DEF RankingInit, RankingInv

LEMMA StartRankingInv ==
  ASSUME RankingAssumption, RankingInv, NEW attr \in Attributes, Start(attr) PROVE RankingInv'
<1>1. PICK e \in Entries : entries' = Append(entries, e) /\ InRange(list, e)
  BY UrlInRange DEF Start
<1>2. /\ entries \in Seq(Entries) /\ list' = list /\ committed' = committed
      /\ committed = FALSE /\ list \in {"url_v3", "url_v4", "metaurl"}
      /\ \A i \in DOMAIN entries : InRange(list, entries[i])
  BY DEF Start, RankingInv
<1>3. entries' \in Seq(Entries)
  BY <1>1, <1>2
<1>4. \A i \in DOMAIN entries' : entries'[i] = e \/ (i \in DOMAIN entries /\ entries'[i] = entries[i])
  BY <1>1, <1>2
<1>5. \A i \in DOMAIN entries' : InRange(list, entries'[i])
  BY <1>1, <1>2, <1>4
<1> QED
  BY <1>2, <1>3, <1>5 DEF RankingInv

\* The comparison qsort is given is consistent on one file's addresses.
LEMMA ComparisonConsistent ==
  ASSUME RankingAssumption, RankingInv PROVE Consistent(entries)
<1>1. \A i \in DOMAIN entries : entries[i] \in Entries /\ InRange(list, entries[i])
  BY DEF RankingInv
<1>2. \A i, j \in DOMAIN entries :
        Compare(entries[i], entries[j]) <= 0 <=> entries[i].priority <= entries[j].priority
  BY <1>1, CompareIsExact DEF RankingInv
<1>3. \A i \in DOMAIN entries : entries[i].priority \in Int
  BY <1>1 DEF Entries
<1> QED
  BY <1>2, <1>3 DEF Consistent

LEMMA CommitInv == ASSUME RankingAssumption, RankingInv, Commit PROVE RankingInv'
<1> DEFINE D == DOMAIN entries
<1>1. /\ entries \in Seq(Entries) /\ list' = list /\ committed' = TRUE
      /\ list \in {"url_v3", "url_v4", "metaurl"}
      /\ \A i \in D : entries[i] \in Entries /\ InRange(list, entries[i])
  BY DEF Commit, RankingInv
<1>2. PICK p \in Bijection(D, D) : entries' = [i \in D |-> entries[p[i]]]
  BY DEF Commit, QSorted, Permuted
<1>3. \A i, j \in D : i < j => Compare(entries'[i], entries'[j]) <= 0
  BY ComparisonConsistent DEF Commit, QSorted
<1>4. p \in [D -> D]
  BY <1>2 DEF Bijection, Injection
<1>5. DOMAIN entries' = D /\ \A i \in D : entries'[i] = entries[p[i]] /\ p[i] \in D
  BY <1>2, <1>4
<1>6. \A i \in D : entries'[i] \in Entries /\ InRange(list, entries'[i])
  BY <1>1, <1>5
<1>7. entries' \in Seq(Entries)
  <2>1. D = 1 .. Len(entries) /\ Len(entries) \in Nat
    BY <1>1
  <2>2. entries' \in [1 .. Len(entries) -> Entries]
    BY <1>2, <1>6, <2>1
  <2> QED
    BY <2>1, <2>2
<1>8. \A i, j \in D : i < j => entries'[i].priority <= entries'[j].priority
  BY <1>1, <1>3, <1>6, CompareIsExact
<1> QED
  BY <1>1, <1>5, <1>6, <1>7, <1>8 DEF RankingInv

LEMMA RankingNextInv ==
  ASSUME RankingAssumption, RankingInv, [RankingNext]_rankingVars PROVE RankingInv'
<1>1. CASE UNCHANGED rankingVars
  BY <1>1 DEF RankingInv, rankingVars
<1> QED
  BY <1>1, StartRankingInv, CommitInv DEF RankingNext

LEMMA RankingInvariance == ASSUME RankingAssumption PROVE RankingSpec => []RankingInv
<1>1. RankingInit => RankingInv
  BY RankingInitInv
<1>2. RankingInv /\ [RankingNext]_rankingVars => RankingInv'
  BY RankingNextInv
<1> QED
  BY <1>1, <1>2, PTL DEF RankingSpec

-----------------------------------------------------------------------------
LEMMA InvDifferences == ASSUME RankingAssumption, RankingInv PROVE DifferencesFit
<1>1. \A i \in DOMAIN entries : entries[i] \in Entries /\ InRange(list, entries[i])
  BY DEF RankingInv
<1>2. \A i, j \in DOMAIN entries :
        entries[i].priority - entries[j].priority \in - IntMax .. IntMax
  BY <1>1, Apart DEF RankingInv
<1> QED
  BY <1>2 DEF DifferencesFit, IntMin, RankingAssumption

\* Both numbers of an entry are ints: no width is too narrow for Pivot - preference.
LEMMA EntriesFit == ASSUME RankingAssumption, RankingInv PROVE RankingTypeOK
<1> DEFINE Ints == [preference : IntMin .. IntMax, priority : IntMin .. IntMax, attr : Attributes]
<1>1. ASSUME NEW x \in Entries, NEW l \in {"url_v3", "url_v4", "metaurl"}, InRange(l, x)
      PROVE  x \in Ints
  <2>1. Pivot \in 0 .. IntMax /\ 0 \in 0 .. IntMax /\ IntMax \in Int
    BY DEF RankingAssumption
  <2>2. PICK p, q : p = x.preference /\ q = x.priority
    OBVIOUS
  <2>3. /\ p \in 0 .. IntMax \/ \E n \in 0 .. IntMax : p = Pivot - n
        /\ q \in 0 .. IntMax \/ \E n \in 0 .. IntMax : q = Pivot - n
    BY <1>1, <2>1, <2>2 DEF InRange
  <2>4. p \in IntMin .. IntMax /\ q \in IntMin .. IntMax
    BY <2>1, <2>3 DEF IntMin
  <2>5. /\ x.attr \in Attributes
        /\ x = [preference |-> p, priority |-> q, attr |-> x.attr]
    BY <1>1, <2>2 DEF Entries
  <2> QED
    BY <2>4, <2>5
<1>2. \A k \in DOMAIN entries : entries[k] \in Ints
  BY <1>1 DEF RankingInv
<1>3. entries \in Seq(Entries) /\ DOMAIN entries = 1 .. Len(entries) /\ Len(entries) \in Nat
  BY DEF RankingInv
<1> HIDE DEF Ints
<1>4. entries \in Seq(Ints)
  BY <1>2, <1>3
<1> QED
  BY <1>4 DEF RankingInv, RankingTypeOK, Ints

\* The order of the array, in terms of what stands in the document.
LEMMA InvOrders ==
  ASSUME RankingAssumption, RankingInv, committed,
         NEW i \in DOMAIN entries, NEW j \in DOMAIN entries, i < j
  PROVE  IF list = "url_v3"
         THEN (IF RankedBy(entries[i]) THEN entries[i].attr.number ELSE 0)
                >= (IF RankedBy(entries[j]) THEN entries[j].attr.number ELSE 0)
         ELSE Priority4(entries[i]) <= Priority4(entries[j])
<1>1. \A k \in DOMAIN entries : entries[k] \in Entries /\ InRange(list, entries[k])
  BY DEF RankingInv
<1>2. PICK a, b : a = entries[i] /\ b = entries[j]
  OBVIOUS
<1>3. /\ a.priority <= b.priority /\ a.priority \in Int /\ b.priority \in Int
      /\ a.preference \in Int /\ b.preference \in Int
      /\ InRange(list, a) /\ InRange(list, b) /\ Pivot \in Int
  BY <1>1, <1>2 DEF RankingInv, Entries, RankingAssumption
<1>4. CASE list = "url_v3"
  <2>1. /\ a.priority = Pivot - a.preference /\ b.priority = Pivot - b.preference
        /\ a.preference = IF RankedBy(a) THEN a.attr.number ELSE 0
        /\ b.preference = IF RankedBy(b) THEN b.attr.number ELSE 0
    BY <1>3, <1>4 DEF InRange
  <2>2. a.preference >= b.preference
    BY <1>3, <2>1
  <2> QED
    BY <1>2, <1>4, <2>1, <2>2
<1>5. CASE list # "url_v3"
  <2>1. a.priority = Priority4(a) /\ b.priority = Priority4(b)
    BY <1>3, <1>5 DEF InRange, RankingInv
  <2> QED
    BY <1>2, <1>3, <1>5, <2>1
<1> QED
  BY <1>4, <1>5

LEMMA InvDocumentOrder == ASSUME RankingAssumption, RankingInv PROVE DocumentOrder
<1> SUFFICES ASSUME committed, NEW i \in DOMAIN entries, NEW j \in DOMAIN entries, i < j,
                    RankedBy(entries[i]), RankedBy(entries[j])
             PROVE  IF list = "url_v3" THEN entries[i].attr.number >= entries[j].attr.number
                    ELSE entries[i].attr.number <= entries[j].attr.number
  BY DEF DocumentOrder
<1> QED
  BY InvOrders DEF Priority4

LEMMA InvUnranked == ASSUME RankingAssumption, RankingInv PROVE UnrankedLast
<1> SUFFICES ASSUME committed, NEW i \in DOMAIN entries, NEW j \in DOMAIN entries, i < j,
                    ~RankedBy(entries[i]), RankedBy(entries[j])
             PROVE  IF list = "url_v3" THEN entries[j].attr.number = 0
                    ELSE entries[i].attr.says = "words" \/ entries[j].attr.number >= NoPriority
  BY DEF UnrankedLast
<1>1. entries[j].attr.number \in 0 .. IntMax /\ IntMax \in Nat /\ NoPriority \in 0 .. IntMax
  <2>1. entries[j] \in Entries
    BY DEF RankingInv
  <2>2. entries[j].attr \in Attributes
    BY <2>1 DEF Entries
  <2>3. entries[j].attr.number \in Int
    BY <2>2, AttributeIs
  <2> QED
    BY <2>3 DEF RankedBy, Usable, RankingAssumption
<1>2. CASE list = "url_v3"
  <2>1. 0 >= entries[j].attr.number
    BY <1>2, InvOrders
  <2> QED
    BY <1>1, <1>2, <2>1
<1>3. CASE list # "url_v3"
  <2>1. Priority4(entries[i]) <= Priority4(entries[j])
    BY <1>3, InvOrders
  <2>2. Priority4(entries[j]) = entries[j].attr.number
    BY DEF Priority4
  <2>3. entries[i].attr.says # "words" => Priority4(entries[i]) = NoPriority
    BY DEF Priority4
  <2> QED
    BY <1>1, <1>3, <2>1, <2>2, <2>3
<1> QED
  BY <1>2, <1>3

\* A text without digits is a 0, which nothing precedes in version 4 but a 0.
LEMMA InvWords == ASSUME RankingAssumption, RankingInv PROVE WordsComeFirst
<1> SUFFICES ASSUME committed, list # "url_v3", NEW i \in DOMAIN entries,
                    NEW j \in DOMAIN entries, i < j, entries[j].attr.says = "words"
             PROVE  entries[i].priority = 0
  BY DEF WordsComeFirst
<1>1. /\ entries[i].priority \in 0 .. IntMax /\ entries[i].priority = Priority4(entries[i])
      /\ IntMax \in Nat
  BY DEF RankingInv, InRange, RankingAssumption
<1>2. Priority4(entries[j]) = 0
  BY DEF Priority4, RankedBy
<1> QED
  BY <1>1, <1>2, InvOrders

\* The comparison functions of metalink_pctrl.c never overflow on the addresses
\* of one file, for any width of int and any document.
THEOREM ComparisonFits == ASSUME RankingAssumption PROVE RankingSpec => []DifferencesFit
BY RankingInvariance, InvDifferences, PTL

\* commit_file leaves the ranked addresses in the order of the document's numbers.
THEOREM OrderOfTheDocument == ASSUME RankingAssumption PROVE RankingSpec => []DocumentOrder
BY RankingInvariance, InvDocumentOrder, PTL

\* An address whose number is missing or unusable goes after the ranked ones, but
\* for a priority without digits.
THEOREM UnrankedGoLast == ASSUME RankingAssumption PROVE RankingSpec => []UnrankedLast
BY RankingInvariance, InvUnranked, PTL

\* A resource's two numbers add up to the pivot, so they order alike.
LEMMA InvBothOrders == ASSUME RankingAssumption, RankingInv PROVE BothOrdersAgree
<1> SUFFICES ASSUME list # "metaurl", NEW i \in DOMAIN entries, NEW j \in DOMAIN entries
             PROVE  entries[i].preference > entries[j].preference <=>
                      entries[i].priority < entries[j].priority
  BY DEF BothOrdersAgree
<1>0. \A k \in DOMAIN entries : entries[k] \in Entries /\ InRange(list, entries[k])
  BY DEF RankingInv
<1>1. \A k \in DOMAIN entries :
        /\ entries[k].preference \in Int
        /\ entries[k].priority \in Int
        /\ InRange(list, entries[k])
  BY <1>0 DEF Entries
<1>2. Pivot \in Int
  BY DEF RankingAssumption
<1>3. CASE list = "url_v3"
  <2>1. \A k \in DOMAIN entries : entries[k].priority = Pivot - entries[k].preference
    BY <1>1, <1>3 DEF InRange
  <2> QED
    BY <1>1, <1>2, <2>1
<1>4. CASE list = "url_v4"
  <2>1. \A k \in DOMAIN entries : entries[k].preference = Pivot - entries[k].priority
    BY <1>1, <1>4 DEF InRange
  <2> QED
    BY <1>1, <1>2, <2>1
<1> QED
  BY <1>3, <1>4 DEF RankingInv

\* Whatever attributes a document has, texts without digits among them, and however
\* many addresses a file has: where each comes in the array, by what its document
\* says of it.
THEOREM RanksAsAsked == ASSUME RankingAssumption PROVE RankingSpec => []RankedAsAsked
<1>1. RankingInv => BothOrdersAgree /\ WordsComeFirst BY InvBothOrders, InvWords
<1> QED
  BY <1>1, RankingInvariance, ComparisonFits, OrderOfTheDocument, UnrankedGoLast, PTL
  DEF RankedAsAsked

-----------------------------------------------------------------------------
(***************************************************************************)
(* Proofs about Calendar, for every year from 1 on and every zone: the     *)
(* closed formula of timegm grows by one from a day to the next, and a     *)
(* date is read as the instant it means.                                   *)
(***************************************************************************)
\* Division by a constant steps at its multiples.
LEMMA DivStep ==
  ASSUME NEW n \in Nat \ {0}
  PROVE  /\ n \div 4 = (n - 1) \div 4 + IF n % 4 = 0 THEN 1 ELSE 0
         /\ n \div 100 = (n - 1) \div 100 + IF n % 100 = 0 THEN 1 ELSE 0
         /\ n \div 400 = (n - 1) \div 400 + IF n % 400 = 0 THEN 1 ELSE 0
OBVIOUS

LEMMA LeapYearsAgree ==
  ASSUME NEW y \in Nat PROVE is_leap_year(y) <=> LeapYear(y)
<1>1. /\ y % 400 = 0 => y % 100 = 0
      /\ y % 100 = 0 => y % 4 = 0
  OBVIOUS
<1> QED
  BY <1>1 DEF is_leap_year, LeapYear

\* A year adds a leap day to the count when it is a leap year.
LEMMA LeapCountStep ==
  ASSUME NEW y \in Nat \ {0}
  PROVE  /\ count_leap_year(y) \in Int
         /\ count_leap_year(y + 1) =
              count_leap_year(y) + IF is_leap_year(y) THEN 1 ELSE 0
<1>1. /\ y \div 4 = (y - 1) \div 4 + IF y % 4 = 0 THEN 1 ELSE 0
      /\ y \div 100 = (y - 1) \div 100 + IF y % 100 = 0 THEN 1 ELSE 0
      /\ y \div 400 = (y - 1) \div 400 + IF y % 400 = 0 THEN 1 ELSE 0
  BY DivStep
<1>2. /\ y % 400 = 0 => y % 100 = 0
      /\ y % 100 = 0 => y % 4 = 0
  OBVIOUS
<1>3. /\ count_leap_year(y) = (y - 1) \div 4 - (y - 1) \div 100 + (y - 1) \div 400
      /\ count_leap_year(y + 1) = y \div 4 - y \div 100 + y \div 400
  BY DEF count_leap_year, Quot
<1>4. /\ (y - 1) \div 4 \in Int /\ (y - 1) \div 100 \in Int /\ (y - 1) \div 400 \in Int
  OBVIOUS
<1>5. is_leap_year(y) <=> y % 4 = 0 /\ (y % 100 # 0 \/ y % 400 = 0)
  BY DEF is_leap_year
<1>6. CASE y % 4 # 0
  BY <1>1, <1>2, <1>3, <1>4, <1>5, <1>6
<1>7. CASE y % 4 = 0 /\ y % 100 # 0
  BY <1>1, <1>2, <1>3, <1>4, <1>5, <1>7
<1>8. CASE y % 100 = 0 /\ y % 400 # 0
  BY <1>1, <1>2, <1>3, <1>4, <1>5, <1>8
<1>9. CASE y % 400 = 0
  BY <1>1, <1>2, <1>3, <1>4, <1>5, <1>9
<1> QED
  BY <1>6, <1>7, <1>8, <1>9

DayMinutes == 0 .. OneDay - 1
Shifts == 1 .. OneDay - 1
TwoDays == 1 .. 2 * OneDay - 1

RealDates == {d \in Dates : d.mday <= MonthLength(d.year, d.mon)}

\* The table of timegm is the sum of the months' lengths.
LEMMA DaysumStep ==
  ASSUME NEW m \in 0 .. 10, NEW y \in Nat
  PROVE  /\ daysum[m] \in Int
         /\ daysum[m + 1] + (IF m + 1 >= 2 /\ is_leap_year(y) THEN 1 ELSE 0) =
              daysum[m] + (IF m >= 2 /\ is_leap_year(y) THEN 1 ELSE 0) + MonthLength(y, m)
<1>1. is_leap_year(y) <=> LeapYear(y)
  BY LeapYearsAgree
<1>2. /\ daysum[0] = 0 /\ daysum[1] = 31 /\ daysum[2] = 59 /\ daysum[3] = 90
      /\ daysum[4] = 120 /\ daysum[5] = 151 /\ daysum[6] = 181 /\ daysum[7] = 212
      /\ daysum[8] = 243 /\ daysum[9] = 273 /\ daysum[10] = 304 /\ daysum[11] = 334
  BY DEF daysum
<1>3. m = 0 \/ m = 1 \/ m = 2 \/ m = 3 \/ m = 4 \/ m = 5 \/ m = 6 \/ m = 7 \/ m = 8
      \/ m = 9 \/ m = 10
  OBVIOUS
<1>4. MonthLength(y, m) = CASE m \in {3, 5, 8, 10} -> 30
                            [] m = 1 -> IF is_leap_year(y) THEN 29 ELSE 28
                            [] OTHER -> 31
  BY <1>1 DEF MonthLength
<1> QED
  BY <1>2, <1>3, <1>4

LEMMA NextDayIsReal ==
  ASSUME NEW d \in RealDates
  PROVE  /\ NextDay(d) \in RealDates
         /\ NextDay(d).hour = d.hour /\ NextDay(d).min = d.min
<1>1. /\ d.year \in Nat \ {0} /\ d.mon \in Months /\ d.mday \in MonthDays
      /\ d.hour \in Hours /\ d.min \in Minutes
  BY DEF RealDates, Dates
<1>2. \A y, m : MonthLength(y, m) \in 28 .. 31
  BY DEF MonthLength
<1>3. CASE d.mday < MonthLength(d.year, d.mon)
  <2>1. NextDay(d) = Date(d.year, d.mon, d.mday + 1, d.hour, d.min)
    BY <1>3 DEF NextDay
  <2>2. d.mday + 1 \in MonthDays /\ d.mday + 1 <= MonthLength(d.year, d.mon)
    BY <1>1, <1>2, <1>3 DEF MonthDays
  <2>3. /\ NextDay(d) \in Dates /\ NextDay(d).year = d.year /\ NextDay(d).mon = d.mon
        /\ NextDay(d).mday = d.mday + 1 /\ NextDay(d).hour = d.hour /\ NextDay(d).min = d.min
    BY <1>1, <2>1, <2>2 DEF Date, Dates
  <2> QED
    BY <2>2, <2>3 DEF RealDates
<1>4. CASE ~(d.mday < MonthLength(d.year, d.mon)) /\ d.mon < 11
  <2>1. NextDay(d) = Date(d.year, d.mon + 1, 1, d.hour, d.min)
    BY <1>4 DEF NextDay
  <2>2. d.mon + 1 \in Months /\ 1 \in MonthDays /\ 1 <= MonthLength(d.year, d.mon + 1)
    BY <1>1, <1>2, <1>4 DEF Months, MonthDays
  <2>3. /\ NextDay(d) \in Dates /\ NextDay(d).year = d.year /\ NextDay(d).mon = d.mon + 1
        /\ NextDay(d).mday = 1 /\ NextDay(d).hour = d.hour /\ NextDay(d).min = d.min
    BY <1>1, <2>1, <2>2 DEF Date, Dates
  <2> QED
    BY <2>2, <2>3 DEF RealDates
<1>5. CASE ~(d.mday < MonthLength(d.year, d.mon)) /\ ~(d.mon < 11)
  <2>1. NextDay(d) = Date(d.year + 1, 0, 1, d.hour, d.min)
    BY <1>5 DEF NextDay
  <2>2. /\ d.year + 1 \in Nat \ {0} /\ 0 \in Months /\ 1 \in MonthDays
        /\ 1 <= MonthLength(d.year + 1, 0)
    BY <1>1, <1>2 DEF Months, MonthDays
  <2>3. /\ NextDay(d) \in Dates /\ NextDay(d).year = d.year + 1 /\ NextDay(d).mon = 0
        /\ NextDay(d).mday = 1 /\ NextDay(d).hour = d.hour /\ NextDay(d).min = d.min
    BY <1>1, <2>1, <2>2 DEF Date, Dates
  <2> QED
    BY <2>2, <2>3 DEF RealDates
<1> QED
  BY <1>3, <1>4, <1>5

\* The clock within a day.
LEMMA Clock ==
  ASSUME NEW n \in DayMinutes
  PROVE  n \div 60 \in Hours /\ n % 60 \in Minutes /\ (n \div 60) * 60 + (n % 60) = n
BY DEF DayMinutes, Hours, Minutes, OneDay

LEMMA ClockSum ==
  ASSUME NEW h \in Hours, NEW mi \in Minutes, NEW k \in Shifts
  PROVE  h * 60 + mi + k \in TwoDays
BY DEF Hours, Minutes, Shifts, TwoDays, OneDay

\* The formula of timegm grows by one from every day to the next.
LEMMA DaysStep ==
  ASSUME NEW d \in RealDates
  PROVE  Days(d) \in Int /\ Days(NextDay(d)) = Days(d) + 1
<1>1. /\ d.year \in Nat \ {0} /\ d.mon \in Months /\ d.mday \in MonthDays
      /\ d.mday <= MonthLength(d.year, d.mon)
  BY DEF RealDates, Dates
<1>2. count_leap_year(d.year) \in Int /\ count_leap_year(1970) \in Int
  BY <1>1, LeapCountStep
<1>3. daysum[d.mon] \in Int
  BY <1>1 DEF daysum, Months
<1>4. Days(d) \in Int
  BY <1>1, <1>2, <1>3 DEF Days, Months, MonthDays
<1>5. CASE d.mday < MonthLength(d.year, d.mon)
  <2>1. /\ NextDay(d).year = d.year /\ NextDay(d).mon = d.mon
        /\ NextDay(d).mday = d.mday + 1
    BY <1>1, <1>5 DEF NextDay, Date
  <2> QED
    BY <1>1, <1>2, <1>3, <1>4, <2>1 DEF Days, Months, MonthDays
<1>6. CASE d.mday = MonthLength(d.year, d.mon) /\ d.mon < 11
  <2>1. /\ NextDay(d).year = d.year /\ NextDay(d).mon = d.mon + 1
        /\ NextDay(d).mday = 1
    <3>1. ~(d.mday < MonthLength(d.year, d.mon))
      BY <1>1, <1>6 DEF MonthDays
    <3>2. NextDay(d) = Date(d.year, d.mon + 1, 1, d.hour, d.min)
      BY <1>6, <3>1 DEF NextDay
    <3> QED
      BY <3>2 DEF Date
  <2>2. d.mon \in 0 .. 10 /\ d.mon + 1 \in Months
    BY <1>1, <1>6 DEF Months
  <2>3. daysum[d.mon + 1] \in Int
    BY <2>2 DEF daysum, Months
  <2>4. daysum[d.mon + 1] + (IF d.mon + 1 >= 2 /\ is_leap_year(d.year) THEN 1 ELSE 0) =
          daysum[d.mon] + (IF d.mon >= 2 /\ is_leap_year(d.year) THEN 1 ELSE 0) + d.mday
    BY <1>1, <1>6, <2>2, DaysumStep
  <2> QED
    BY <1>1, <1>2, <1>3, <1>4, <2>1, <2>3, <2>4 DEF Days, Months, MonthDays
<1>7. CASE d.mday = MonthLength(d.year, d.mon) /\ d.mon = 11
  <2>1. /\ NextDay(d).year = d.year + 1 /\ NextDay(d).mon = 0
        /\ NextDay(d).mday = 1
    <3>1. ~(d.mday < MonthLength(d.year, d.mon)) /\ ~(d.mon < 11)
      BY <1>1, <1>7 DEF MonthDays
    <3>2. NextDay(d) = Date(d.year + 1, 0, 1, d.hour, d.min)
      BY <3>1 DEF NextDay
    <3> QED
      BY <3>2 DEF Date
  <2>2. d.mday = 31
    BY <1>7 DEF MonthLength
  <2>3. daysum[11] = 334 /\ daysum[0] = 0
    BY DEF daysum
  <2>4. count_leap_year(d.year + 1) =
          count_leap_year(d.year) + IF is_leap_year(d.year) THEN 1 ELSE 0
    BY <1>1, LeapCountStep
  <2> QED
    BY <1>1, <1>2, <1>4, <1>7, <2>1, <2>2, <2>3, <2>4 DEF Days, Months, MonthDays
<1> QED
  BY <1>1, <1>4, <1>5, <1>6, <1>7 DEF MonthLength, Months, MonthDays

LEMMA AtMinuteLocal ==
  ASSUME NEW e \in RealDates, NEW n \in DayMinutes
  PROVE  AtMinute(e, n) \in RealDates /\ Local(AtMinute(e, n)) = Days(e) * OneDay + n
<1> DEFINE r == AtMinute(e, n)
<1>1. n \div 60 \in Hours /\ n % 60 \in Minutes /\ (n \div 60) * 60 + (n % 60) = n
  BY Clock
<1>2. /\ e.year \in Nat \ {0} /\ e.mon \in Months /\ e.mday \in MonthDays
      /\ e.mday <= MonthLength(e.year, e.mon)
  BY DEF RealDates, Dates
<1>3. /\ r \in Dates /\ r.year = e.year /\ r.mon = e.mon /\ r.mday = e.mday
      /\ r.hour = n \div 60 /\ r.min = n % 60
  BY <1>1, <1>2 DEF AtMinute, Date, Dates
<1> HIDE DEF r
<1>4. r \in RealDates
  BY <1>2, <1>3 DEF RealDates
<1>5. Days(r) = Days(e)
  BY <1>3 DEF Days
<1>6. Days(e) \in Int
  BY DaysStep
<1>7. Local(r) = Days(e) * OneDay + (n \div 60) * 60 + (n % 60)
  BY <1>3, <1>5 DEF Local, OneDay
<1>8. Local(r) = Days(e) * OneDay + n
  BY <1>1, <1>6, <1>7 DEF OneDay, DayMinutes, Hours, Minutes
<1> QED
  BY <1>4, <1>8 DEF r

LEMMA LocalIsInt == ASSUME NEW d \in RealDates PROVE Local(d) \in Int
<1>1. d.hour \in Hours /\ d.min \in Minutes
  BY DEF RealDates, Dates
<1>2. Days(d) \in Int
  BY DaysStep
<1>3. d.hour \in Int /\ d.min \in Int
  BY <1>1 DEF Hours, Minutes
<1> QED
  BY <1>2, <1>3 DEF Local, OneDay

\* A local time k minutes later is k minutes more.
LEMMA LaterStep ==
  ASSUME NEW d \in RealDates, NEW k \in Shifts
  PROVE  Later(d, k) \in RealDates /\ Local(d) \in Int /\ Local(Later(d, k)) = Local(d) + k
<1> DEFINE m == d.hour * 60 + d.min + k
<1>1. d.hour \in Hours /\ d.min \in Minutes
  BY DEF RealDates, Dates
<1>2. m \in TwoDays
  BY <1>1, ClockSum, Zenon
<1>3. Days(d) \in Int /\ Days(NextDay(d)) = Days(d) + 1 /\ NextDay(d) \in RealDates
  BY DaysStep, NextDayIsReal
<1>4. Local(d) = Days(d) * OneDay + d.hour * 60 + d.min /\ Local(d) \in Int
  BY LocalIsInt DEF Local
<1>5. Local(d) + k = Days(d) * OneDay + m
  <2>1. \A D, h, mi, x \in Int : D * OneDay + h * 60 + mi + x = D * OneDay + (h * 60 + mi + x)
    BY DEF OneDay
  <2>2. Days(d) \in Int /\ d.hour \in Int /\ d.min \in Int /\ k \in Int
    BY <1>1, <1>3 DEF OneDay, Hours, Minutes, Shifts
  <2> QED
    BY <1>4, <2>1, <2>2
<1>6. CASE m >= OneDay
  <2>1. Later(d, k) = AtMinute(NextDay(d), m - OneDay)
    BY <1>6 DEF Later
  <2> HIDE DEF m
  <2>2. m - OneDay \in DayMinutes
    BY <1>2, <1>6 DEF OneDay, TwoDays, DayMinutes
  <2>3. /\ AtMinute(NextDay(d), m - OneDay) \in RealDates
        /\ Local(AtMinute(NextDay(d), m - OneDay)) = Days(NextDay(d)) * OneDay + (m - OneDay)
    BY <1>3, <2>2, AtMinuteLocal
  <2>4. Days(NextDay(d)) * OneDay + (m - OneDay) = Days(d) * OneDay + m
    BY <1>2, <1>3 DEF OneDay, TwoDays
  <2> QED
    BY <1>4, <1>5, <2>1, <2>3, <2>4
<1>7. CASE ~(m >= OneDay)
  <2>1. Later(d, k) = AtMinute(d, m)
    BY <1>7 DEF Later
  <2> HIDE DEF m
  <2>2. m \in DayMinutes
    BY <1>2, <1>7 DEF OneDay, TwoDays, DayMinutes
  <2> QED
    BY <1>4, <1>5, <2>1, <2>2, AtMinuteLocal
<1> QED
  BY <1>6, <1>7

-----------------------------------------------------------------------------
\* The inductive invariant: the formula and the calendar agree on every date.
CalendarInv ==
  /\ tm \in RealDates
  /\ zone \in - MaxZone .. MaxZone
  /\ form \in {"offset", "bare", "unreadable"}
  /\ form = "bare" => zone = 0
  /\ instant = Local(tm) - zone

LEMMA CalendarInitInv == ASSUME CalendarAssumption, DateInit PROVE CalendarInv
<1>1. tm \in RealDates
  <2>1. PICK y \in Years : tm = Date(y, 0, 1, 0, 0)
    BY DEF DateInit
  <2>2. /\ y \in Nat \ {0} /\ 0 \in Months /\ 1 \in MonthDays /\ 0 \in Hours
        /\ 0 \in Minutes /\ 1 <= MonthLength(y, 0)
    BY DEF CalendarAssumption, MonthLength, Months, MonthDays, Hours, Minutes
  <2>3. tm \in Dates /\ tm.year = y /\ tm.mon = 0 /\ tm.mday = 1
    BY <2>1, <2>2 DEF Date, Dates
  <2> QED
    BY <2>2, <2>3 DEF RealDates
<1> QED
  BY <1>1 DEF DateInit, CalendarInv, CalendarAssumption

LEMMA CalendarStepInv == ASSUME CalendarAssumption, CalendarInv, [DateNext]_dateVars PROVE CalendarInv'
<1>1. CASE Tomorrow
  <2>1. Days(tm) \in Int /\ Days(NextDay(tm)) = Days(tm) + 1
    BY DaysStep DEF CalendarInv
  <2>2. /\ NextDay(tm) \in RealDates
        /\ NextDay(tm).hour = tm.hour /\ NextDay(tm).min = tm.min
    BY NextDayIsReal DEF CalendarInv
  <2>3. tm.hour \in Int /\ tm.min \in Int /\ zone \in Int
    BY DEF CalendarInv, RealDates, Dates, Hours, Minutes, CalendarAssumption
  <2>4. Local(NextDay(tm)) = Local(tm) + OneDay /\ Local(tm) \in Int
    BY <2>1, <2>2, <2>3 DEF Local, OneDay
  <2>5. tm' = NextDay(tm) /\ instant' = instant + OneDay /\ zone' = zone /\ form' = form
    BY <1>1 DEF Tomorrow
  <2>6. Local(tm') = Local(tm) + OneDay
    BY <2>4, <2>5
  <2>7. instant' = Local(tm') - zone'
    <3>1. instant = Local(tm) - zone
      BY DEF CalendarInv
    <3> QED
      BY <2>3, <2>4, <2>5, <2>6, <3>1 DEF OneDay
  <2> QED
    BY <2>2, <2>5, <2>7 DEF CalendarInv
<1>2. CASE East
  <2>1. /\ Later(tm, ZoneStep) \in RealDates /\ Local(tm) \in Int
        /\ Local(Later(tm, ZoneStep)) = Local(tm) + ZoneStep
    <3>1. tm \in RealDates /\ ZoneStep \in Shifts
      BY DEF CalendarInv, Shifts, CalendarAssumption
    <3>2. \A d \in RealDates, k \in Shifts :
            Later(d, k) \in RealDates /\ Local(d) \in Int /\ Local(Later(d, k)) = Local(d) + k
      BY LaterStep, Zenon
    <3> QED
      BY <3>1, <3>2, Zenon
  <2> QED
    BY <1>2, <2>1 DEF East, CalendarInv, CalendarAssumption
<1>3. CASE Bare \/ Garble \/ UNCHANGED dateVars
  BY <1>3 DEF Bare, Garble, dateVars, CalendarInv
<1> QED
  BY <1>1, <1>2, <1>3 DEF DateNext

LEMMA CalendarInvariance == ASSUME CalendarAssumption PROVE DateSpec => []CalendarInv
<1>1. DateInit => CalendarInv
  BY CalendarInitInv
<1>2. CalendarInv /\ [DateNext]_dateVars => CalendarInv'
  BY CalendarStepInv
<1> QED
  BY <1>1, <1>2, PTL DEF DateSpec

LEMMA InvInstant == ASSUME CalendarAssumption, CalendarInv PROVE InstantRead
<1>1. tm \in RealDates /\ zone \in - MaxZone .. MaxZone /\ instant = Local(tm) - zone
  BY DEF CalendarInv
<1>2. Local(tm) \in Int
  BY <1>1, LocalIsInt
<1>3. MaxZone \in DayMinutes /\ TimeMin \in Int /\ TimeMax \in Int
  BY DEF CalendarAssumption, OneDay, DayMinutes
<1>4. ZoneHour(zone) * 60 + ZoneMin(zone) = Abs(zone)
  BY <1>1, <1>3 DEF ZoneHour, ZoneMin, Abs
<1>5. Sign(zone) * Abs(zone) = - zone
  BY <1>1, <1>3 DEF Sign, Abs
<1> SUFFICES ASSUME form # "unreadable", InTime(Local(tm)), InTime(instant)
             PROVE  parse_date = instant
  BY DEF InstantRead
<1>6. timegm(tm) = Local(tm)
  BY DEF timegm, InTime
<1>7. CASE form = "bare"
  <2>1. zone = 0
    BY <1>7 DEF CalendarInv
  <2> QED
    BY <1>1, <1>2, <1>6, <1>7, <2>1 DEF parse_date
<1>8. CASE form = "offset"
  <2>1. parse_date = WrapTime(Local(tm) - zone)
    BY <1>1, <1>2, <1>3, <1>4, <1>5, <1>6, <1>8 DEF parse_date
  <2> QED
    BY <1>1, <1>2, <1>3, <2>1 DEF WrapTime, InTime
<1> QED
  BY <1>7, <1>8 DEF CalendarInv

\* parse_date reads every date of the years from 1 on, in any zone of less than
\* a day, as the instant it means, as long as time_t can hold it.
THEOREM DatesAreRead == ASSUME CalendarAssumption PROVE DateSpec => []InstantRead
BY CalendarInvariance, InvInstant, PTL

\* The result is a time_t, whether or not the date and its instant are.
LEMMA ResultFits == ASSUME CalendarAssumption, CalendarInv PROVE DateTypeOK
<1>1. tm \in RealDates /\ zone \in - MaxZone .. MaxZone /\ instant = Local(tm) - zone
  BY DEF CalendarInv
<1>2. Local(tm) \in Int
  BY <1>1, LocalIsInt
<1>3. /\ MaxZone \in 0 .. OneDay - 1 /\ OneDay \in Nat /\ TimeMin \in Int /\ TimeMax \in Int
      /\ TimeMin < - OneDay /\ TimeMax > OneDay
  BY DEF CalendarAssumption, OneDay
<1>4. timegm(tm) \in TimeMin .. TimeMax
  BY <1>2, <1>3 DEF timegm
<1>5. /\ Sign(zone) * (ZoneHour(zone) * 60 + ZoneMin(zone)) = - zone
      /\ zone \in Int /\ - zone < OneDay /\ zone < OneDay
  <2>1. ZoneHour(zone) * 60 + ZoneMin(zone) = Abs(zone)
    BY <1>1, <1>3 DEF ZoneHour, ZoneMin, Abs
  <2>2. Sign(zone) * Abs(zone) = - zone
    BY <1>1, <1>3 DEF Sign, Abs
  <2> QED
    BY <1>1, <1>3, <2>1, <2>2
<1>6. WrapTime(timegm(tm) - zone) \in TimeMin .. TimeMax
  <2>1. PICK t : t = timegm(tm)
    OBVIOUS
  <2>2. t \in TimeMin .. TimeMax
    BY <1>4, <2>1
  <2> QED
    BY <1>3, <1>5, <2>1, <2>2 DEF WrapTime
<1>7. timegm(tm) + - zone = timegm(tm) - zone
  BY <1>3, <1>4, <1>5
<1>8. parse_date \in TimeMin .. TimeMax
  <2>1. CASE form = "unreadable"
    BY <1>3, <2>1 DEF parse_date
  <2>2. CASE form = "bare"
    BY <1>4, <2>2 DEF parse_date
  <2>3. CASE form = "offset"
    <3>1. parse_date = WrapTime(timegm(tm) + Sign(zone) * (ZoneHour(zone) * 60 + ZoneMin(zone)))
      BY <2>3 DEF parse_date
    <3> QED
      BY <1>5, <1>6, <1>7, <3>1
  <2> QED
    BY <2>1, <2>2, <2>3 DEF CalendarInv
<1>9. tm \in Dates /\ tm.mday <= MonthLength(tm.year, tm.mon)
  BY <1>1 DEF RealDates
<1>10. instant \in Int
  BY <1>1, <1>2, <1>3
<1> QED
  BY <1>8, <1>9, <1>10 DEF CalendarInv, DateTypeOK

\* In every zone the first day of 1970 is the day from which minutes are counted.
LEMMA InvEpoch == ASSUME CalendarAssumption, CalendarInv PROVE CountFromEpoch
<1> SUFFICES ASSUME tm.year = 1970, tm.mon = 0, tm.mday = 1
             PROVE  instant = tm.hour * 60 + tm.min - zone
  BY DEF CountFromEpoch
<1>1. tm \in Dates
  BY DEF CalendarInv, RealDates
<1>2. tm.hour \in Int /\ tm.min \in Int /\ zone \in Int
  BY <1>1 DEF CalendarInv, Dates, Hours, Minutes, CalendarAssumption, OneDay
<1>3. count_leap_year(1970) \in Int
  BY DEF count_leap_year, Quot
<1>4. Days(tm) = 0
  BY <1>3 DEF Days, daysum
<1> QED
  BY <1>2, <1>4 DEF CalendarInv, Local, OneDay

\* Every date from the year 1 on that time_t can hold is read as it is meant.
THEOREM ReadsEveryDate == ASSUME CalendarAssumption PROVE DateSpec => []DatesRead
BY CalendarInvariance, InvInstant, InvEpoch, PTL DEF DatesRead

-----------------------------------------------------------------------------
(***************************************************************************)
(* Proofs about SafePath, for paths of any length: what is taken names a   *)
(* file below the directory, and nothing else is refused.                  *)
(***************************************************************************)
\* The inductive invariant.  The verdict follows from the path, and while the
\* loop runs no forbidden character has been read.
PathInv ==
  /\ PathTypeOK
  /\ FilenameFound
  /\ verdict = "scanning" => \A k \in 0 .. len - 1 : At(k) \notin Forbidden
  /\ verdict = "safe" => path # <<>> /\ Safe
  /\ verdict = "unsafe" =>
       \/ path = <<>> \/ ~Safe
       \/ \E k \in 0 .. len - 1 : At(k) \in Forbidden

LEMMA PathInitInv == ASSUME PathInit PROVE PathInv
BY DEF PathInit, PathInv, PathTypeOK, FilenameFound, Component, len, At

\* A turn of the loop keeps track of the last component.
LEMMA ReadInv ==
  ASSUME SafePathAssumption, PathInv, NEW c \in Char, ReadChar(c) PROVE PathInv'
<1> DEFINE n == Len(path)
<1>1. /\ path \in Seq(Char) /\ n \in Nat /\ filename_idx \in 0 .. n
      /\ path' = Append(path, c) /\ c \notin Forbidden
      /\ verdict = "scanning" /\ verdict' = "scanning"
      /\ filename_idx' = IF c = "/" THEN n + 1 ELSE filename_idx
  BY DEF ReadChar, PathInv, PathTypeOK, len
<1>2. /\ path' \in Seq(Char) /\ Len(path') = n + 1
      /\ \A k \in 0 .. n - 1 : path'[k + 1] = path[k + 1]
      /\ path'[n + 1] = c
  BY <1>1
<1>3. filename_idx' \in 0 .. n + 1
  BY <1>1
<1>4. PathTypeOK'
  BY <1>1, <1>2, <1>3 DEF PathTypeOK, len
<1>5. \A k \in 0 .. n - 1 : path[k + 1] \notin Forbidden
  BY <1>1 DEF PathInv, len, At
<1>6. \A k \in 0 .. n : path'[k + 1] \notin Forbidden
  BY <1>1, <1>2, <1>5
<1>7. /\ filename_idx = 0 \/ path[filename_idx - 1 + 1] = "/"
      /\ \A k \in filename_idx .. n - 1 : path[k + 1] # "/"
  BY DEF PathInv, FilenameFound, Component, len, At
<1>8. FilenameFound'
  <2>1. CASE c = "/"
    <3>1. filename_idx' = n + 1 /\ path'[n + 1] = "/"
      BY <1>1, <1>2, <2>1
    <3> QED
      BY <1>1, <1>2, <3>1 DEF FilenameFound, Component, len, At
  <2>2. CASE c # "/"
    <3>1. filename_idx' = filename_idx
      BY <1>1, <2>2
    <3>2. \A k \in filename_idx .. n : path'[k + 1] # "/"
      BY <1>1, <1>2, <1>7, <2>2
    <3>3. filename_idx = 0 \/ path'[filename_idx - 1 + 1] = "/"
      BY <1>1, <1>2, <1>7
    <3> QED
      BY <1>1, <1>2, <3>1, <3>2, <3>3 DEF FilenameFound, Component, len, At
  <2> QED
    BY <2>1, <2>2
<1> QED
  BY <1>1, <1>2, <1>4, <1>6, <1>8 DEF PathInv, len, At

\* The character that ends the function is in the path.
LEMMA RefuseInv ==
  ASSUME SafePathAssumption, PathInv, NEW c \in Char, Refuse(c) PROVE PathInv'
<1> DEFINE n == Len(path)
<1>1. /\ path \in Seq(Char) /\ n \in Nat /\ filename_idx \in 0 .. n
      /\ path' = Append(path, c) /\ c \in Forbidden /\ c # "/"
      /\ verdict' = "unsafe" /\ filename_idx' = filename_idx
  BY DEF Refuse, PathInv, PathTypeOK, len, Forbidden
<1>2. /\ path' \in Seq(Char) /\ Len(path') = n + 1
      /\ \A k \in 0 .. n - 1 : path'[k + 1] = path[k + 1]
      /\ path'[n + 1] = c
  BY <1>1
<1>3. /\ filename_idx = 0 \/ path[filename_idx - 1 + 1] = "/"
      /\ \A k \in filename_idx .. n - 1 : path[k + 1] # "/"
  BY DEF PathInv, FilenameFound, Component, len, At
<1>4. PathTypeOK'
  BY <1>1, <1>2 DEF PathTypeOK, len
<1>5. \A k \in filename_idx .. n : path'[k + 1] # "/"
  BY <1>1, <1>2, <1>3
<1>6. filename_idx = 0 \/ path'[filename_idx - 1 + 1] = "/"
  BY <1>1, <1>2, <1>3
<1>7. FilenameFound'
  BY <1>1, <1>2, <1>5, <1>6 DEF FilenameFound, Component, len, At
<1> QED
  BY <1>1, <1>2, <1>4, <1>7 DEF PathInv, len, At

LEMMA PathStepInv == ASSUME SafePathAssumption, PathInv, [PathNext]_pathVars PROVE PathInv'
<1>1. CASE \E c \in Char : ReadChar(c)
  BY <1>1, ReadInv
<1>2. CASE \E c \in Char : Refuse(c)
  BY <1>2, RefuseInv
<1>3. CASE Judge
  BY <1>3 DEF Judge, PathInv, PathTypeOK, FilenameFound, Component, len, At, Safe,
    PrefixesOk, NoDotsInside, DriveLetter, Holds, EndsWith
<1>4. CASE UNCHANGED pathVars
  BY <1>4 DEF pathVars, PathInv, PathTypeOK, FilenameFound, Component, len, At, Safe,
    PrefixesOk, NoDotsInside, DriveLetter, Holds, EndsWith
<1> QED
  BY <1>1, <1>2, <1>3, <1>4 DEF PathNext

-----------------------------------------------------------------------------
LEMMA Places ==
  ASSUME PathInv
  PROVE  len \in Nat /\ filename_idx \in 0 .. len /\ Component(filename_idx, len)
<1>1. len \in Nat /\ filename_idx \in 0 .. len
  BY DEF PathInv, PathTypeOK, len
<1>2. Component(filename_idx, len)
  BY DEF PathInv, FilenameFound
<1> QED
  BY <1>1, <1>2

\* The last component starts at filename_idx, and at no other place.
LEMMA LastComponent ==
  ASSUME PathInv, NEW i \in 0 .. len, Component(i, len) PROVE i = filename_idx
<1>1. ~(i < filename_idx)
  BY Places DEF Component
<1>2. ~(filename_idx < i)
  BY Places DEF Component
<1> QED
  BY Places, <1>1, <1>2

\* A component between two others is found by strstr with its slashes.
LEMMA InnerDots ==
  ASSUME PathInv, NEW i \in 1 .. len, NEW j \in i .. len - 1, Component(i, j)
  PROVE  /\ j = i + 1 /\ At(i) = "." => Holds(<<"/", ".", "/">>)
         /\ j = i + 2 /\ At(i) = "." /\ At(i + 1) = "." => Holds(<<"/", ".", ".", "/">>)
<1>1. len \in Nat /\ At(i - 1) = "/" /\ At(j) = "/" /\ i - 1 \in 0 .. len
  BY DEF PathInv, PathTypeOK, len, Component
<1>2. ASSUME j = i + 1, At(i) = "." PROVE Holds(<<"/", ".", "/">>)
  <2> DEFINE s == <<"/", ".", "/">>
  <2>1. Len(s) = 3 /\ s[1] = "/" /\ s[2] = "." /\ s[3] = "/"
    OBVIOUS
  <2>2. (i - 1) + 3 <= len
    BY <1>1, <1>2
  <2>3. \A k \in 1 .. 3 : At((i - 1) + k - 1) = s[k]
    BY <1>1, <1>2, <2>1
  <2> HIDE DEF s
  <2>4. Holds(s)
    BY <1>1, <2>1, <2>2, <2>3 DEF Holds
  <2> QED
    BY <2>4 DEF s
<1>3. ASSUME j = i + 2, At(i) = ".", At(i + 1) = "."
      PROVE  Holds(<<"/", ".", ".", "/">>)
  <2> DEFINE s == <<"/", ".", ".", "/">>
  <2>1. Len(s) = 4 /\ s[1] = "/" /\ s[2] = "." /\ s[3] = "." /\ s[4] = "/"
    OBVIOUS
  <2>2. (i - 1) + 4 <= len
    BY <1>1, <1>3
  <2>3. \A k \in 1 .. 4 : At((i - 1) + k - 1) = s[k]
    BY <1>1, <1>3, <2>1
  <2> HIDE DEF s
  <2>4. Holds(s)
    BY <1>1, <2>1, <2>2, <2>3 DEF Holds
  <2> QED
    BY <2>4 DEF s
<1> QED
  BY <1>2, <1>3

LEMMA SafeHasNoDots == ASSUME PathInv PROVE NoDotComponents
<1> SUFFICES ASSUME verdict = "safe", NEW i \in 0 .. len, NEW j \in 0 .. len,
                    Component(i, j), At(i) = ".",
                    j = i + 1 \/ (j = i + 2 /\ At(i + 1) = ".")
             PROVE  FALSE
  BY DEF NoDotComponents
<1>1. len \in Nat /\ Safe /\ filename_idx # len /\ filename_idx \in 0 .. len
  BY DEF PathInv, PathTypeOK, Safe, len
<1>2. i # 0
  BY <1>1 DEF Safe, PrefixesOk, bad_prefix
<1>3. CASE j = len
  <2>1. i = filename_idx
    BY <1>3, LastComponent
  <2> QED
    BY <1>1, <1>2, <2>1 DEF Safe, PrefixesOk, bad_prefix
<1>4. CASE j # len
  <2>1. i \in 1 .. len /\ j \in i .. len - 1
    BY <1>1, <1>2, <1>4
  <2>2. Holds(<<"/", ".", "/">>) \/ Holds(<<"/", ".", ".", "/">>)
    BY <2>1, InnerDots
  <2> QED
    BY <1>1, <2>2 DEF Safe, NoDotsInside
<1> QED
  BY <1>3, <1>4

LEMMA SafeNamesAFile == ASSUME PathInv PROVE NamesAFile
<1> SUFFICES ASSUME verdict = "safe" PROVE NamesAFile
  BY DEF NamesAFile
<1>1. /\ len \in Nat /\ path # <<>> /\ Safe /\ filename_idx # len
      /\ filename_idx \in 0 .. len
  BY DEF PathInv, PathTypeOK, Safe, len
<1>2. len > 0
  BY <1>1 DEF len
<1>3. ASSUME NEW i \in 0 .. len - 1, i = 0 \/ Component(i, len)
      PROVE  At(i) \notin {" ", ".", "~", "/"}
  <2>1. i = 0 \/ i = filename_idx
    BY <1>1, <1>3, LastComponent
  <2> QED
    BY <1>1, <2>1 DEF Safe, PrefixesOk, bad_prefix
<1> QED
  BY <1>1, <1>2, <1>3 DEF NamesAFile, Safe, bad_suffix

-----------------------------------------------------------------------------
\* What strstr finds is a component between two others.
LEMMA HoldsDots ==
  ASSUME PathInv, ~NoDotsInside
  PROVE  \E i, j \in 0 .. len : /\ Component(i, j) /\ j - i \in {1, 2}
                                /\ \A k \in i .. j - 1 : At(k) = "."
<1>1. len \in Nat
  BY DEF PathInv, PathTypeOK, len
<1>2. CASE Holds(<<"/", ".", "/">>)
  <2>1. PICK i \in 0 .. len : i + 3 <= len /\ At(i) = "/" /\ At(i + 1) = "." /\ At(i + 2) = "/"
    <3> DEFINE s == <<"/", ".", "/">>
    <3>1. Len(s) = 3 /\ s[1] = "/" /\ s[2] = "." /\ s[3] = "/"
      OBVIOUS
    <3> HIDE DEF s
    <3>2. PICK i \in 0 .. len : i + 3 <= len /\ \A k \in 1 .. 3 : At(i + k - 1) = s[k]
      <4>1. Holds(s)
        BY <1>2 DEF s
      <4> QED
        BY <4>1, <3>1 DEF Holds
    <3>3. At(i + 1 - 1) = "/" /\ At(i + 2 - 1) = "." /\ At(i + 3 - 1) = "/"
      BY <3>1, <3>2
    <3> QED
      BY <1>1, <3>2, <3>3
  <2>2. Component(i + 1, i + 2) /\ \A k \in i + 1 .. i + 2 - 1 : At(k) = "."
    BY <1>1, <2>1 DEF Component
  <2> QED
    BY <1>1, <2>1, <2>2
<1>3. CASE Holds(<<"/", ".", ".", "/">>)
  <2>1. PICK i \in 0 .. len : /\ i + 4 <= len /\ At(i) = "/" /\ At(i + 1) = "."
                              /\ At(i + 2) = "." /\ At(i + 3) = "/"
    <3> DEFINE s == <<"/", ".", ".", "/">>
    <3>1. Len(s) = 4 /\ s[1] = "/" /\ s[2] = "." /\ s[3] = "." /\ s[4] = "/"
      OBVIOUS
    <3> HIDE DEF s
    <3>2. PICK i \in 0 .. len : i + 4 <= len /\ \A k \in 1 .. 4 : At(i + k - 1) = s[k]
      <4>1. Holds(s)
        BY <1>3 DEF s
      <4> QED
        BY <4>1, <3>1 DEF Holds
    <3>3. At(i + 1 - 1) = "/" /\ At(i + 2 - 1) = "." /\ At(i + 3 - 1) = "." /\ At(i + 4 - 1) = "/"
      BY <3>1, <3>2
    <3> QED
      BY <1>1, <3>2, <3>3
  <2>2. Component(i + 1, i + 3) /\ \A k \in i + 1 .. i + 3 - 1 : At(k) = "."
    BY <1>1, <2>1 DEF Component
  <2> QED
    BY <1>1, <2>1, <2>2
<1> QED
  BY <1>2, <1>3 DEF NoDotsInside

\* ends_with finds nothing that the check of the name has not refused.
LEMMA EndsWithIsRedundant ==
  ASSUME PathInv, PrefixesOk, path # <<>>, filename_idx # len
  PROVE  ~EndsWith(<<"/", ".">>) /\ ~EndsWith(<<"/", ".", ".">>)
<1>1. len \in Nat /\ filename_idx \in 0 .. len
  BY DEF PathInv, PathTypeOK, len
<1>2. ASSUME EndsWith(<<"/", ".">>) PROVE FALSE
  <2>1. 2 <= len /\ At(len - 2) = "/" /\ At(len - 1) = "."
    <3> DEFINE s == <<"/", ".">>
    <3>1. Len(s) = 2 /\ s[1] = "/" /\ s[2] = "."
      OBVIOUS
    <3> HIDE DEF s
    <3>2. 2 <= len /\ \A k \in 1 .. 2 : At(len - 2 + k - 1) = s[k]
      <4>1. EndsWith(s)
        BY <1>2 DEF s
      <4> QED
        BY <4>1, <3>1 DEF EndsWith
    <3>3. At(len - 2 + 1 - 1) = "/" /\ At(len - 2 + 2 - 1) = "."
      BY <3>1, <3>2
    <3> QED
      BY <1>1, <3>2, <3>3
  <2>2. Component(len - 1, len)
    BY <1>1, <2>1 DEF Component
  <2>3. filename_idx = len - 1
    BY <1>1, <2>1, <2>2, LastComponent
  <2> QED
    BY <1>1, <2>1, <2>3 DEF PrefixesOk, bad_prefix
<1>3. ASSUME EndsWith(<<"/", ".", ".">>) PROVE FALSE
  <2>1. 3 <= len /\ At(len - 3) = "/" /\ At(len - 2) = "." /\ At(len - 1) = "."
    <3> DEFINE s == <<"/", ".", ".">>
    <3>1. Len(s) = 3 /\ s[1] = "/" /\ s[2] = "." /\ s[3] = "."
      OBVIOUS
    <3> HIDE DEF s
    <3>2. 3 <= len /\ \A k \in 1 .. 3 : At(len - 3 + k - 1) = s[k]
      <4>1. EndsWith(s)
        BY <1>3 DEF s
      <4> QED
        BY <4>1, <3>1 DEF EndsWith
    <3>3. At(len - 3 + 1 - 1) = "/" /\ At(len - 3 + 2 - 1) = "." /\ At(len - 3 + 3 - 1) = "."
      BY <3>1, <3>2
    <3> QED
      BY <1>1, <3>2, <3>3
  <2>2. Component(len - 2, len)
    BY <1>1, <2>1 DEF Component
  <2>3. filename_idx = len - 2
    BY <1>1, <2>1, <2>2, LastComponent
  <2> QED
    BY <1>1, <2>1, <2>3 DEF PrefixesOk, bad_prefix
<1> QED
  BY <1>2, <1>3

LEMMA UnsafeHasReason == ASSUME PathInv PROVE RefusesOnlyUnsafe
<1> SUFFICES ASSUME verdict = "unsafe",
                    path # <<>>,
                    \A i \in 0 .. len - 1 : At(i) \notin Forbidden,
                    ~DriveLetter,
                    At(0) \notin {" ", ".", "~", "/"},
                    At(len - 1) # " ",
                    \A i \in 0 .. len :
                      Component(i, len) => i # len /\ At(i) \notin {" ", ".", "~"}
             PROVE  \E i, j \in 0 .. len : /\ Component(i, j) /\ j - i \in {1, 2}
                                           /\ \A k \in i .. j - 1 : At(k) = "."
  BY DEF RefusesOnlyUnsafe
<1>0. ~Safe
  BY Zenon DEF PathInv
<1>1. len \in Nat /\ filename_idx \in 0 .. len /\ Component(filename_idx, len)
  BY Places
<1>2. filename_idx # len
  BY <1>1
<1>3. At(filename_idx) # "/" /\ At(len - 1) # "/"
  <2>1. \A k \in filename_idx .. len - 1 : At(k) # "/"
    BY <1>1 DEF Component
  <2>2. filename_idx \in filename_idx .. len - 1 /\ len - 1 \in filename_idx .. len - 1
    BY ONLY <1>1, <1>2
  <2> QED
    BY ONLY <2>1, <2>2
<1>4. PrefixesOk
  BY <1>1, <1>3 DEF PrefixesOk, bad_prefix
<1>5. ~NoDotsInside
  BY <1>0, <1>2, <1>3, <1>4, EndsWithIsRedundant DEF Safe, bad_suffix
<1> QED
  BY <1>5, HoldsDots

-----------------------------------------------------------------------------
LEMMA PathInvariance == ASSUME SafePathAssumption PROVE PathSpec => []PathInv
<1>1. PathInit => PathInv
  BY PathInitInv
<1>2. PathInv /\ [PathNext]_pathVars => PathInv'
  BY PathStepInv
<1> QED
  BY <1>1, <1>2, PTL DEF PathSpec

\* A path that metalink_check_safe_path takes has no component "." or "..",
\* whatever its length: the first and last characters of a few components and
\* two searches are enough to know.
THEOREM TakenHasNoDots == ASSUME SafePathAssumption PROVE PathSpec => []NoDotComponents
BY PathInvariance, SafeHasNoDots, PTL

\* A path that metalink_check_safe_path takes is relative and names a file that
\* is not hidden.
THEOREM TakenNamesAFile == ASSUME SafePathAssumption PROVE PathSpec => []NamesAFile
BY PathInvariance, SafeNamesAFile, PTL

\* metalink_check_safe_path refuses a path only for what its comments list.
THEOREM RefusedHasReason == ASSUME SafePathAssumption PROVE PathSpec => []RefusesOnlyUnsafe
BY PathInvariance, UnsafeHasReason, PTL

\* A path of any length is taken or refused as its components deserve.
THEOREM JudgesRightly == ASSUME SafePathAssumption PROVE PathSpec => []JudgedByComponents
<1>1. PathInv => FilenameFound BY DEF PathInv
<1> QED
  BY <1>1, PathInvariance, TakenHasNoDots, TakenNamesAFile, RefusedHasReason, PTL
  DEF JudgedByComponents

-----------------------------------------------------------------------------
(***************************************************************************)
(* Fields, for any objects, copies and strings.  The argument: no two      *)
(* fields point to one copy, and only a field that the destructor frees    *)
(* points to any.                                                          *)
(***************************************************************************)
\* Two fields that point to one copy are one.
Alone ==
  \A p, q \in Structs, f, g \in AllFields :
    field[p][f] # Null /\ field[p][f] = field[q][g] => p = q /\ f = g

\* Every copy is pointed to, and what is pointed to is a copy.
Found ==
  /\ \A b \in Blocks :
       content[b] # Null => \E o \in Structs, f \in AllFields : field[o][f] = b
  /\ \A o \in Structs, f \in AllFields :
       field[o][f] # Null => content[field[o][f]] # Null

\* An object points to copies from the fields of its class only.
OwnFields ==
  \A o \in Structs, f \in AllFields :
    field[o][f] # Null => class[o] # Null /\ f \in StringFields[class[o]]

FieldsInv ==
  /\ FieldsTypeOK
  /\ wanted \in [Structs -> [AllFields -> Values \cup {Null}]]
  /\ FreedOnce
  /\ Alone
  /\ Found
  /\ OwnFields
  /\ ReadsAsSet

\* The fields of the structures, and what the destructors free of them.
LEMMA FieldNames ==
  ASSUME NEW c \in Classes
  PROVE  StringFields[c] \subseteq AllFields /\ FreedFields(c) = StringFields[c]
<1>1. StringFields[c] \in Range(StringFields)
  BY DEF Classes, Range
<1>2. FreedFields(c) = StringFields[c]
  BY DEF FreedFields, StringFields, Classes
<1> QED
  BY <1>1, <1>2 DEF AllFields

\* Setting one field, and clearing the fields of one object.
LEMMA OneField ==
  ASSUME NEW S, NEW A, NEW R, NEW F \in [S -> [A -> R]], NEW o \in S, NEW f \in A,
         NEW v \in R
  PROVE  /\ [F EXCEPT ![o][f] = v] \in [S -> [A -> R]]
         /\ \A p \in S, g \in A :
              [F EXCEPT ![o][f] = v][p][g] = IF p = o /\ g = f THEN v ELSE F[p][g]
OBVIOUS

LEMMA OneObject ==
  ASSUME NEW S, NEW A, NEW R, NEW F \in [S -> [A -> R]], NEW o \in S, NEW v \in R
  PROVE  /\ [F EXCEPT ![o] = [f \in A |-> v]] \in [S -> [A -> R]]
         /\ \A p \in S, g \in A :
              [F EXCEPT ![o] = [f \in A |-> v]][p][g] = IF p = o THEN v ELSE F[p][g]
OBVIOUS

\* The facts of the invariant the actions start from.
LEMMA FieldFacts ==
  ASSUME FieldsInv
  PROVE  /\ class \in [Structs -> Classes \cup {Null}]
         /\ field \in [Structs -> [AllFields -> Blocks \cup {Null}]]
         /\ content \in [Blocks -> Values \cup {Null}]
         /\ wanted \in [Structs -> [AllFields -> Values \cup {Null}]]
         /\ misfreed = FALSE
         /\ \A o \in Structs, f \in AllFields :
              /\ field[o][f] \in Blocks \cup {Null}
              /\ field[o][f] # Null => content[field[o][f]] # Null
              /\ wanted[o][f] = IF field[o][f] = Null THEN Null ELSE content[field[o][f]]
<1>1. /\ class \in [Structs -> Classes \cup {Null}]
      /\ field \in [Structs -> [AllFields -> Blocks \cup {Null}]]
      /\ content \in [Blocks -> Values \cup {Null}]
      /\ wanted \in [Structs -> [AllFields -> Values \cup {Null}]]
  BY DEF FieldsInv, FieldsTypeOK
<1>2. misfreed = FALSE
  BY DEF FieldsInv, FieldsTypeOK, FreedOnce
<1> QED
  BY <1>1, <1>2 DEF FieldsInv, Found, ReadsAsSet

LEMMA NewObjectInv ==
  ASSUME FieldsAssumption, FieldsInv, NEW o \in Structs, NEW c \in Classes, NewObject(o, c)
  PROVE  FieldsInv'
<1>1. /\ class[o] = Null
      /\ class' = [class EXCEPT ![o] = c]
      /\ field' = [field EXCEPT ![o] = [f \in AllFields |-> Null]]
      /\ wanted' = [wanted EXCEPT ![o] = [f \in AllFields |-> Null]]
      /\ UNCHANGED <<content, misfreed>>
  BY DEF NewObject
<1>2. /\ field' \in [Structs -> [AllFields -> Blocks \cup {Null}]]
      /\ \A p \in Structs, g \in AllFields :
           field'[p][g] = IF p = o THEN Null ELSE field[p][g]
  BY <1>1, FieldFacts, OneObject
<1>3. /\ wanted' \in [Structs -> [AllFields -> Values \cup {Null}]]
      /\ \A p \in Structs, g \in AllFields :
           wanted'[p][g] = IF p = o THEN Null ELSE wanted[p][g]
  BY <1>1, FieldFacts, OneObject
<1>4. /\ class' \in [Structs -> Classes \cup {Null}]
      /\ \A p \in Structs : p # o => class'[p] = class[p]
  BY <1>1, FieldFacts
<1>5. \A p \in Structs, g \in AllFields : field'[p][g] = field[p][g]
  BY <1>1, <1>2 DEF FieldsInv, OwnFields
<1>6. FieldsTypeOK' /\ FreedOnce'
  BY <1>1, <1>2, <1>4, FieldFacts DEF FieldsTypeOK, FreedOnce
<1>7. Alone' /\ Found'
  <2>1. Alone'
    BY <1>5 DEF FieldsInv, Alone
  <2>2. \A b \in Blocks :
          content[b] # Null => \E p \in Structs, g \in AllFields : field'[p][g] = b
    BY <1>5 DEF FieldsInv, Found
  <2>3. \A p \in Structs, g \in AllFields :
          field'[p][g] # Null => content[field'[p][g]] # Null
    BY <1>5, FieldFacts
  <2> QED
    BY <1>1, <2>1, <2>2, <2>3 DEF Found
<1>8. OwnFields'
  BY <1>2, <1>4 DEF FieldsInv, OwnFields
<1>9. ReadsAsSet'
  BY <1>1, <1>2, <1>3, <1>5, FieldFacts DEF ReadsAsSet
<1> QED
  BY <1>3, <1>6, <1>7, <1>8, <1>9 DEF FieldsInv

\* A copy cannot be made: the old one is freed and the field is Null.
LEMMA CopyFailsInv ==
  ASSUME FieldsAssumption, FieldsInv, NEW o \in Structs, NEW f \in AllFields,
         CopyFails(o, f)
  PROVE  FieldsInv'
<1>1. PICK old : old = field[o][f]
  OBVIOUS
<1>2. /\ class[o] # Null /\ f \in StringFields[class[o]]
      /\ misfreed' = (misfreed \/ (old # Null /\ content[old] = Null))
      /\ content' = [b \in Blocks |-> IF b = old THEN Null ELSE content[b]]
      /\ field' = [field EXCEPT ![o][f] = Null]
      /\ wanted' = [wanted EXCEPT ![o][f] = Null]
      /\ UNCHANGED class
  BY <1>1 DEF CopyFails, WrittenField, Free
<1>3. /\ field' \in [Structs -> [AllFields -> Blocks \cup {Null}]]
      /\ \A p \in Structs, g \in AllFields :
           field'[p][g] = IF p = o /\ g = f THEN Null ELSE field[p][g]
  BY <1>2, FieldFacts, OneField
<1>4. /\ wanted' \in [Structs -> [AllFields -> Values \cup {Null}]]
      /\ \A p \in Structs, g \in AllFields :
           wanted'[p][g] = IF p = o /\ g = f THEN Null ELSE wanted[p][g]
  BY <1>2, FieldFacts, OneField
<1>5. /\ content' \in [Blocks -> Values \cup {Null}]
      /\ \A b \in Blocks : content'[b] = IF b = old THEN Null ELSE content[b]
  BY <1>2, FieldFacts
<1>6. misfreed' = FALSE
  BY <1>1, <1>2, FieldFacts
<1>7. \A p \in Structs, g \in AllFields :
        field'[p][g] # Null => field'[p][g] # old /\ field'[p][g] = field[p][g]
  BY <1>1, <1>3 DEF FieldsInv, Alone
<1>8. FieldsTypeOK' /\ FreedOnce'
  BY <1>2, <1>3, <1>5, <1>6, FieldFacts DEF FieldsTypeOK, FreedOnce
<1>9. Alone'
  BY <1>7 DEF FieldsInv, Alone
<1>10. Found'
  <2>1. ASSUME NEW b \in Blocks, content'[b] # Null
        PROVE  \E p \in Structs, g \in AllFields : field'[p][g] = b
    <3>1. b # old /\ content[b] # Null
      BY <1>5, <2>1
    <3>2. PICK p \in Structs, g \in AllFields : field[p][g] = b
      BY <3>1 DEF FieldsInv, Found
    <3> QED
      BY <1>1, <1>3, <3>1, <3>2
  <2>2. ASSUME NEW p \in Structs, NEW g \in AllFields, field'[p][g] # Null
        PROVE  content'[field'[p][g]] # Null
    BY <1>3, <1>5, <1>7, <2>2, FieldFacts
  <2> QED
    BY <2>1, <2>2 DEF Found
<1>11. OwnFields'
  BY <1>2, <1>7 DEF FieldsInv, OwnFields
<1>12. ReadsAsSet'
  <2> SUFFICES ASSUME NEW p \in Structs, NEW g \in AllFields
               PROVE  wanted'[p][g] = IF field'[p][g] = Null THEN Null
                                      ELSE content'[field'[p][g]]
    BY DEF ReadsAsSet
  <2>1. CASE field'[p][g] = Null
    BY <1>3, <1>4, <2>1, FieldFacts
  <2>2. CASE field'[p][g] # Null
    BY <1>3, <1>4, <1>5, <1>7, <2>2, FieldFacts
  <2> QED
    BY <2>1, <2>2
<1> QED
  BY <1>4, <1>8, <1>9, <1>10, <1>11, <1>12 DEF FieldsInv

\* A copy is made, where the old one was or elsewhere.
LEMMA CopyStringInv ==
  ASSUME FieldsAssumption, FieldsInv, NEW o \in Structs, NEW f \in AllFields,
         NEW v \in Values, CopyString(o, f, v)
  PROVE  FieldsInv'
<1>1. PICK old : old = field[o][f]
  OBVIOUS
<1>2. PICK b \in Blocks :
        /\ content[b] = Null \/ b = old
        /\ field' = [field EXCEPT ![o][f] = b]
        /\ content' = [x \in Blocks |-> IF x = b THEN v ELSE IF x = old THEN Null
                                        ELSE content[x]]
  BY <1>1 DEF CopyString, WrittenField
<1>3. /\ class[o] # Null /\ f \in StringFields[class[o]]
      /\ misfreed' = (misfreed \/ (old # Null /\ content[old] = Null))
      /\ wanted' = [wanted EXCEPT ![o][f] = v]
      /\ UNCHANGED class
      /\ b # Null /\ v # Null
  BY <1>1, <1>2 DEF CopyString, WrittenField, FieldsAssumption
<1>4. /\ field' \in [Structs -> [AllFields -> Blocks \cup {Null}]]
      /\ \A p \in Structs, g \in AllFields :
           field'[p][g] = IF p = o /\ g = f THEN b ELSE field[p][g]
  <2>1. b \in Blocks \cup {Null}
    OBVIOUS
  <2> QED
    BY <1>2, <2>1, FieldFacts, OneField
<1>5. /\ wanted' \in [Structs -> [AllFields -> Values \cup {Null}]]
      /\ \A p \in Structs, g \in AllFields :
           wanted'[p][g] = IF p = o /\ g = f THEN v ELSE wanted[p][g]
  <2>1. v \in Values \cup {Null}
    OBVIOUS
  <2> QED
    BY <1>3, <2>1, FieldFacts, OneField
<1>6. /\ content' \in [Blocks -> Values \cup {Null}]
      /\ \A x \in Blocks :
           content'[x] = IF x = b THEN v ELSE IF x = old THEN Null ELSE content[x]
  BY <1>2, FieldFacts
<1>7. misfreed' = FALSE
  BY <1>1, <1>3, FieldFacts
<1>8. ASSUME NEW p \in Structs, NEW g \in AllFields, ~(p = o /\ g = f), field[p][g] # Null
      PROVE  field[p][g] # old /\ field[p][g] # b
  <2>1. field[p][g] # old
    BY <1>1, <1>8 DEF FieldsInv, Alone
  <2> QED
    BY <1>2, <1>8, <2>1, FieldFacts
<1>9. FieldsTypeOK' /\ FreedOnce'
  BY <1>3, <1>4, <1>6, <1>7, FieldFacts DEF FieldsTypeOK, FreedOnce
<1>10. Alone'
  <2> SUFFICES ASSUME NEW p \in Structs, NEW q \in Structs,
                      NEW g \in AllFields, NEW h \in AllFields,
                      field'[p][g] # Null, field'[p][g] = field'[q][h]
               PROVE  p = q /\ g = h
    BY DEF Alone
  <2>1. CASE p = o /\ g = f
    BY <1>4, <1>8, <2>1
  <2>2. CASE q = o /\ h = f
    BY <1>4, <1>8, <2>2
  <2>3. CASE ~(p = o /\ g = f) /\ ~(q = o /\ h = f)
    BY <1>4, <2>3 DEF FieldsInv, Alone
  <2> QED
    BY <2>1, <2>2, <2>3
<1>11. Found'
  <2>1. ASSUME NEW x \in Blocks, content'[x] # Null
        PROVE  \E p \in Structs, g \in AllFields : field'[p][g] = x
    <3>1. CASE x = b
      BY <1>4, <3>1
    <3>2. CASE x # b
      <4>1. x # old /\ content[x] # Null
        BY <1>6, <2>1, <3>2
      <4>2. PICK p \in Structs, g \in AllFields : field[p][g] = x
        BY <4>1 DEF FieldsInv, Found
      <4> QED
        BY <1>1, <1>4, <4>1, <4>2
    <3> QED
      BY <3>1, <3>2
  <2>2. ASSUME NEW p \in Structs, NEW g \in AllFields, field'[p][g] # Null
        PROVE  content'[field'[p][g]] # Null
    <3>1. CASE p = o /\ g = f
      BY <1>3, <1>4, <1>6, <3>1
    <3>2. CASE ~(p = o /\ g = f)
      BY <1>4, <1>6, <1>8, <2>2, <3>2, FieldFacts
    <3> QED
      BY <3>1, <3>2
  <2> QED
    BY <2>1, <2>2 DEF Found
<1>12. OwnFields'
  BY <1>3, <1>4 DEF FieldsInv, OwnFields
<1>13. ReadsAsSet'
  <2> SUFFICES ASSUME NEW p \in Structs, NEW g \in AllFields
               PROVE  wanted'[p][g] = IF field'[p][g] = Null THEN Null
                                      ELSE content'[field'[p][g]]
    BY DEF ReadsAsSet
  <2>1. CASE p = o /\ g = f
    BY <1>3, <1>4, <1>5, <1>6, <2>1
  <2>2. CASE ~(p = o /\ g = f) /\ field[p][g] = Null
    BY <1>4, <1>5, <2>2, FieldFacts
  <2>3. CASE ~(p = o /\ g = f) /\ field[p][g] # Null
    BY <1>4, <1>5, <1>6, <1>8, <2>3, FieldFacts
  <2> QED
    BY <2>1, <2>2, <2>3
<1> QED
  BY <1>5, <1>9, <1>10, <1>11, <1>12, <1>13 DEF FieldsInv

\* The destructor frees what the object points to, and nothing else does.
LEMMA DeleteObjectInv ==
  ASSUME FieldsAssumption, FieldsInv, NEW o \in Structs, DeleteObject(o)
  PROVE  FieldsInv'
<1>1. class[o] \in Classes /\ class[o] # Null
  BY FieldFacts DEF DeleteObject
<1>2. PICK gone : gone = {field[o][f] : f \in StringFields[class[o]]} \ {Null}
  OBVIOUS
<1>3. /\ class' = [class EXCEPT ![o] = Null]
      /\ field' = [field EXCEPT ![o] = [f \in AllFields |-> Null]]
      /\ wanted' = [wanted EXCEPT ![o] = [f \in AllFields |-> Null]]
      /\ content' = [b \in Blocks |-> IF b \in gone THEN Null ELSE content[b]]
      /\ misfreed' = (misfreed \/ \E b \in gone : content[b] = Null)
  BY <1>1, <1>2, FieldNames DEF DeleteObject
<1>4. /\ \A f \in AllFields : field[o][f] # Null => field[o][f] \in gone
      /\ \A b \in gone : b # Null /\ \E f \in AllFields : field[o][f] = b
  BY <1>1, <1>2, FieldNames DEF FieldsInv, OwnFields
<1>5. /\ field' \in [Structs -> [AllFields -> Blocks \cup {Null}]]
      /\ \A p \in Structs, g \in AllFields :
           field'[p][g] = IF p = o THEN Null ELSE field[p][g]
  BY <1>3, FieldFacts, OneObject
<1>6. /\ wanted' \in [Structs -> [AllFields -> Values \cup {Null}]]
      /\ \A p \in Structs, g \in AllFields :
           wanted'[p][g] = IF p = o THEN Null ELSE wanted[p][g]
  BY <1>3, FieldFacts, OneObject
<1>7. /\ content' \in [Blocks -> Values \cup {Null}]
      /\ \A b \in Blocks : content'[b] = IF b \in gone THEN Null ELSE content[b]
  BY <1>3, FieldFacts
<1>8. misfreed' = FALSE
  <2>1. ~\E b \in gone : content[b] = Null
    BY <1>4, FieldFacts
  <2> QED
    BY <1>3, <2>1, FieldFacts
<1>9. \A p \in Structs, g \in AllFields :
        field'[p][g] # Null =>
          p # o /\ field'[p][g] = field[p][g] /\ field[p][g] \notin gone
  <2> SUFFICES ASSUME NEW p \in Structs, NEW g \in AllFields, field'[p][g] # Null
               PROVE  p # o /\ field'[p][g] = field[p][g] /\ field[p][g] \notin gone
    OBVIOUS
  <2>1. p # o /\ field'[p][g] = field[p][g]
    BY <1>5
  <2>2. ASSUME NEW f \in AllFields PROVE field[p][g] # field[o][f]
    BY <2>1 DEF FieldsInv, Alone
  <2> QED
    BY <1>4, <2>1, <2>2
<1>10. /\ class' \in [Structs -> Classes \cup {Null}]
       /\ \A p \in Structs : p # o => class'[p] = class[p]
  BY <1>3, FieldFacts
<1>11. FieldsTypeOK' /\ FreedOnce'
  BY <1>5, <1>7, <1>8, <1>10 DEF FieldsTypeOK, FreedOnce
<1>12. Alone'
  BY <1>9 DEF FieldsInv, Alone
<1>13. Found'
  <2>1. ASSUME NEW b \in Blocks, content'[b] # Null
        PROVE  \E p \in Structs, g \in AllFields : field'[p][g] = b
    <3>1. b \notin gone /\ content[b] # Null
      BY <1>7, <2>1
    <3>2. PICK p \in Structs, g \in AllFields : field[p][g] = b
      BY <3>1 DEF FieldsInv, Found
    <3>3. b # Null
      BY DEF FieldsAssumption
    <3> QED
      BY <1>4, <1>5, <3>1, <3>2, <3>3
  <2>2. ASSUME NEW p \in Structs, NEW g \in AllFields, field'[p][g] # Null
        PROVE  content'[field'[p][g]] # Null
    BY <1>5, <1>7, <1>9, <2>2, FieldFacts
  <2> QED
    BY <2>1, <2>2 DEF Found
<1>14. OwnFields'
  BY <1>9, <1>10 DEF FieldsInv, OwnFields
<1>15. ReadsAsSet'
  <2> SUFFICES ASSUME NEW p \in Structs, NEW g \in AllFields
               PROVE  wanted'[p][g] = IF field'[p][g] = Null THEN Null
                                      ELSE content'[field'[p][g]]
    BY DEF ReadsAsSet
  <2>1. CASE field'[p][g] = Null
    BY <1>5, <1>6, <2>1, FieldFacts
  <2>2. CASE field'[p][g] # Null
    BY <1>5, <1>6, <1>7, <1>9, <2>2, FieldFacts
  <2> QED
    BY <2>1, <2>2
<1> QED
  BY <1>6, <1>11, <1>12, <1>13, <1>14, <1>15 DEF FieldsInv

\* One field points to a copy that is found and not shared.
LEMMA CountOwners ==
  ASSUME FieldsAssumption, FieldsInv PROVE OneOwner
<1>1. ASSUME NEW b \in Blocks, content[b] # Null
      PROVE  Cardinality({x \in Structs \X AllFields : field[x[1]][x[2]] = b}) = 1
  <2>1. PICK o \in Structs, f \in AllFields : field[o][f] = b
    BY <1>1 DEF FieldsInv, Found
  <2>2. b # Null
    BY DEF FieldsAssumption
  <2>3. {x \in Structs \X AllFields : field[x[1]][x[2]] = b} = {<<o, f>>}
    BY <2>1, <2>2 DEF FieldsInv, Alone
  <2> QED
    BY <2>3, FS_Singleton
<1> QED
  BY <1>1, FieldFacts DEF OneOwner

LEMMA FieldsInitInv == ASSUME FieldsInit PROVE FieldsInv
BY DEF FieldsInit, FieldsInv, FieldsTypeOK, FreedOnce, Alone, Found, OwnFields, ReadsAsSet

LEMMA FieldsNextInv ==
  ASSUME FieldsAssumption, FieldsInv, [FieldsNext]_fieldsVars PROVE FieldsInv'
<1>1. CASE UNCHANGED fieldsVars
  BY <1>1 DEF fieldsVars, FieldsInv, FieldsTypeOK, FreedOnce, Alone, Found, OwnFields,
    ReadsAsSet
<1> QED
  BY <1>1, NewObjectInv, CopyFailsInv, CopyStringInv, DeleteObjectInv DEF FieldsNext

\* After any calls of setters and destructors, with and without memory: each
\* string belongs to one field of one object, the field reads as it was set, and
\* the string is freed once (allocate_copy_string and the destructors of
\* metalink_types.c).
THEOREM StringsStayOwned == ASSUME FieldsAssumption PROVE FieldsSpec => []StringsOwned
<1>1. FieldsInit => FieldsInv
  BY FieldsInitInv
<1>2. FieldsInv /\ [FieldsNext]_fieldsVars => FieldsInv'
  BY FieldsNextInv
<1>3. FieldsInv => StringsOwned
  BY CountOwners DEF StringsOwned, FieldsInv
<1> QED
  BY <1>1, <1>2, <1>3, PTL DEF FieldsSpec

=============================================================================
