------------------------------ MODULE Ranking ------------------------------
(***************************************************************************)
(* The numbers a file's addresses are ordered by: from the attribute of    *)
(* <url> or <metaurl>, read with strtol and checked by hand, over the two  *)
(* numbers a resource keeps (Metalink 3 writes a preference, Metalink 4 a  *)
(* priority, each handler computes the other) to the comparison function   *)
(* handed to qsort, which subtracts two ints.                              *)
(*                                                                         *)
(* int is IntMin .. IntMax; long is wider.                                 *)
(***************************************************************************)
EXTENDS Integers, Sequences, Functions

CONSTANTS
  IntMax,     \* INT_MAX
  Pivot,      \* 1000000: priority + preference of a resource
  NoPriority, \* 999999: the priority of what has none (Metalink 4)
  Numbers,    \* the numbers of the attributes TLC tries
  MaxAddresses   \* bound on the addresses of a file

ASSUME RankingAssumption ==
  /\ IntMax \in Nat
  /\ Pivot \in 0 .. IntMax
  /\ NoPriority \in 0 .. IntMax
  /\ Numbers \subseteq Int
  /\ MaxAddresses \in Nat

VARIABLES
  list,       \* "url_v3", "url_v4" or "metaurl": which array this is
  entries,    \* the addresses read so far, then the array of the file
  committed   \* commit_file has sorted it

rankingVars == <<list, entries, committed>>

-----------------------------------------------------------------------------
IntMin == - IntMax - 1

\* The difference of two ints in an int; two's complement when it does not fit.
Wrap(d) ==
  IF d > IntMax THEN d - 2 * (IntMax + 1)
  ELSE IF d < IntMin THEN d + 2 * (IntMax + 1) ELSE d

\* An attribute is missing, a text without digits such as "" or "high", or a
\* text that begins with a number.
Attributes ==
  [says : {"nothing", "words"}, number : {0}] \cup [says : {"number"}, number : Numbers]

\* strtol: 0 for a text without digits, and no error.  A number that does not
\* fit a long does not fit an int, and the handlers refuse it either way.
Strtol(attr) == IF attr.says = "number" THEN attr.number ELSE 0

\* Neither out of range nor negative.
Usable(n) == 0 <= n /\ n <= IntMax

\* The number a handler goes on with.
Taken(attr, default) ==
  IF attr.says # "nothing" /\ Usable(Strtol(attr)) THEN Strtol(attr) ELSE default

\* The attribute is kept beside what was made of it.
Entry(preference, priority, attr) ==
  [preference |-> preference, priority |-> priority, attr |-> attr]

\* metalink_resource_set_preference
Preferred(n, attr) == Entry(n, Pivot - n, attr)

\* metalink_resource_set_priority
Prioritised(n, attr) == Entry(Pivot - n, n, attr)

\* <url> of Metalink 3.
UrlV3(attr) == Preferred(Taken(attr, 0), attr)

\* <url> of Metalink 4.
UrlV4(attr) == Prioritised(Taken(attr, NoPriority), attr)

\* Mutation: a negative number is taken.
MetaurlOrNegative(attr) ==
  Entry(0, IF attr.says # "nothing" /\ Strtol(attr) <= IntMax
           THEN Strtol(attr) ELSE NoPriority, attr)

\* <metaurl> of Metalink 4; it has no preference.
Metaurl(attr) == Entry(0, Taken(attr, NoPriority), attr)

-----------------------------------------------------------------------------
\* resource_pri_comp, metaurl_pri_comp
Compare(l, r) == Wrap(l.priority - r.priority)

\* What qsort asks of its comparison function on the elements of s.
Consistent(s) ==
  \A i, j, k \in DOMAIN s :
    /\ Compare(s[i], s[j]) <= 0 \/ Compare(s[j], s[i]) <= 0
    /\ (Compare(s[i], s[j]) <= 0 /\ Compare(s[j], s[k]) <= 0)
         => Compare(s[i], s[k]) <= 0

Permuted(s, p) == [i \in DOMAIN s |-> s[p[i]]]

\* The results of qsort: in order when the comparison is consistent, and in
\* any order otherwise.
QSorted(s) ==
  {r \in {Permuted(s, p) : p \in Bijection(DOMAIN s, DOMAIN s)} :
     Consistent(s) => \A i, j \in DOMAIN s : i < j => Compare(r[i], r[j]) <= 0}

-----------------------------------------------------------------------------
Start(attr) ==
  /\ ~committed
  /\ Len(entries) < MaxAddresses
  /\ \/ list = "url_v3"  /\ entries' = Append(entries, UrlV3(attr))
     \/ list = "url_v4"  /\ entries' = Append(entries, UrlV4(attr))
     \/ list = "metaurl" /\ entries' = Append(entries, Metaurl(attr))
  /\ UNCHANGED <<list, committed>>

Commit ==
  /\ ~committed
  /\ entries' \in QSorted(entries)
  /\ committed' = TRUE
  /\ UNCHANGED list

RankingInit ==
  /\ list \in {"url_v3", "url_v4", "metaurl"}
  /\ entries = <<>>
  /\ committed = FALSE

RankingNext == (\E attr \in Attributes : Start(attr)) \/ Commit

RankingSpec == RankingInit /\ [][RankingNext]_rankingVars

-----------------------------------------------------------------------------
(***************************************************************************)
(* Properties.                                                             *)
(***************************************************************************)
RankingTypeOK ==
  /\ list \in {"url_v3", "url_v4", "metaurl"}
  /\ entries \in Seq([preference : IntMin .. IntMax, priority : IntMin .. IntMax,
                      attr : Attributes])
  /\ committed \in BOOLEAN

\* The subtraction in the comparison function never overflows for the
\* addresses of one file, though it would for arbitrary priorities.
DifferencesFit ==
  \A i, j \in DOMAIN entries :
    entries[i].priority - entries[j].priority \in IntMin .. IntMax

\* The document ranked this address, with a number the code can hold.
RankedBy(e) == e.attr.says = "number" /\ Usable(e.attr.number)

\* The addresses that the document ranked are in the array in the order of its
\* own numbers: greater preferences first, or smaller priorities.
DocumentOrder ==
  committed =>
    \A i, j \in DOMAIN entries :
      (i < j /\ RankedBy(entries[i]) /\ RankedBy(entries[j])) =>
        IF list = "url_v3" THEN entries[i].attr.number >= entries[j].attr.number
        ELSE entries[i].attr.number <= entries[j].attr.number

\* An address whose number is missing, negative or too large never comes before
\* one that its document ranked, with a preference that is not 0 or a priority
\* below 999999.  Nor does one with a preference without digits: but a priority
\* without digits is read as 0.
UnrankedLast ==
  committed =>
    \A i, j \in DOMAIN entries :
      (i < j /\ ~RankedBy(entries[i]) /\ RankedBy(entries[j])) =>
        IF list = "url_v3" THEN entries[j].attr.number = 0
        ELSE entries[i].attr.says = "words" \/ entries[j].attr.number >= NoPriority

\* ... and is as urgent as can be: in version 4 nothing precedes priority="high"
\* or priority="" but another 0.
WordsComeFirst ==
  committed /\ list # "url_v3" =>
    \A i, j \in DOMAIN entries :
      i < j /\ entries[j].attr.says = "words" => entries[i].priority = 0

\* Both numbers of a resource tell a client the same order, in every version.
BothOrdersAgree ==
  list # "metaurl" =>
    \A i, j \in DOMAIN entries :
      entries[i].preference > entries[j].preference <=>
        entries[i].priority < entries[j].priority

\* From the attributes of a document to the sorted array: comparing by
\* subtraction is exact, the ranked addresses are in the order of the document's
\* numbers, the others come last, but for a priority without digits, which comes
\* first, and both of the numbers a client may go by tell it the same order.
RankedAsAsked ==
  /\ DifferencesFit
  /\ DocumentOrder
  /\ UnrankedLast
  /\ WordsComeFirst
  /\ BothOrdersAgree

=============================================================================
