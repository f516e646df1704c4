------------------------------ MODULE Numbers ------------------------------
(***************************************************************************)
(* The numbers of a document: each handler reads one with strtol or        *)
(* strtoll, looks at errno and at the range by hand, and then stores it,   *)
(* takes a default, or skips the element.  long has the width of int on    *)
(* some systems and that of long long on others.                           *)
(***************************************************************************)
EXTENDS Integers

CONSTANTS
  INT_MAX, LLONG_MAX,  \* of limits.h
  MaxNumber            \* bound on the magnitude of the numbers in a document

ASSUME NumbersAssumption ==
  /\ INT_MAX \in Nat \ {0}
  /\ LLONG_MAX \in Nat
  /\ INT_MAX <= LLONG_MAX
  /\ MaxNumber \in Nat

\* Where a number is read.
Sites == {"size", "file maxconnections", "preference", "maxconnections",
          "priority", "metaurl priority", "length", "v4 length", "piece"}

\* What a document has there: nothing, or a text of digits with a sign, or of
\* none, and something after them that is no digit, or nothing.
Texts ==
  {t \in [given : BOOLEAN, digits : BOOLEAN, number : -MaxNumber .. MaxNumber, rest : BOOLEAN] :
     (t.digits => t.given) /\ (~t.digits => t.number = 0) /\ (~t.given => ~t.rest)}

VARIABLES
  long_max,  \* LONG_MAX of the build
  site, text,
  outcome,   \* "none" yet, "stored" or "skipped"
  number     \* that was stored

numberVars == <<long_max, site, text, outcome, number>>

-----------------------------------------------------------------------------
\* strtol and strtoll: 0 without digits; what follows the digits is not looked
\* at; the largest or smallest number with ERANGE when it does not fit.
Strto(t, max) ==
  IF ~t.digits THEN [value |-> 0, erange |-> FALSE]
  ELSE IF t.number > max THEN [value |-> max, erange |-> TRUE]
  ELSE IF t.number < -max - 1 THEN [value |-> -max - 1, erange |-> TRUE]
  ELSE [value |-> t.number, erange |-> FALSE]

ReadNumber == Strto(text, IF site = "size" THEN LLONG_MAX ELSE long_max)

\* Mutation: only errno and the sign are looked at.
RefusedByErrno(n) == n.erange \/ n.value < 0

\* The handlers' test; that of the size has no upper bound of its own.
Refused(n) == n.erange \/ n.value < 0 \/ (site # "size" /\ n.value > INT_MAX)

\* An element with one of these is skipped when there is no usable number.
Required == site \in {"length", "v4 length", "piece"}

\* What is stored for a number that is missing or refused: in the code 999999
\* for the priorities of version 4, here a number apart from the others.
Default == IF site \in {"priority", "metaurl priority"} THEN INT_MAX - 1 ELSE 0

\* The cast to int; the size is a long long.
Cast(n) ==
  IF site = "size" THEN n ELSE ((n + INT_MAX + 1) % (2 * (INT_MAX + 1))) - INT_MAX - 1

Stores(n) == outcome' = "stored" /\ number' = n

Skips == outcome' = "skipped" /\ UNCHANGED number

ReadText ==
  /\ outcome = "none"
  /\ text.given
  /\ IF ~Refused(ReadNumber) THEN Stores(Cast(ReadNumber.value))
     ELSE IF Required THEN Skips
     ELSE Stores(Default)
  /\ UNCHANGED <<long_max, site, text>>

ReadAbsent ==
  /\ outcome = "none"
  /\ ~text.given
  /\ IF Required THEN Skips ELSE Stores(Default)
  /\ UNCHANGED <<long_max, site, text>>

\* The size is the text of an element: there is one, if an empty one.
NumberInit ==
  /\ long_max \in {INT_MAX, LLONG_MAX}
  /\ site \in Sites
  /\ text \in Texts
  /\ site = "size" => text.given
  /\ outcome = "none"
  /\ number = 0

NumberNext == ReadText \/ ReadAbsent

NumberSpec == NumberInit /\ [][NumberNext]_numberVars

-----------------------------------------------------------------------------
(***************************************************************************)
(* Properties.                                                             *)
(***************************************************************************)
NumberTypeOK ==
  /\ outcome \in {"none", "stored", "skipped"}
  /\ number \in 0 .. LLONG_MAX

\* What goes into an int fits it: no cast makes another number of it, whether
\* long is as wide as int or wider.
StoredNumbersFit == site # "size" => number \in 0 .. INT_MAX

\* A number that the field can hold arrives unchanged, the largest one too.
PlainNumbersArrive ==
  /\ outcome # "none" /\ text.digits
  /\ text.number \in 0 .. (IF site = "size" THEN LLONG_MAX ELSE INT_MAX)
  => outcome = "stored" /\ number = text.number

\* A number is never made up: it is the document's, the default, or the 0 that
\* a text without digits is read as.  In particular the bound that strtol
\* returns for a number out of its range is not taken for the number.
NothingMadeUp ==
  outcome = "stored" =>
    number \in {Default} \cup {text.number}

\* Through strtol, the checks of the handler and the cast, with either width of
\* long: what is stored fits, is the number of the document if that fits, and is
\* no artefact of the conversion.
NumbersArrive ==
  /\ StoredNumbersFit
  /\ PlainNumbersArrive
  /\ NothingMadeUp

=============================================================================
