------------------------------ MODULE MCValues ------------------------------
(***************************************************************************)
(* Instance of the modules about what becomes of the values of a document: *)
(* Attributes, Numbers, Ranking, Calendar, SafePath and Fields.  They      *)
(* share no variable and no step, so a behaviour here is a behaviour of    *)
(* one of them, chosen at the start, while the others stand still.         *)
(***************************************************************************)
EXTENDS Attributes, Numbers, Ranking, Calendar, SafePath, Fields, TLC

CONSTANTS o1, o2, b1, b2, b3, v1, v2

MCKeys == {"type", "priority"}

\* int scaled to -16 .. 15 and 1000000 to 10: numbers on both sides of every
\* limit.
MCNumbers == {-16, -1, 0, 1, 8, 9, 10, 14, 15, 16}

\* time_t ends with the year 2102 instead of 2038, so that 2000, 2100 and its
\* end are all met.  Zones are 5:45 hours apart (ZoneStep), so that hours,
\* minutes and the day change between them.
MCYears == (1967 .. 1973) \cup (1996 .. 2005) \cup (2096 .. 2104)
MCTimeMin == -1051200     \* 1968-01-02
MCTimeMax == 69950879     \* 2102-12-31

\* Long enough for a component ".." with a component on both sides.
MCMaxPath == 6

\* Two objects of any class, three copies of strings.
MCStructs == {o1, o2}
MCBlocks == {b1, b2, b3}
MCValues == {v1, v2}

Symmetry == Permutations(MCStructs) \cup Permutations(MCBlocks) \cup Permutations(MCValues)

VARIABLE part   \* the component that runs

vars == <<attributesVars, numberVars, rankingVars, dateVars, pathVars, fieldsVars, part>>

AttributesRest ==
  /\ backend = "expat" /\ attrs = <<>> /\ i = 0 /\ space = 0
  /\ block = [x \in {} |-> NUL] /\ dst = 0 /\ mattrs = [k \in Keys |-> NULL]
  /\ phase = "start"

NumbersRest ==
  /\ long_max = INT_MAX /\ site = "preference"
  /\ text = [given |-> FALSE, digits |-> FALSE, number |-> 0, rest |-> FALSE]
  /\ outcome = "none" /\ number = 0

RankingRests == list = "url_v3" /\ entries = <<>> /\ committed = FALSE

DateRests ==
  /\ tm = Date(1970, 0, 1, 0, 0) /\ zone = 0 /\ form = "offset"
  /\ instant = Local(tm)

Init ==
  \/ /\ part = "attributes" /\ AttributesInit
     /\ NumbersRest /\ RankingRests /\ DateRests /\ PathInit /\ FieldsInit
  \/ /\ part = "numbers" /\ NumberInit
     /\ AttributesRest /\ RankingRests /\ DateRests /\ PathInit /\ FieldsInit
  \/ /\ part = "ranking" /\ RankingInit
     /\ AttributesRest /\ NumbersRest /\ DateRests /\ PathInit /\ FieldsInit
  \/ /\ part = "date" /\ DateInit
     /\ AttributesRest /\ NumbersRest /\ RankingRests /\ PathInit /\ FieldsInit
  \/ /\ part = "path" /\ PathInit
     /\ AttributesRest /\ NumbersRest /\ RankingRests /\ DateRests /\ FieldsInit
  \/ /\ part = "fields" /\ FieldsInit
     /\ AttributesRest /\ NumbersRest /\ RankingRests /\ DateRests /\ PathInit

Next ==
  \/ /\ part = "attributes" /\ AttributesNext
     /\ UNCHANGED <<numberVars, rankingVars, dateVars, pathVars, fieldsVars, part>>
  \/ /\ part = "numbers" /\ NumberNext
     /\ UNCHANGED <<attributesVars, rankingVars, dateVars, pathVars, fieldsVars, part>>
  \/ /\ part = "ranking" /\ RankingNext
     /\ UNCHANGED <<attributesVars, numberVars, dateVars, pathVars, fieldsVars, part>>
  \/ /\ part = "date" /\ DateNext
     /\ UNCHANGED <<attributesVars, numberVars, rankingVars, pathVars, fieldsVars, part>>
  \/ /\ part = "path" /\ PathNext
     /\ UNCHANGED <<attributesVars, numberVars, rankingVars, dateVars, fieldsVars, part>>
  \/ /\ part = "fields" /\ FieldsNext
     /\ UNCHANGED <<attributesVars, numberVars, rankingVars, dateVars, pathVars, part>>

Spec == Init /\ [][Next]_vars

-----------------------------------------------------------------------------
\* The type invariants of the six modules.
ValuesTypeOK ==
  /\ AttributesTypeOK /\ NumberTypeOK /\ RankingTypeOK
  /\ DateTypeOK /\ PathTypeOK /\ FieldsTypeOK

=============================================================================
