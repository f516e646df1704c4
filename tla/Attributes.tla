----------------------------- MODULE Attributes -----------------------------
(***************************************************************************)
(* How start_element_handler of the two back ends hands the attributes of  *)
(* an element to the state machine: as an array indexed by attribute       *)
(* token.  libxml2 reports values that end without a null byte, so its     *)
(* handler first sums up the room they need and then copies the values of  *)
(* the attributes it knows into one block; expat's values are used where   *)
(* they are.                                                               *)
(***************************************************************************)
EXTENDS Naturals, Sequences, FiniteSets

CONSTANTS
  Keys,      \* attribute names that metalink_lookup_attr_token knows
  NULL,
  NUL,
  MaxAttrs,  \* bound on the attributes of an element
  MaxValue  \* bound on the length of a value

Unknown == "unknown"

ASSUME AttributesAssumption ==
  /\ Unknown \notin Keys
  /\ NULL \notin Nat
  /\ NUL \notin Nat \X Nat   \* no character of a value is the null byte
  /\ MaxAttrs \in Nat
  /\ MaxValue \in Nat

\* An attribute: its local name, whether it has a prefix, its value's length.
Attribute == [name : Keys \cup {Unknown}, prefixed : BOOLEAN, length : 0 .. MaxValue]

\* XML allows a name twice only with different prefixes; the names the library
\* does not know are many.
WellFormed(s) ==
  \A i, j \in DOMAIN s :
    s[i].name = s[j].name /\ s[i].prefixed = s[j].prefixed /\ s[i].name # Unknown => i = j

VARIABLES
  backend,
  attrs,    \* the attributes, in document order
  i,        \* attributes looked at
  space,    \* libxml2: value_alloc_space, the size of attrblock
  block,    \* libxml2: the bytes written to attrblock
  dst,      \* libxml2: value_dst_ptr, as an offset
  mattrs,   \* per key the value: libxml2 an offset, expat the attribute
  phase     \* "start", "copy", "start_fun" (called with mattrs), "crashed"

attributesVars == <<backend, attrs, i, space, block, dst, mattrs, phase>>

\* The characters of a value are told apart by attribute and place.
Value(k) == [n \in 1 .. attrs[k].length |-> <<k, n>>]

-----------------------------------------------------------------------------
\* Mutation: no room for the null bytes.
RoomWithoutEnds(k) ==
  LET room[n \in 0 .. k] == IF n = 0 THEN 0 ELSE room[n - 1] + attrs[n].length
  IN  room[k]

\* The room for the first k values, each with its null byte.
Room(k) ==
  LET room[n \in 0 .. k] == IF n = 0 THEN 0 ELSE room[n - 1] + attrs[n].length + 1
  IN  room[k]

\* The first loop of libxml2's handler, over every attribute, and its malloc.
Allocate ==
  /\ phase = "start"
  /\ phase' = "copy"
  /\ space' = IF backend = "libxml2" THEN Room(Len(attrs)) ELSE 0
  /\ UNCHANGED <<backend, attrs, i, block, dst, mattrs>>

\* Mutation: expat's handler takes the namespace off the name.
KeyWithoutNamespace(a) == a.name

\* expat reports a prefixed name with its namespace before it, which is no
\* name the lookup knows; libxml2 reports the local name.
Key(a) == IF a.prefixed /\ backend = "expat" THEN Unknown ELSE a.name

Skip ==
  /\ phase = "copy"
  /\ i < Len(attrs)
  /\ Key(attrs[i + 1]) = Unknown
  /\ i' = i + 1
  /\ UNCHANGED <<backend, attrs, space, block, dst, mattrs, phase>>

Written(bytes) ==
  [x \in DOMAIN block \cup dst .. (dst + Len(bytes) - 1) |->
     IF x >= dst /\ x < dst + Len(bytes) THEN bytes[x - dst + 1] ELSE block[x]]

Copy ==
  /\ phase = "copy"
  /\ backend = "libxml2"
  /\ i < Len(attrs)
  /\ Key(attrs[i + 1]) # Unknown
  /\ block' = Written(Append(Value(i + 1), NUL))
  /\ mattrs' = [mattrs EXCEPT ![Key(attrs[i + 1])] = dst]
  /\ dst' = dst + attrs[i + 1].length + 1
  /\ i' = i + 1
  /\ UNCHANGED <<backend, attrs, space, phase>>

\* malloc failed, which is not checked, and a value is copied.
CopyCrashes ==
  /\ phase = "copy"
  /\ backend = "libxml2"
  /\ i < Len(attrs)
  /\ block = [x \in {} |-> NUL]
  /\ Key(attrs[i + 1]) # Unknown
  /\ phase' = "crashed"
  /\ UNCHANGED <<backend, attrs, i, space, block, dst, mattrs>>

\* expat's handler keeps the pointer it was given.
Take ==
  /\ phase = "copy"
  /\ backend = "expat"
  /\ i < Len(attrs)
  /\ Key(attrs[i + 1]) # Unknown
  /\ mattrs' = [mattrs EXCEPT ![Key(attrs[i + 1])] = i + 1]
  /\ i' = i + 1
  /\ UNCHANGED <<backend, attrs, space, block, dst, phase>>

\* start_fun is called with mattrs.
StartFun ==
  /\ phase = "copy"
  /\ i = Len(attrs)
  /\ phase' = "start_fun"
  /\ UNCHANGED <<backend, attrs, i, space, block, dst, mattrs>>

AttributesInit ==
  /\ backend \in {"expat", "libxml2"}
  /\ attrs \in {s \in UNION {[1 .. n -> Attribute] : n \in 0 .. MaxAttrs} : WellFormed(s)}
  /\ i = 0
  /\ space = 0
  /\ block = [x \in {} |-> NUL]
  /\ dst = 0
  /\ mattrs = [k \in Keys |-> NULL]
  /\ phase = "start"

AttributesNext == Allocate \/ Skip \/ Copy \/ CopyCrashes \/ Take \/ StartFun

AttributesSpec == AttributesInit /\ [][AttributesNext]_attributesVars

-----------------------------------------------------------------------------
(***************************************************************************)
(* Properties.                                                             *)
(***************************************************************************)
AttributesTypeOK ==
  /\ i \in 0 .. Len(attrs)
  /\ mattrs \in [Keys -> Nat \cup {NULL}]
  /\ dst \in Nat
  /\ phase \in {"start", "copy", "start_fun", "crashed"}

\* The second loop, over the attributes that are known, never writes past the
\* room that the first loop, over all of them, has summed up.
InsideBlock == DOMAIN block \subseteq 0 .. (space - 1)

\* The string at an offset of the block, up to its null byte.
StringAt(o) ==
  LET ends == {n \in 0 .. MaxValue : o + n \in DOMAIN block /\ block[o + n] = NUL}
  IN  IF ends = {} THEN NULL
      ELSE LET n == CHOOSE n \in ends : \A m \in ends : n <= m
           IN  [k \in 1 .. n |-> block[o + k - 1]]

Handed(key) ==
  IF mattrs[key] = NULL \/ backend = "expat" THEN mattrs[key] ELSE StringAt(mattrs[key])

\* Where the back end finds the value of a key.
Named(key) == {k \in DOMAIN attrs : Key(attrs[k]) = key}

\* The state machine is handed, for each attribute it knows, the whole value
\* of the last attribute of that name and nothing of another's.
ValuesArrive ==
  phase = "start_fun" =>
    \A key \in Keys :
      IF Named(key) = {} THEN Handed(key) = NULL
      ELSE LET last == CHOOSE k \in Named(key) : \A m \in Named(key) : m <= k
           IN  Handed(key) = IF backend = "expat" THEN last ELSE Value(last)

\* A value without a prefix is what both back ends hand over, unless, with
\* libxml2, an attribute of another namespace and the same name comes later.
PlainAttributeWins ==
  phase = "start_fun" =>
    \A k \in DOMAIN attrs :
      /\ attrs[k].name # Unknown /\ ~attrs[k].prefixed
      /\ backend = "expat" \/ \A m \in (k + 1) .. Len(attrs) : attrs[m].name # attrs[k].name
      => Handed(attrs[k].name) = IF backend = "expat" THEN k ELSE Value(k)

\* The start handlers are handed the values of the element's attributes, whole
\* and under their names; with libxml2, which gives names without their
\* namespace, the value may be that of a later attribute of another namespace.
AttributesArrive == ValuesArrive /\ PlainAttributeWins

=============================================================================
