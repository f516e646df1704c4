-------------------------- MODULE AttributesProofs --------------------------
(***************************************************************************)
(* Proofs about Attributes, for any names and for any number of            *)
(* attributes of any length: the libxml2 handler never writes past the     *)
(* block it has measured, and every value arrives whole and under its      *)
(* name.                                                                   *)
(*                                                                         *)
(* Room is defined by recursion, so what it computes is proved by          *)
(* induction.  The induction is over a set of numbers (UpTo), which the    *)
(* least-number principle gives (LeastNumber).                             *)
(*                                                                         *)
(* At the end, with ValuesProofs, the components of MCValues together.     *)
(***************************************************************************)
EXTENDS MCValues, ValuesProofs, WellFoundedInduction

\* Every set of natural numbers has a least element.
LEMMA LeastNumber ==
  ASSUME NEW T \in SUBSET Nat, T # {}
  PROVE  \E n \in T : \A m \in T : n <= m
<1>1. IsWellFoundedOn(OpToRel(<, Nat), Nat)
  BY NatLessThanWellFounded
<1>2. PICK R : R = OpToRel(<, Nat)
  OBVIOUS
<1>3. PICK n \in T : \A y \in T : ~(<<y, n>> \in R)
  BY <1>1, <1>2, WFMin
<1>4. \A y, z \in Nat : y < z => <<y, z>> \in R
  BY <1>2 DEF OpToRel
<1>5. \A m \in T : m \in Nat /\ n \in Nat /\ ~(m < n)
  BY <1>3, <1>4
<1>6. \A m \in T : n <= m
  BY <1>5
<1> QED
  BY <1>6

\* Every set of numbers up to k has a greatest element.
LEMMA GreatestNumber ==
  ASSUME NEW k \in Nat, NEW T \in SUBSET (1 .. k), T # {}
  PROVE  \E n \in T : \A m \in T : m <= n
<1>1. PICK R : R = {k - n : n \in T}
  OBVIOUS
<1>2. R \in SUBSET Nat /\ R # {}
  <2>1. \A n \in T : n \in 1 .. k
    OBVIOUS
  <2>2. \A n \in T : k - n \in Nat
    BY <2>1
  <2> QED
    BY <1>1, <2>2
<1>3. PICK d \in R : \A m \in R : d <= m
  BY <1>2, LeastNumber
<1>4. PICK n \in T : d = k - n
  BY <1>1, <1>3
<1>5. ASSUME NEW m \in T PROVE m <= n
  <2>1. k - n <= k - m
    BY <1>1, <1>3, <1>4
  <2> QED
    BY <2>1
<1> QED
  BY <1>5

\* Induction up to k: S holds the first number, and the next to each it holds.
LEMMA UpTo ==
  ASSUME NEW k \in Nat, NEW S, 0 \in S, \A n \in 0 .. k : n \in S /\ n < k => n + 1 \in S
  PROVE  0 .. k \subseteq S
<1> SUFFICES ASSUME ~(0 .. k \subseteq S) PROVE FALSE
  OBVIOUS
<1>1. PICK T : T = (0 .. k) \ S
  OBVIOUS
<1>2. T \in SUBSET Nat /\ T # {}
  BY <1>1
<1>3. PICK n \in T : \A m \in T : n <= m
  BY <1>2, LeastNumber
<1>4. n \in 1 .. k /\ n \notin S /\ n - 1 \in 0 .. k
  BY <1>1, <1>3
<1>5. n - 1 \in S
  BY <1>1, <1>3, <1>4
<1>6. (n - 1) + 1 \in S /\ (n - 1) + 1 = n
  BY <1>4, <1>5
<1> QED
  BY <1>4, <1>6

-----------------------------------------------------------------------------
(***************************************************************************)
(* The room for the values.                                                *)
(***************************************************************************)
\* r has the room for the first values of s, up to the k-th.
Sums(s, k, r) ==
  /\ r \in [0 .. k -> Nat]
  /\ r[0] = 0
  /\ \A n \in 1 .. k : r[n] = r[n - 1] + s[n].length + 1

LEMMA SumsExist ==
  ASSUME NEW s \in Seq(Attribute), NEW k \in 0 .. Len(s), AttributesAssumption
  PROVE  \E r : Sums(s, k, r)
<1>1. \A n \in 1 .. k : s[n].length \in Nat
  <2> SUFFICES ASSUME NEW n \in 1 .. k PROVE s[n].length \in Nat
    OBVIOUS
  <2>1. s[n] \in Attribute
    OBVIOUS
  <2> QED
    BY <2>1 DEF Attribute, AttributesAssumption
<1>2. PICK S : S = {n \in 0 .. k : \E r : Sums(s, n, r)}
  OBVIOUS
<1>3. 0 \in S
  <2>1. Sums(s, 0, [n \in 0 .. 0 |-> 0])
    BY DEF Sums
  <2> QED
    BY <1>2, <2>1
<1>4. ASSUME NEW n \in 0 .. k, n \in S, n < k PROVE n + 1 \in S
  <2>1. PICK r : Sums(s, n, r)
    BY <1>2, <1>4
  <2>2. PICK new : new = r[n] + s[n + 1].length + 1
    OBVIOUS
  <2>3. r[n] \in Nat /\ new \in Nat
    BY <1>1, <1>4, <2>1, <2>2 DEF Sums
  <2>4. PICK t : t = [m \in 0 .. n + 1 |-> IF m = n + 1 THEN new ELSE r[m]]
    OBVIOUS
  <2>5. t \in [0 .. n + 1 -> Nat] /\ t[0] = 0
    BY <2>1, <2>3, <2>4 DEF Sums
  <2>6. ASSUME NEW m \in 1 .. n + 1 PROVE t[m] = t[m - 1] + s[m].length + 1
    <3>1. CASE m = n + 1
      BY <2>2, <2>4, <3>1
    <3>2. CASE m # n + 1
      BY <2>1, <2>4, <3>2 DEF Sums
    <3> QED
      BY <3>1, <3>2
  <2>7. Sums(s, n + 1, t)
    BY <2>5, <2>6 DEF Sums
  <2> QED
    BY <1>2, <1>4, <2>7
<1>5. 0 .. k \subseteq S
  BY <1>3, <1>4, UpTo
<1> QED
  BY <1>2, <1>5

LEMMA SumsGrow ==
  ASSUME NEW s \in Seq(Attribute), NEW r, Sums(s, Len(s), r), AttributesAssumption,
         NEW n \in 0 .. Len(s)
  PROVE  r[n] \in Nat /\ r[n] <= r[Len(s)]
<1>1. PICK k : k = Len(s)
  OBVIOUS
<1>2. PICK S : S = {m \in 0 .. k : m <= n \/ r[n] <= r[m]}
  OBVIOUS
<1>3. k \in Nat /\ n \in 0 .. k /\ \A m \in 0 .. k : r[m] \in Nat
  BY <1>1 DEF Sums
<1>4. ASSUME NEW m \in 0 .. k, m \in S, m < k PROVE m + 1 \in S
  <2>1. m + 1 \in 1 .. Len(s) /\ (m + 1) - 1 = m
    BY <1>1, <1>4
  <2>2. s[m + 1] \in Attribute
    BY <2>1
  <2>3. s[m + 1].length \in Nat
    BY <2>2 DEF Attribute, AttributesAssumption
  <2>4. r[m + 1] = r[m] + s[m + 1].length + 1
    BY <2>1 DEF Sums
  <2>5. r[m] <= r[m + 1]
    BY <1>3, <1>4, <2>3, <2>4
  <2>6. CASE m < n
    BY <1>2, <1>3, <1>4, <2>6
  <2>7. CASE n <= m
    <3>1. r[n] <= r[m]
      BY <1>2, <1>3, <1>4, <2>7
    <3>2. r[n] <= r[m + 1] /\ m + 1 \in 0 .. k
      BY <1>1, <1>3, <2>1, <2>5, <3>1
    <3> QED
      BY <1>2, <3>2
  <2> QED
    BY <1>3, <2>6, <2>7
<1>5. 0 \in S
  BY <1>2, <1>3
<1>6. 0 .. k \subseteq S
  BY <1>3, <1>4, <1>5, UpTo
<1> QED
  BY <1>1, <1>2, <1>3, <1>6

\* Room computes the room for the first k values.
LEMMA RoomSums ==
  ASSUME attrs \in Seq(Attribute), NEW k \in 0 .. Len(attrs), AttributesAssumption,
         NEW r, Sums(attrs, k, r)
  PROVE  Room(k) = r[k]
<1> DEFINE Turn(f) == [n \in 0 .. k |-> IF n = 0 THEN 0 ELSE f[n - 1] + attrs[n].length + 1]
<1>1. \A n \in 1 .. k : attrs[n].length \in Nat
  <2> SUFFICES ASSUME NEW n \in 1 .. k PROVE attrs[n].length \in Nat
    OBVIOUS
  <2>1. attrs[n] \in Attribute
    OBVIOUS
  <2> QED
    BY <2>1 DEF Attribute, AttributesAssumption
<1>2. r = Turn(r)
  BY DEF Sums
<1>3. PICK room : room = CHOOSE f : f = Turn(f)
  OBVIOUS
<1>4. room = Turn(room)
  BY <1>2, <1>3
<1>5. Room(k) = room[k]
  BY <1>3 DEF Room
<1>6. PICK S : S = {n \in 0 .. k : room[n] = r[n]}
  OBVIOUS
<1>7. 0 \in S
  BY <1>4, <1>6 DEF Sums
<1>8. ASSUME NEW n \in 0 .. k, n \in S, n < k PROVE n + 1 \in S
  <2>1. n + 1 \in 1 .. k /\ (n + 1) - 1 = n
    BY <1>8
  <2>2. room[n + 1] = room[n] + attrs[n + 1].length + 1
    BY <1>4, <2>1
  <2> QED
    BY <1>6, <1>8, <2>1, <2>2 DEF Sums
<1>9. 0 .. k \subseteq S
  BY <1>7, <1>8, UpTo
<1> QED
  BY <1>5, <1>6, <1>9

-----------------------------------------------------------------------------
(***************************************************************************)
(* The inductive invariant.                                                *)
(***************************************************************************)
\* The attributes with a name that are looked at already.
Seen(key) == {k \in 1 .. i : Key(attrs[k]) = key}

\* The value of an attribute stands in block b, which is filled up to end, from
\* offset o on.
Stands(k, b, o, end) ==
  /\ o \in Nat
  /\ o + attrs[k].length < end
  /\ \A n \in 1 .. attrs[k].length : b[o + (n - 1)] = <<k, n>>
  /\ b[o + attrs[k].length] = NUL

Documents ==
  /\ backend \in {"expat", "libxml2"}
  /\ attrs \in Seq(Attribute)
  /\ WellFormed(attrs)

\* What is written fills the block from its beginning, and what it takes so far
\* is no more than was measured for the attributes looked at.
Filled ==
  /\ DOMAIN block = 0 .. dst - 1
  /\ phase = "start" \/ backend = "expat" => dst = 0
  /\ phase = "start" => i = 0
  /\ phase # "start" /\ backend = "libxml2" =>
       \E r : /\ Sums(attrs, Len(attrs), r)
              /\ space = r[Len(attrs)]
              /\ dst <= r[i]

\* mattrs has the last value seen of each key.
Latest ==
  \A key \in Keys :
    /\ Seen(key) = {} => mattrs[key] = NULL
    /\ \A k \in Seen(key) :
         (\A m \in Seen(key) : m <= k) =>
           IF backend = "expat" THEN mattrs[key] = k
           ELSE Stands(k, block, mattrs[key], dst)

AttributesInv ==
  /\ AttributesTypeOK
  /\ Documents
  /\ phase = "start_fun" => i = Len(attrs)
  /\ Filled
  /\ Latest

LEMMA AnAttribute ==
  ASSUME AttributesAssumption, Documents, NEW k \in 1 .. Len(attrs)
  PROVE  /\ attrs[k].name \in Keys \cup {Unknown}
         /\ attrs[k].prefixed \in BOOLEAN
         /\ attrs[k].length \in 0 .. MaxValue
         /\ attrs[k].length \in Nat
         /\ Key(attrs[k]) \in Keys \cup {Unknown}
<1>1. attrs[k] \in Attribute
  BY DEF Documents
<1>2. \A n \in 0 .. MaxValue : n \in Nat
  BY DEF AttributesAssumption
<1> QED
  BY <1>1, <1>2 DEF Attribute, Key

LEMMA AttributesInitInv ==
  ASSUME AttributesAssumption, AttributesInit PROVE AttributesInv
<1>1. Documents
  <2>1. PICK n \in 0 .. MaxAttrs : attrs \in [1 .. n -> Attribute]
    BY DEF AttributesInit
  <2>2. n \in Nat
    BY DEF AttributesAssumption
  <2>3. attrs \in Seq(Attribute)
    BY <2>1, <2>2
  <2> QED
    BY <2>3 DEF AttributesInit, Documents
<1>2. Len(attrs) \in Nat /\ i = 0 /\ dst = 0 /\ phase = "start" /\ DOMAIN block = {}
  BY <1>1 DEF AttributesInit, Documents
<1>3. mattrs = [k \in Keys |-> NULL]
  BY DEF AttributesInit
<1>4. AttributesTypeOK
  BY <1>2, <1>3 DEF AttributesTypeOK
<1>5. Filled
  BY <1>2 DEF Filled
<1>6. Latest
  BY <1>2, <1>3 DEF Latest, Seen
<1> QED
  BY <1>1, <1>2, <1>4, <1>5, <1>6 DEF AttributesInv

\* Latest is about the attributes, the block and mattrs.
LEMMA LatestStays ==
  ASSUME Latest, UNCHANGED <<backend, attrs, i, block, dst, mattrs>> PROVE Latest'
<1>1. \A key \in Keys : Seen(key)' = Seen(key)
  BY DEF Seen, Key
<1> QED
  BY <1>1 DEF Latest, Stands

\* The first loop and its malloc.
LEMMA AllocateInv ==
  ASSUME AttributesAssumption, AttributesInv, Allocate PROVE AttributesInv'
<1>1. /\ UNCHANGED <<backend, attrs, i, block, dst, mattrs>>
      /\ phase = "start" /\ phase' = "copy"
      /\ space' = IF backend = "libxml2" THEN Room(Len(attrs)) ELSE 0
      /\ i = 0 /\ dst = 0
  BY DEF Allocate, AttributesInv, Filled
<1>2. AttributesTypeOK' /\ Documents' /\ Latest'
  BY <1>1, LatestStays DEF AttributesInv, AttributesTypeOK, Documents, WellFormed
<1>3. ASSUME backend = "libxml2"
      PROVE  \E r : Sums(attrs, Len(attrs), r) /\ space' = r[Len(attrs)] /\ 0 <= r[0]
  <2>1. attrs \in Seq(Attribute) /\ Len(attrs) \in 0 .. Len(attrs)
    BY DEF AttributesInv, Documents
  <2>2. PICK r : Sums(attrs, Len(attrs), r)
    BY <2>1, SumsExist
  <2>3. space' = r[Len(attrs)]
    BY <1>1, <1>3, <2>1, <2>2, RoomSums
  <2> QED
    BY <2>2, <2>3 DEF Sums
<1>4. Filled'
  BY <1>1, <1>3 DEF AttributesInv, Filled
<1> QED
  BY <1>1, <1>2, <1>4 DEF AttributesInv

\* The attribute after those looked at is one of the document's, and there is
\* room for it.
LEMMA NextAttribute ==
  ASSUME AttributesAssumption, AttributesInv, i < Len(attrs)
  PROVE  /\ i \in Nat /\ i + 1 \in 1 .. Len(attrs) /\ i + 1 \in 0 .. Len(attrs)
         /\ attrs[i + 1].length \in 0 .. MaxValue
         /\ attrs[i + 1].length \in Nat
         /\ Key(attrs[i + 1]) \in Keys \cup {Unknown}
         /\ Key(attrs[i + 1]) # Unknown => Key(attrs[i + 1]) \in Keys
         /\ \A r : Sums(attrs, Len(attrs), r) =>
              r[i + 1] = r[i] + attrs[i + 1].length + 1 /\ r[i] \in Nat
         /\ i' = i + 1 /\ UNCHANGED <<attrs, backend>> =>
              \A key \in Keys :
                Seen(key)' = IF Key(attrs[i + 1]) = key THEN Seen(key) \cup {i + 1}
                             ELSE Seen(key)
<1>1. i \in Nat /\ i + 1 \in 1 .. Len(attrs) /\ (i + 1) - 1 = i /\ i \in 0 .. Len(attrs)
  BY DEF AttributesInv, AttributesTypeOK, Documents
<1>2. /\ attrs[i + 1].length \in 0 .. MaxValue
      /\ attrs[i + 1].length \in Nat
      /\ Key(attrs[i + 1]) \in Keys \cup {Unknown}
  BY <1>1, AnAttribute DEF AttributesInv
<1>3. \A r : Sums(attrs, Len(attrs), r) =>
        r[i + 1] = r[i] + attrs[i + 1].length + 1 /\ r[i] \in Nat
  BY <1>1 DEF Sums
<1>4. ASSUME i' = i + 1, UNCHANGED <<attrs, backend>>, NEW key \in Keys
      PROVE  Seen(key)' = IF Key(attrs[i + 1]) = key THEN Seen(key) \cup {i + 1}
                          ELSE Seen(key)
  <2>1. 1 .. i' = (1 .. i) \cup {i + 1}
    BY <1>1, <1>4
  <2>2. Seen(key)' = {k \in (1 .. i) \cup {i + 1} : Key(attrs[k]) = key}
    BY <1>4, <2>1 DEF Seen, Key
  <2> QED
    BY <2>2 DEF Seen
<1> QED
  BY <1>1, <1>2, <1>3, <1>4

LEMMA SkipInv ==
  ASSUME AttributesAssumption, AttributesInv, Skip PROVE AttributesInv'
<1>1. /\ UNCHANGED <<backend, attrs, space, block, dst, mattrs, phase>>
      /\ phase = "copy" /\ i < Len(attrs) /\ i' = i + 1
      /\ Key(attrs[i + 1]) = Unknown
  BY DEF Skip
<1>2. AttributesTypeOK' /\ Documents'
  BY <1>1, NextAttribute DEF AttributesInv, AttributesTypeOK, Documents, WellFormed
<1>3. \A key \in Keys : Seen(key)' = Seen(key)
  BY <1>1, NextAttribute DEF AttributesAssumption
<1>4. Latest'
  BY <1>1, <1>3 DEF AttributesInv, Latest, Stands
<1>5. Filled'
  <2>1. ASSUME backend = "libxml2"
        PROVE  \E r : Sums(attrs, Len(attrs), r) /\ space = r[Len(attrs)] /\ dst <= r[i + 1]
    <3>1. PICK r : Sums(attrs, Len(attrs), r) /\ space = r[Len(attrs)] /\ dst <= r[i]
      BY <1>1, <2>1 DEF AttributesInv, Filled
    <3>2. dst <= r[i + 1]
      BY <1>1, <3>1, NextAttribute DEF AttributesInv, AttributesTypeOK
    <3> QED
      BY <3>1, <3>2
  <2> QED
    BY <1>1, <2>1 DEF AttributesInv, Filled
<1> QED
  BY <1>1, <1>2, <1>4, <1>5 DEF AttributesInv

\* What Copy writes: the characters of the value and the null byte after them.
LEMMA Bytes ==
  ASSUME AttributesAssumption, AttributesInv, NEW k \in 1 .. Len(attrs),
         NEW bytes, bytes = Append(Value(k), NUL)
  PROVE  /\ Len(bytes) = attrs[k].length + 1
         /\ \A n \in 1 .. attrs[k].length : bytes[n] = <<k, n>>
         /\ bytes[attrs[k].length + 1] = NUL
<1>1. attrs[k].length \in Nat
  BY AnAttribute DEF AttributesInv
<1>2. PICK l : l = attrs[k].length
  OBVIOUS
<1>3. PICK v : v = Value(k)
  OBVIOUS
<1>4. v = [n \in 1 .. l |-> <<k, n>>] /\ l \in Nat
  BY <1>1, <1>2, <1>3 DEF Value
<1>5. v \in Seq(Nat \X Nat) /\ Len(v) = l
  <2>1. k \in Nat
    BY DEF AttributesInv, Documents
  <2> QED
    BY <1>4, <2>1
<1>6. bytes = Append(v, NUL)
  BY <1>3
<1>7. \A n \in 1 .. l : bytes[n] = v[n]
  BY <1>4, <1>5, <1>6
<1>8. Len(bytes) = l + 1 /\ bytes[l + 1] = NUL
  BY <1>4, <1>5, <1>6
<1> QED
  BY <1>2, <1>4, <1>7, <1>8

LEMMA CopyInv ==
  ASSUME AttributesAssumption, AttributesInv, Copy PROVE AttributesInv'
<1>1. /\ UNCHANGED <<backend, attrs, space, phase>>
      /\ phase = "copy" /\ backend = "libxml2"
      /\ i < Len(attrs) /\ i' = i + 1
      /\ Key(attrs[i + 1]) # Unknown
      /\ dst' = dst + attrs[i + 1].length + 1
      /\ mattrs' = [mattrs EXCEPT ![Key(attrs[i + 1])] = dst]
      /\ block' = Written(Append(Value(i + 1), NUL))
  BY DEF Copy
<1>2. PICK l, new : l = attrs[i + 1].length /\ new = Key(attrs[i + 1])
  OBVIOUS
<1>3. /\ l \in Nat /\ dst \in Nat /\ dst' = dst + l + 1 /\ dst' \in Nat
      /\ i \in Nat /\ i + 1 \in 1 .. Len(attrs)
      /\ new \in Keys
  BY <1>1, <1>2, NextAttribute DEF AttributesInv, AttributesTypeOK
<1>4. /\ mattrs \in [Keys -> Nat \cup {NULL}]
      /\ mattrs' = [mattrs EXCEPT ![new] = dst]
      /\ DOMAIN block = 0 .. dst - 1
  BY <1>1, <1>2 DEF AttributesInv, AttributesTypeOK, Filled
<1>5. PICK bytes : bytes = Append(Value(i + 1), NUL)
  OBVIOUS
<1>6. /\ Len(bytes) = l + 1
      /\ \A n \in 1 .. l : bytes[n] = <<i + 1, n>>
      /\ bytes[l + 1] = NUL
  BY <1>2, <1>3, <1>5, Bytes
<1>7. block' = [x \in (0 .. dst - 1) \cup (dst .. dst + l) |->
                  IF x >= dst /\ x < dst + (l + 1) THEN bytes[x - dst + 1] ELSE block[x]]
  <2>1. dst + (l + 1) - 1 = dst + l
    BY <1>3
  <2> QED
    BY <1>1, <1>4, <1>5, <1>6, <2>1 DEF Written
<1>8. /\ DOMAIN block' = 0 .. dst' - 1
      /\ \A x \in 0 .. dst - 1 : block'[x] = block[x]
      /\ \A n \in 1 .. l : block'[dst + (n - 1)] = <<i + 1, n>>
      /\ block'[dst + l] = NUL
  <2>1. (0 .. dst - 1) \cup (dst .. dst + l) = 0 .. dst' - 1
    BY <1>3
  <2>2. ASSUME NEW x \in 0 .. dst - 1 PROVE block'[x] = block[x]
    <3>1. ~(x >= dst)
      BY <1>3
    <3> QED
      BY <1>7, <3>1
  <2>3. ASSUME NEW n \in 1 .. l PROVE block'[dst + (n - 1)] = <<i + 1, n>>
    <3>1. /\ dst + (n - 1) \in dst .. dst + l
          /\ dst + (n - 1) >= dst /\ dst + (n - 1) < dst + (l + 1)
          /\ (dst + (n - 1)) - dst + 1 = n
      BY <1>3
    <3> QED
      BY <1>6, <1>7, <3>1
  <2>4. block'[dst + l] = NUL
    <3>1. /\ dst + l \in dst .. dst + l
          /\ dst + l >= dst /\ dst + l < dst + (l + 1)
          /\ (dst + l) - dst + 1 = l + 1
      BY <1>3
    <3> QED
      BY <1>6, <1>7, <3>1
  <2> QED
    BY <1>7, <2>1, <2>2, <2>3, <2>4
<1>9. AttributesTypeOK' /\ Documents'
  <2>1. mattrs' \in [Keys -> Nat \cup {NULL}]
    BY <1>3, <1>4
  <2> QED
    BY <1>1, <1>3, <2>1
    DEF AttributesInv, AttributesTypeOK, Documents, WellFormed
<1>10. Filled'
  <2>1. PICK r : Sums(attrs, Len(attrs), r) /\ space = r[Len(attrs)] /\ dst <= r[i]
    BY <1>1 DEF AttributesInv, Filled
  <2>2. r[i + 1] = r[i] + l + 1 /\ r[i] \in Nat
    BY <1>1, <1>2, <2>1, NextAttribute
  <2>3. dst' <= r[i + 1]
    BY <1>3, <2>1, <2>2
  <2> QED
    BY <1>1, <1>8, <2>1, <2>3 DEF Filled
<1>11. ASSUME NEW o, NEW k \in 1 .. i, Stands(k, block, o, dst)
       PROVE  Stands(k, block', o, dst')
  <2>1. attrs[k].length \in Nat /\ k \in 1 .. Len(attrs)
    BY <1>3, AnAttribute DEF AttributesInv, Documents
  <2>2. o \in Nat /\ o + attrs[k].length < dst
    BY <1>11 DEF Stands
  <2>3. /\ \A n \in 1 .. attrs[k].length : o + (n - 1) \in 0 .. dst - 1
        /\ o + attrs[k].length \in 0 .. dst - 1
    BY <1>3, <2>1, <2>2
  <2>4. o + attrs[k].length < dst'
    BY <1>3, <2>1, <2>2
  <2> QED
    BY <1>8, <1>11, <2>3, <2>4 DEF Stands
<1>12. Stands(i + 1, block', dst, dst')
  <2>1. dst + l < dst'
    BY <1>3
  <2> QED
    BY <1>2, <1>3, <1>8, <2>1 DEF Stands
<1>13. Latest'
  <2> SUFFICES ASSUME NEW key \in Keys
               PROVE  /\ Seen(key)' = {} => mattrs'[key] = NULL
                      /\ \A k \in Seen(key)' :
                           (\A m \in Seen(key)' : m <= k) =>
                             Stands(k, block', mattrs'[key], dst')
    BY <1>1 DEF Latest, Stands
  <2>1. Seen(key)' = IF new = key THEN Seen(key) \cup {i + 1} ELSE Seen(key)
    BY <1>1, <1>2, NextAttribute
  <2>2. Seen(key) \subseteq 1 .. i
    BY DEF Seen
  <2>3. CASE new = key
    <3>1. ASSUME NEW k \in Seen(key)', \A m \in Seen(key)' : m <= k PROVE k = i + 1
      BY <1>3, <2>1, <2>2, <2>3, <3>1
    <3>2. mattrs'[key] = dst
      BY <1>3, <1>4, <2>3
    <3>3. Stands(i + 1, block', mattrs'[key], dst')
      BY <1>12, <3>2
    <3> QED
      BY <2>1, <2>3, <3>1, <3>3
  <2>4. CASE new # key
    <3>1. mattrs'[key] = mattrs[key] /\ Seen(key)' = Seen(key)
      BY <1>4, <2>1, <2>4
    <3>2. ASSUME NEW k \in Seen(key), \A m \in Seen(key) : m <= k
          PROVE  Stands(k, block', mattrs'[key], dst')
      <4>1. Stands(k, block, mattrs[key], dst)
        BY <1>1, <3>2 DEF AttributesInv, Latest
      <4>2. k \in 1 .. i
        BY <2>2
      <4> QED
        BY <1>11, <3>1, <4>1, <4>2
    <3> QED
      BY <3>1, <3>2 DEF AttributesInv, Latest
  <2> QED
    BY <2>3, <2>4
<1> QED
  BY <1>1, <1>9, <1>10, <1>13 DEF AttributesInv

\* Without a block, copying crashes; nothing was written.
LEMMA CopyCrashesInv ==
  ASSUME AttributesAssumption, AttributesInv, CopyCrashes PROVE AttributesInv'
<1>1. /\ UNCHANGED <<backend, attrs, i, space, block, dst, mattrs>>
      /\ phase = "copy" /\ phase' = "crashed"
  BY DEF CopyCrashes
<1>2. AttributesTypeOK' /\ Documents'
  BY <1>1 DEF AttributesInv, AttributesTypeOK, Documents, WellFormed
<1>3. Filled'
  BY <1>1 DEF AttributesInv, Filled
<1>4. Latest'
  BY <1>1, LatestStays DEF AttributesInv
<1> QED
  BY <1>1, <1>2, <1>3, <1>4 DEF AttributesInv

LEMMA StartFunInv ==
  ASSUME AttributesAssumption, AttributesInv, StartFun PROVE AttributesInv'
<1>1. /\ UNCHANGED <<backend, attrs, i, space, block, dst, mattrs>>
      /\ phase = "copy" /\ phase' = "start_fun" /\ i = Len(attrs)
  BY DEF StartFun
<1>2. AttributesTypeOK' /\ Documents'
  BY <1>1 DEF AttributesInv, AttributesTypeOK, Documents, WellFormed
<1>3. Filled'
  BY <1>1 DEF AttributesInv, Filled
<1>4. Latest'
  BY <1>1, LatestStays DEF AttributesInv
<1> QED
  BY <1>1, <1>2, <1>3, <1>4 DEF AttributesInv

LEMMA TakeInv ==
  ASSUME AttributesAssumption, AttributesInv, Take PROVE AttributesInv'
<1>1. /\ UNCHANGED <<backend, attrs, space, block, dst, phase>>
      /\ phase = "copy" /\ backend = "expat"
      /\ i < Len(attrs) /\ i' = i + 1
      /\ Key(attrs[i + 1]) # Unknown
      /\ mattrs' = [mattrs EXCEPT ![Key(attrs[i + 1])] = i + 1]
  BY DEF Take
<1>2. PICK new : new = Key(attrs[i + 1])
  OBVIOUS
<1>3. i \in Nat /\ i + 1 \in 1 .. Len(attrs) /\ i + 1 \in Nat /\ new \in Keys
  BY <1>1, <1>2, NextAttribute
<1>4. mattrs \in [Keys -> Nat \cup {NULL}] /\ mattrs' = [mattrs EXCEPT ![new] = i + 1]
  BY <1>1, <1>2 DEF AttributesInv, AttributesTypeOK
<1>5. AttributesTypeOK' /\ Documents'
  <2>1. mattrs' \in [Keys -> Nat \cup {NULL}]
    BY <1>3, <1>4
  <2>2. Len(attrs) \in Nat
    BY DEF AttributesInv, Documents
  <2> QED
    BY <1>1, <1>3, <2>1, <2>2
    DEF AttributesInv, AttributesTypeOK, Documents, WellFormed
<1>6. Filled'
  BY <1>1 DEF AttributesInv, Filled
<1>7. Latest'
  <2> SUFFICES ASSUME NEW key \in Keys
               PROVE  /\ Seen(key)' = {} => mattrs'[key] = NULL
                      /\ \A k \in Seen(key)' :
                           (\A m \in Seen(key)' : m <= k) => mattrs'[key] = k
    BY <1>1 DEF Latest
  <2>1. Seen(key)' = IF new = key THEN Seen(key) \cup {i + 1} ELSE Seen(key)
    BY <1>1, <1>2, NextAttribute
  <2>2. Seen(key) \subseteq 1 .. i
    BY DEF Seen
  <2>3. CASE new = key
    <3>1. ASSUME NEW k \in Seen(key)', \A m \in Seen(key)' : m <= k PROVE k = i + 1
      BY <1>3, <2>1, <2>2, <2>3, <3>1
    <3>2. mattrs'[key] = i + 1
      BY <1>3, <1>4, <2>3
    <3> QED
      BY <2>1, <2>3, <3>1, <3>2
  <2>4. CASE new # key
    <3>1. mattrs'[key] = mattrs[key] /\ Seen(key)' = Seen(key)
      BY <1>4, <2>1, <2>4
    <3> QED
      BY <1>1, <3>1 DEF AttributesInv, Latest
  <2> QED
    BY <2>3, <2>4
<1> QED
  BY <1>1, <1>5, <1>6, <1>7 DEF AttributesInv

LEMMA AttributesNextInv ==
  ASSUME AttributesAssumption, AttributesInv, [AttributesNext]_attributesVars
  PROVE  AttributesInv'
<1>1. CASE UNCHANGED attributesVars
  <2> USE <1>1 DEF attributesVars
  <2>1. AttributesTypeOK' /\ Documents'
    BY DEF AttributesInv, AttributesTypeOK, Documents, WellFormed
  <2>2. Filled'
    BY DEF AttributesInv, Filled
  <2>3. Latest'
    BY LatestStays DEF AttributesInv
  <2> QED
    BY <2>1, <2>2, <2>3 DEF AttributesInv
<1> QED
  BY <1>1, AllocateInv, SkipInv, CopyInv, CopyCrashesInv, TakeInv, StartFunInv
  DEF AttributesNext

\* AttributesInv holds of every state of every behaviour.
THEOREM AttributesInvariance ==
  ASSUME AttributesAssumption PROVE AttributesSpec => []AttributesInv
<1>1. AttributesInit => AttributesInv
  BY AttributesInitInv
<1>2. AttributesInv /\ [AttributesNext]_attributesVars => AttributesInv'
  BY AttributesNextInv
<1> QED
  BY <1>1, <1>2, PTL DEF AttributesSpec

\* However many attributes an element has and however long they are, the handler
\* of libxml2 copies the values it knows into the room it has summed up before
\* for all of them, and never past it.
THEOREM NeverPastTheBlock ==
  ASSUME AttributesAssumption PROVE AttributesSpec => []InsideBlock
<1>1. AttributesInv => InsideBlock
  <2> SUFFICES ASSUME AttributesInv PROVE InsideBlock
    OBVIOUS
  <2>1. DOMAIN block = 0 .. dst - 1 /\ dst \in Nat /\ i \in 0 .. Len(attrs)
    BY DEF AttributesInv, Filled, AttributesTypeOK
  <2>2. CASE phase = "start" \/ backend = "expat"
    BY <2>1, <2>2 DEF InsideBlock, AttributesInv, Filled
  <2>3. CASE ~(phase = "start" \/ backend = "expat")
    <3>1. PICK r : Sums(attrs, Len(attrs), r) /\ space = r[Len(attrs)] /\ dst <= r[i]
      BY <2>3 DEF AttributesInv, Filled, Documents
    <3>2. attrs \in Seq(Attribute) /\ Len(attrs) \in 0 .. Len(attrs)
      BY DEF AttributesInv, Documents
    <3>3. r[i] \in Nat /\ r[i] <= r[Len(attrs)] /\ r[Len(attrs)] \in Nat
      BY <2>1, <3>1, <3>2, SumsGrow
    <3> QED
      BY <2>1, <3>1, <3>3 DEF InsideBlock
  <2> QED
    BY <2>2, <2>3
<1> QED
  BY <1>1, AttributesInvariance, PTL

-----------------------------------------------------------------------------
\* A value that stands in the block is read back whole.
LEMMA ReadBack ==
  ASSUME AttributesAssumption, AttributesInv, NEW k \in 1 .. Len(attrs), NEW o,
         Stands(k, block, o, dst)
  PROVE  StringAt(o) = Value(k)
<1>1. PICK l : l = attrs[k].length
  OBVIOUS
<1>2. l \in 0 .. MaxValue /\ l \in Nat /\ MaxValue \in Nat
  BY <1>1, AnAttribute DEF AttributesInv, AttributesAssumption
<1>3. /\ o \in Nat /\ dst \in Nat /\ o + l < dst
      /\ DOMAIN block = 0 .. dst - 1
      /\ \A n \in 1 .. l : block[o + (n - 1)] = <<k, n>>
      /\ block[o + l] = NUL
  BY <1>1 DEF Stands, AttributesInv, AttributesTypeOK, Filled
<1>4. PICK ends :
        ends = {n \in 0 .. MaxValue : o + n \in DOMAIN block /\ block[o + n] = NUL}
  OBVIOUS
<1>5. l \in ends
  BY <1>2, <1>3, <1>4
<1>6. ASSUME NEW n \in ends PROVE l <= n
  <2> SUFFICES ASSUME n < l PROVE FALSE
    BY <1>2, <1>4
  <2>1. n + 1 \in 1 .. l /\ n + 1 \in Nat /\ (n + 1) - 1 = n
    BY <1>2, <1>4
  <2>2. block[o + n] = <<k, n + 1>>
    BY <1>3, <2>1
  <2>3. <<k, n + 1>> \in Nat \X Nat
    BY <2>1 DEF AttributesInv, Documents
  <2> QED
    BY <1>4, <2>2, <2>3 DEF AttributesAssumption
<1>7. PICK n : n = CHOOSE e \in ends : \A m \in ends : e <= m
  OBVIOUS
<1>8. n \in ends /\ \A m \in ends : n <= m
  BY <1>5, <1>6, <1>7
<1>9. n = l
  BY <1>2, <1>4, <1>5, <1>6, <1>8
<1>10. StringAt(o) = [j \in 1 .. n |-> block[o + j - 1]]
  BY <1>4, <1>5, <1>7 DEF StringAt
<1>11. \A j \in 1 .. l : block[o + j - 1] = <<k, j>>
  <2>1. \A j \in 1 .. l : o + j - 1 = o + (j - 1)
    BY <1>2, <1>3
  <2> QED
    BY <1>3, <2>1
<1> QED
  BY <1>1, <1>9, <1>10, <1>11 DEF Value

\* The last attribute of a name is the one that is handed over.
LEMMA LastIsHanded ==
  ASSUME AttributesAssumption, AttributesInv, phase = "start_fun", NEW key \in Keys,
         NEW last \in Named(key), \A m \in Named(key) : m <= last
  PROVE  Handed(key) = IF backend = "expat" THEN last ELSE Value(last)
<1>1. Seen(key) = Named(key) /\ last \in 1 .. Len(attrs)
  BY DEF AttributesInv, Documents, Seen, Named
<1>2. IF backend = "expat" THEN mattrs[key] = last
      ELSE Stands(last, block, mattrs[key], dst)
  BY <1>1 DEF AttributesInv, Latest
<1>3. CASE backend = "expat"
  BY <1>2, <1>3 DEF Handed
<1>4. CASE backend # "expat"
  <2>1. mattrs[key] \in Nat
    BY <1>2, <1>4 DEF Stands
  <2>2. mattrs[key] # NULL
    BY <2>1 DEF AttributesAssumption
  <2>3. StringAt(mattrs[key]) = Value(last)
    BY <1>1, <1>2, <1>4, ReadBack
  <2> QED
    BY <1>4, <2>2, <2>3 DEF Handed
<1> QED
  BY <1>3, <1>4

LEMMA AllArrive ==
  ASSUME AttributesAssumption, AttributesInv PROVE AttributesArrive
<1>1. ValuesArrive
  <2> SUFFICES ASSUME phase = "start_fun", NEW key \in Keys
               PROVE  IF Named(key) = {} THEN Handed(key) = NULL
                      ELSE LET last == CHOOSE k \in Named(key) : \A m \in Named(key) : m <= k
                           IN  Handed(key) = IF backend = "expat" THEN last ELSE Value(last)
    BY DEF ValuesArrive
  <2>1. CASE Named(key) = {}
    <3>1. Seen(key) = {}
      BY <2>1 DEF AttributesInv, Documents, Seen, Named
    <3> QED
      BY <2>1, <3>1 DEF AttributesInv, Latest, Handed
  <2>2. CASE Named(key) # {}
    <3>1. Named(key) \in SUBSET (1 .. Len(attrs)) /\ Len(attrs) \in Nat
      BY DEF AttributesInv, Documents, Named
    <3>2. \E k \in Named(key) : \A m \in Named(key) : m <= k
      BY <2>2, <3>1, GreatestNumber
    <3>3. PICK last : last = CHOOSE k \in Named(key) : \A m \in Named(key) : m <= k
      OBVIOUS
    <3>4. last \in Named(key) /\ \A m \in Named(key) : m <= last
      BY <3>2, <3>3
    <3>5. Handed(key) = IF backend = "expat" THEN last ELSE Value(last)
      BY <3>4, LastIsHanded
    <3> QED
      BY <2>2, <3>3, <3>5
  <2> QED
    BY <2>1, <2>2
<1>2. PlainAttributeWins
  <2> SUFFICES ASSUME phase = "start_fun", NEW k \in DOMAIN attrs,
                      attrs[k].name # Unknown, ~attrs[k].prefixed,
                      \/ backend = "expat"
                      \/ \A m \in (k + 1) .. Len(attrs) : attrs[m].name # attrs[k].name
               PROVE  Handed(attrs[k].name) = IF backend = "expat" THEN k ELSE Value(k)
    BY DEF PlainAttributeWins
  <2>1. PICK key : key = attrs[k].name
    OBVIOUS
  <2>2. k \in 1 .. Len(attrs) /\ Len(attrs) \in Nat /\ key \in Keys
    BY <2>1, AnAttribute DEF AttributesInv, Documents
  <2>3. k \in Named(key)
    BY <2>1 DEF Named, Key
  <2>4. ASSUME NEW m \in Named(key) PROVE m <= k
    <3>1. m \in DOMAIN attrs /\ m \in 1 .. Len(attrs) /\ Key(attrs[m]) = key
      BY DEF Named, AttributesInv, Documents
    <3>2. attrs[m].name = key /\ (backend = "expat" => ~attrs[m].prefixed)
      BY <2>1, <3>1 DEF Key
    <3>3. CASE backend = "expat"
      <4>1. attrs[m].prefixed = attrs[k].prefixed
        BY <2>2, <3>1, <3>2, <3>3, AnAttribute DEF AttributesInv
      <4> QED
        BY <2>1, <2>2, <3>1, <3>2, <4>1 DEF AttributesInv, Documents, WellFormed
    <3>4. CASE backend # "expat"
      BY <2>1, <2>2, <3>1, <3>2, <3>4
    <3> QED
      BY <3>3, <3>4
  <2>5. Handed(key) = IF backend = "expat" THEN k ELSE Value(k)
    BY <2>2, <2>3, <2>4, LastIsHanded
  <2> QED
    BY <2>1, <2>5
<1> QED
  BY <1>1, <1>2 DEF AttributesArrive

\* However many attributes there are, in either back end: a start handler finds
\* under every name the library knows the whole value of the last attribute that
\* has it, or nothing, and one without a prefix is never taken for another.
THEOREM AttributesAlwaysArrive ==
  ASSUME AttributesAssumption PROVE AttributesSpec => []AttributesArrive
<1>1. AttributesInv => AttributesArrive
  BY AllArrive
<1> QED
  BY <1>1, AttributesInvariance, PTL

-----------------------------------------------------------------------------
(***************************************************************************)
(* The six components side by side, as MCValues has them: the invariant of *)
(* each holds there too, while it runs and while it rests.                 *)
(***************************************************************************)
SideBySide ==
  AttributesInv /\ NumbersInv /\ RankingInv /\ CalendarInv /\ PathInv /\ FieldsInv

Assumed ==
  /\ AttributesAssumption /\ NumbersAssumption /\ RankingAssumption
  /\ CalendarAssumption /\ SafePathAssumption /\ FieldsAssumption

LEMMA AssumptionsHold == Assumed
  BY AttributesAssumption, NumbersAssumption, RankingAssumption, CalendarAssumption,
     SafePathAssumption, FieldsAssumption
  DEF Assumed

\* At rest a component is in an initial state, but for the date, whose zone is UTC.
LEMMA RestsInv ==
  /\ AttributesRest => AttributesInv
  /\ NumbersRest => NumbersInv
  /\ RankingRests => RankingInv
  /\ DateRests => CalendarInv
  <1> USE AssumptionsHold DEF Assumed
  <1>1. ASSUME AttributesRest PROVE AttributesInv
    <2>1. 0 \in 0 .. MaxAttrs /\ <<>> \in [1 .. 0 -> Attribute]
      BY DEF AttributesAssumption
    <2>2. attrs \in UNION {[1 .. n -> Attribute] : n \in 0 .. MaxAttrs}
      BY <1>1, <2>1 DEF AttributesRest
    <2>3. WellFormed(attrs)
      BY <1>1 DEF AttributesRest, WellFormed
    <2>4. AttributesInit
      BY <1>1, <2>2, <2>3 DEF AttributesRest, AttributesInit
    <2> QED
      BY <2>4, AttributesInitInv
  <1>2. ASSUME NumbersRest PROVE NumbersInv
    <2>1. text \in Texts /\ long_max \in {INT_MAX, LLONG_MAX}
      BY <1>2 DEF NumbersRest, Texts, NumbersAssumption
    <2> QED
      BY <1>2, <2>1 DEF NumbersRest, NumbersInv, NumberTypeOK, NumbersArrive,
         StoredNumbersFit, PlainNumbersArrive, NothingMadeUp, NumbersAssumption
  <1>3. RankingRests => RankingInv
    BY RankingInitInv DEF RankingRests, RankingInit
  <1>4. ASSUME DateRests PROVE CalendarInv
    <2>1. tm \in RealDates
      BY <1>4 DEF DateRests, RealDates, Dates, Date, MonthLength, Months, MonthDays, Hours, Minutes
    <2>2. Local(tm) \in Int
      BY <2>1, LocalIsInt
    <2> QED
      BY <1>4, <2>1, <2>2 DEF DateRests, CalendarInv, CalendarAssumption
  <1> QED
    BY <1>1, <1>2, <1>3, <1>4

LEMMA SideBySideInit == ASSUME Init PROVE SideBySide
  <1> USE AssumptionsHold DEF Assumed
  <1>1. AttributesInit => AttributesInv
    BY AttributesInitInv
  <1>2. NumberInit => NumbersInv
    BY NumbersInitInv
  <1>3. RankingInit => RankingInv
    BY RankingInitInv
  <1>4. DateInit => CalendarInv
    BY CalendarInitInv
  <1>5. PathInit => PathInv
    BY PathInitInv
  <1>6. FieldsInit => FieldsInv
    BY FieldsInitInv
  <1> QED
    BY <1>1, <1>2, <1>3, <1>4, <1>5, <1>6, RestsInv DEF Init, SideBySide

LEMMA SideBySideNext == ASSUME SideBySide, [Next]_vars PROVE SideBySide'
  <1>1. /\ [AttributesNext]_attributesVars
        /\ [NumberNext]_numberVars
        /\ [RankingNext]_rankingVars
        /\ [DateNext]_dateVars
        /\ [PathNext]_pathVars
        /\ [FieldsNext]_fieldsVars
    BY DEF Next, vars
  <1> QED
    BY <1>1, AssumptionsHold, AttributesNextInv, NumbersNextInv, RankingNextInv,
       CalendarStepInv, PathStepInv, FieldsNextInv
    DEF SideBySide, Assumed

\* In the instance that is model-checked every variable keeps its type.  For the
\* numbers of an address that means that neither leaves the range of int, and for
\* a date that the result is a time_t, whatever the date and its zone are.
THEOREM ValuesTyped == Spec => []ValuesTypeOK
  <1>1. SideBySide => ValuesTypeOK
    <2> SUFFICES ASSUME SideBySide PROVE ValuesTypeOK
      OBVIOUS
    <2>1. RankingTypeOK /\ DateTypeOK
      BY AssumptionsHold, EntriesFit, ResultFits DEF SideBySide, Assumed
    <2> QED
      BY <2>1 DEF SideBySide, AttributesInv, NumbersInv, PathInv, FieldsInv, ValuesTypeOK
  <1>2. Init => SideBySide
    BY SideBySideInit
  <1>3. SideBySide /\ [Next]_vars => SideBySide'
    BY SideBySideNext
  <1> QED
    BY <1>1, <1>2, <1>3, PTL DEF Spec

=============================================================================
