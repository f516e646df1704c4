----------------------------- MODULE CallsProofs ----------------------------
(***************************************************************************)
(* Proofs about the objects that live from call to call: the linked list,  *)
(* the string buffer, and the session with what it owns; and, with         *)
(* ParseApiProofs, about the components of MCCalls together.               *)
(***************************************************************************)
EXTENDS MCCalls, ParseApiProofs, SequenceTheorems

-----------------------------------------------------------------------------
(***************************************************************************)
(* Proofs about MetalinkList, for any memory and any data.  The argument:  *)
(* the cursor of a walk is the entry after the turns made so far, and a    *)
(* clear has freed exactly the entries before it.                          *)
(***************************************************************************)
\* metalink_list_clear and metalink_list_clear_data
Clears == {"clear", "clear_data"}

\* Where a walk is.
Cursor ==
  op # "idle" =>
    /\ turns \in 0 .. Len(cells)
    /\ e = IF turns = Len(cells) THEN Null ELSE cells[turns + 1]

\* What a clear has left.
Left ==
  op \in Clears => alive = {cells[i] : i \in (turns + 1) .. Len(cells)}

\* What a walk has gathered after its turns.
Gathered ==
  /\ op = "get" => index + turns = asked
  /\ op = "length" => index = turns
  /\ op \in {"visit", "clear_data"} => out = [i \in 1 .. turns |-> data[cells[i]]]
  /\ op = "clear" => out = <<>>

\* The inductive invariant.
ListInv == ListTypeOK /\ Linked /\ Cursor /\ Left /\ Gathered

USE MetalinkListAssumption

\* A walk starts at the first entry.
LEMMA AtHead == ASSUME ListInv, op = "idle"
  PROVE head = IF 0 = Len(cells) THEN Null ELSE cells[0 + 1]
<1>1. cells \in Seq(Cells) BY DEF ListInv, ListTypeOK
<1>2. cells = <<>> <=> Len(cells) = 0 BY <1>1
<1> QED BY <1>2 DEF ListInv, Linked

\* A turn leads from an entry to the next.
LEMMA AtNext == ASSUME ListInv, op # "idle", e # Null
  PROVE /\ turns + 1 \in 1 .. Len(cells)
        /\ e = cells[turns + 1]
        /\ e \in Cells
        /\ next[e] = IF turns + 1 = Len(cells) THEN Null ELSE cells[(turns + 1) + 1]
<1>1. cells \in Seq(Cells) /\ turns \in Nat BY DEF ListInv, ListTypeOK
<1>2. turns # Len(cells) /\ turns \in 0 .. Len(cells) /\ e = cells[turns + 1] BY DEF ListInv, Cursor
<1>3. turns + 1 \in 1 .. Len(cells) BY <1>1, <1>2
<1>4. turns + 1 \in DOMAIN cells BY <1>1, <1>3
<1>5. next[cells[turns + 1]] = IF turns + 1 = Len(cells) THEN Null ELSE cells[(turns + 1) + 1]
  BY <1>4 DEF ListInv, Linked
<1> QED BY <1>1, <1>2, <1>3, <1>4, <1>5

\* At the null pointer every entry was passed.
LEMMA AtEnd == ASSUME ListInv, op # "idle", e = Null PROVE turns = Len(cells)
<1>1. cells \in Seq(Cells) /\ turns \in Nat BY DEF ListInv, ListTypeOK
<1>2. SUFFICES ASSUME turns # Len(cells) PROVE FALSE OBVIOUS
<1>3. turns + 1 \in DOMAIN cells BY <1>1, <1>2 DEF ListInv, Cursor
<1>4. cells[turns + 1] \in Cells BY <1>1, <1>3
<1> QED BY <1>2, <1>4 DEF ListInv, Cursor

\* What is gathered grows by one.
LEMMA GatherOne == ASSUME ListInv, op # "idle", e # Null,
                          out = [i \in 1 .. turns |-> data[cells[i]]]
  PROVE Append(out, data[e]) = [i \in 1 .. (turns + 1) |-> data[cells[i]]]
<1>1. turns \in Nat /\ out \in Seq(Data) BY DEF ListInv, ListTypeOK
<1>2. e = cells[turns + 1] BY AtNext
<1>3. Len(out) = turns BY <1>1
<1> QED BY <1>1, <1>2, <1>3

\* What has been gathered when the walk ends is the whole list.
LEMMA GatheredAll == ASSUME ListInv, op # "idle", e = Null,
                            out = [i \in 1 .. turns |-> data[cells[i]]]
  PROVE out = [i \in DOMAIN cells |-> data[cells[i]]]
<1>1. cells \in Seq(Cells) BY DEF ListInv, ListTypeOK
<1>2. DOMAIN cells = 1 .. Len(cells) BY <1>1
<1> QED BY <1>2, AtEnd

-----------------------------------------------------------------------------
LEMMA ListInitInv == ListInit => ListInv
<1> SUFFICES ASSUME ListInit PROVE ListInv OBVIOUS
<1>1. ListTypeOK BY DEF ListInit, ListTypeOK, Walks
<1>2. Linked BY DEF ListInit, Linked
<1> QED BY <1>1, <1>2 DEF ListInv, ListInit, Cursor, Left, Gathered, Clears

\* metalink_list_append links the new cell at the end.
LEMMA AppendEntryInv == ASSUME ListInv, NEW d \in Data, AppendEntry(d) PROVE ListInv'
<1>1. PICK c \in Cells \ alive :
       /\ alive' = alive \cup {c}
       /\ data' = [data EXCEPT ![c] = d]
       /\ next' = [x \in Cells |-> IF x = tail THEN c ELSE IF x = c THEN Null ELSE next[x]]
       /\ head' = IF head = Null THEN c ELSE head
       /\ tail' = c
       /\ cells' = Append(cells, c)
  BY DEF AppendEntry
<1>2. op = "idle" /\ op' = "idle" /\ UNCHANGED <<e, index, out, turns, asked>>
  BY DEF AppendEntry, walkVars
<1>3. ListTypeOK BY DEF ListInv
<1>4. cells \in Seq(Cells) /\ c \in Cells /\ c # Null BY <1>3 DEF ListTypeOK
<1>5. /\ cells' \in Seq(Cells) /\ cells' # <<>>
      /\ Len(cells') = Len(cells) + 1
      /\ DOMAIN cells' = 1 .. (Len(cells) + 1)
      /\ cells'[Len(cells) + 1] = c
      /\ \A i \in 1 .. Len(cells) : cells'[i] = cells[i]
  BY <1>1, <1>4
<1>6. DOMAIN cells = 1 .. Len(cells) /\ Len(cells) \in Nat BY <1>4
<1>7. alive = {cells[i] : i \in DOMAIN cells} BY <1>2 DEF ListInv, Linked
<1>8. \A i \in 1 .. Len(cells) : cells[i] # c /\ cells[i] \in Cells BY <1>1, <1>4, <1>6, <1>7
<1>11. tail # c
  <2>1. CASE cells = <<>> BY <2>1, <1>4 DEF ListInv, Linked
  <2>2. CASE cells # <<>>
    <3>1. Len(cells) \in 1 .. Len(cells) BY <2>2, <1>4
    <3> QED BY <2>2, <3>1, <1>8 DEF ListInv, Linked
  <2> QED BY <2>1, <2>2
<1>9. ListTypeOK'
  <2>1. next' \in [Cells -> Cells \cup {Null}] BY <1>1, <1>3 DEF ListTypeOK
  <2>2. data' \in [Cells -> Data] BY <1>1, <1>3 DEF ListTypeOK
  <2> QED BY <1>1, <1>2, <1>3, <1>5, <2>1, <2>2 DEF ListTypeOK
<1>10. Linked'
  <2>1. \A i, j \in DOMAIN cells' : cells'[i] = cells'[j] => i = j
    <3>1. \A i, j \in 1 .. Len(cells) : cells[i] = cells[j] => i = j BY <1>6 DEF ListInv, Linked
    <3> QED BY <1>5, <1>6, <1>8, <3>1
  <2>2. head' = cells'[1]
    <3>1. CASE cells = <<>>
      BY <3>1, <1>1, <1>5 DEF ListInv, Linked
    <3>2. CASE cells # <<>>
      <4>1. 1 \in 1 .. Len(cells) BY <1>4, <3>2
      <4>2. head = cells[1] BY <3>2 DEF ListInv, Linked
      <4> QED BY <4>1, <4>2, <1>1, <1>4, <1>5, <1>8
    <3> QED BY <3>1, <3>2
  <2>3. tail' = cells'[Len(cells')] BY <1>1, <1>5
  <2>4. ASSUME NEW i \in DOMAIN cells'
        PROVE next'[cells'[i]] = IF i = Len(cells') THEN Null ELSE cells'[i + 1]
    <3>1. CASE i = Len(cells) + 1
      <4>1. cells'[i] = c /\ i = Len(cells') BY <3>1, <1>5
      <4>2. next'[c] = Null BY <1>1, <1>4, <1>11
      <4> QED BY <4>1, <4>2
    <3>2. CASE i = Len(cells) /\ i >= 1
      <4>1. cells # <<>> BY <3>2, <1>4
      <4>2. tail = cells[i] BY <3>2, <4>1 DEF ListInv, Linked
      <4>3. cells'[i] = tail /\ tail # c /\ tail \in Cells BY <3>2, <4>2, <1>5, <1>6, <1>8
      <4>4. next'[tail] = c BY <4>3, <1>1
      <4> QED BY <3>2, <4>3, <4>4, <1>5, <1>6
    <3>3. CASE i < Len(cells) /\ i >= 1
      <4>1. i \in 1 .. Len(cells) /\ Len(cells) \in 1 .. Len(cells) BY <3>3, <1>5, <1>6
      <4>2. cells # <<>> BY <4>1, <1>4
      <4>3. tail = cells[Len(cells)] BY <4>2 DEF ListInv, Linked
      <4>4. cells[i] # tail BY <3>3, <4>1, <4>3, <1>6 DEF ListInv, Linked
      <4>5. next'[cells[i]] = next[cells[i]] BY <4>1, <4>4, <1>1, <1>8
      <4>6. next[cells[i]] = cells[i + 1] BY <3>3, <4>1, <1>6 DEF ListInv, Linked
      <4>7. i + 1 \in 1 .. Len(cells) BY <3>3, <4>1, <1>6
      <4> QED BY <3>3, <4>1, <4>5, <4>6, <4>7, <1>5, <1>6
    <3> QED BY <3>1, <3>2, <3>3, <1>5, <1>6
  <2>5. alive' = {cells'[i] : i \in DOMAIN cells'} BY <1>1, <1>5, <1>6, <1>7
  <2> QED BY <2>1, <2>2, <2>3, <2>4, <2>5, <1>5 DEF Linked
<1> QED BY <1>2, <1>9, <1>10 DEF ListInv, Cursor, Left, Gathered, Clears

\* Calling a function that walks.
LEMMA StartInv == ASSUME ListInv, NEW f \in Walks, Start(f) PROVE ListInv'
<1>1. ListTypeOK /\ Linked BY DEF ListInv
<1>2. cells \in Seq(Cells) /\ Len(cells) \in Nat BY <1>1 DEF ListTypeOK
<1>3. ListTypeOK'
  <2>1. index' \in 0 .. MaxIndex /\ asked' \in 0 .. MaxIndex BY DEF Start
  <2>2. out' \in Seq(Data) BY DEF Start
  <2> QED BY <1>1, <2>1, <2>2 DEF Start, listVars, ListTypeOK
<1>4. alive = {cells[i] : i \in DOMAIN cells} BY <1>1 DEF Start, Linked
<1>5. Linked' BY <1>1, <1>4 DEF Start, listVars, Linked
<1>6. Cursor' BY <1>2, AtHead DEF Start, Cursor, listVars
<1>7. Left'
  <2>1. DOMAIN cells = (0 + 1) .. Len(cells) BY <1>2
  <2> QED BY <2>1, <1>4 DEF Start, Left, listVars
<1>8. Gathered'
  <2>1. out' = [i \in 1 .. 0 |-> data[cells[i]]] BY DEF Start
  <2>2. index' \in Nat /\ asked' = index' /\ turns' = 0 BY DEF Start
  <2>5. f = "length" => index' = 0 BY DEF Start
  <2>3. op' = f /\ out' = <<>> /\ UNCHANGED <<data, cells>> BY DEF Start, listVars
  <2>6. \A n \in Nat : n + 0 = n OBVIOUS
  <2>4. index' + turns' = asked'
    <3>1. index' + 0 = index' BY <2>2, <2>6
    <3> QED BY <2>2, <3>1, Zenon
  <2> QED BY <2>1, <2>2, <2>3, <2>4, <2>5 DEF Gathered
<1> QED BY <1>3, <1>5, <1>6, <1>7, <1>8 DEF ListInv

\* Every loop's turn moves the cursor on.
LEMMA TurnCursor == ASSUME ListInv, op # "idle", Turn, e' = next[e]
  PROVE Cursor' /\ turns' \in Nat /\ e' \in Cells \cup {Null} /\ data[e] \in Data
<1>1. e # Null /\ turns' = turns + 1 /\ cells' = cells BY DEF Turn
<1>2. turns \in Nat /\ Len(cells) \in Nat BY DEF ListInv, ListTypeOK
<1>3. /\ turns + 1 \in 1 .. Len(cells)
      /\ e \in Cells
      /\ next[e] = IF turns + 1 = Len(cells) THEN Null ELSE cells[(turns + 1) + 1]
  BY <1>1, AtNext
<1>4. Cursor' BY <1>1, <1>2, <1>3 DEF Cursor
<1> QED BY <1>1, <1>2, <1>3, <1>4 DEF ListInv, ListTypeOK

\* A turn of metalink_list_clear or metalink_list_clear_data.
LEMMA FreeInv == ASSUME ListInv, FreeCell PROVE ListInv'
<1>1. op \in Clears /\ op # "idle" /\ Turn /\ e' = next[e] BY DEF FreeCell, Clears
<1>2. e # Null /\ turns' = turns + 1 /\ op' = op /\ UNCHANGED <<head, tail, next, data, cells, asked, index>>
  BY DEF FreeCell, Turn
<1>3. ListTypeOK /\ Linked BY DEF ListInv
<1>4. Cursor' /\ turns' \in Nat /\ e' \in Cells \cup {Null} /\ data[e] \in Data BY <1>1, TurnCursor
<1>5. out' \in Seq(Data) BY <1>3, <1>4 DEF FreeCell, ListTypeOK
<1>6. ListTypeOK' BY <1>2, <1>3, <1>4, <1>5 DEF FreeCell, ListTypeOK
<1>7. Linked' BY <1>1, <1>2, <1>3 DEF Linked, Clears
<1>8. Left'
  <2>1. cells \in Seq(Cells) /\ turns \in Nat BY <1>3 DEF ListTypeOK
  <2>2. turns + 1 \in 1 .. Len(cells) /\ e = cells[turns + 1] BY <1>1, <1>2, AtNext
  <2>3. \A i, j \in 1 .. Len(cells) : cells[i] = cells[j] => i = j BY <1>3, <2>1 DEF Linked
  <2>4. alive = {cells[i] : i \in (turns + 1) .. Len(cells)} BY <1>1 DEF ListInv, Left
  <2>5. alive' = alive \ {e} BY DEF FreeCell
  <2>6. alive' = {cells[i] : i \in (turns + 2) .. Len(cells)}
    <3>1. ASSUME NEW x \in alive' PROVE x \in {cells[i] : i \in (turns + 2) .. Len(cells)}
      <4>1. PICK i \in (turns + 1) .. Len(cells) : x = cells[i] BY <2>4, <2>5
      <4>2. i # turns + 1 BY <4>1, <2>2, <2>5
      <4> QED BY <4>1, <4>2, <2>1
    <3>2. ASSUME NEW i \in (turns + 2) .. Len(cells) PROVE cells[i] \in alive'
      <4>1. i \in (turns + 1) .. Len(cells) /\ i \in 1 .. Len(cells) /\ i # turns + 1 BY <2>1
      <4>2. cells[i] # e BY <4>1, <2>2, <2>3
      <4> QED BY <4>1, <4>2, <2>4, <2>5
    <3> QED BY <3>1, <3>2
  <2>7. turns' + 1 = turns + 2 BY <1>2, <2>1
  <2> QED BY <1>2, <2>6, <2>7 DEF Left
<1>9. Gathered'
  <2>1. CASE op = "clear" BY <2>1, <1>2 DEF ListInv, Gathered, FreeCell
  <2>2. CASE op = "clear_data"
    <3>1. out = [i \in 1 .. turns |-> data[cells[i]]] BY <2>2 DEF ListInv, Gathered
    <3>2. out' = [i \in 1 .. (turns + 1) |-> data[cells[i]]]
      BY <2>2, <3>1, <1>1, <1>2, GatherOne DEF FreeCell
    <3> QED BY <2>2, <3>2, <1>2 DEF Gathered
  <2> QED BY <2>1, <2>2, <1>1 DEF Clears
<1> QED BY <1>4, <1>6, <1>7, <1>8, <1>9 DEF ListInv

\* metalink_list_clear leaves the list empty.
LEMMA ClearedInv == ASSUME ListInv, Cleared PROVE ListInv'
<1>1. ListTypeOK BY DEF ListInv
<1>2. turns = Len(cells) BY AtEnd DEF Cleared
<1>3. turns \in Nat /\ alive = {cells[i] : i \in (turns + 1) .. Len(cells)}
  BY <1>1 DEF ListInv, ListTypeOK, Left, Cleared, Clears
<1>4. alive = {} BY <1>2, <1>3
<1>5. ListTypeOK' BY <1>1 DEF Cleared, ListTypeOK
<1>6. Linked' BY <1>4 DEF Cleared, Linked
<1> QED BY <1>5, <1>6 DEF ListInv, Cleared, Cursor, Left, Gathered, Clears

\* The loops of metalink_list_get_data and metalink_list_length.
LEMMA CountingInv == ASSUME ListInv, CountDown \/ Count PROVE ListInv'
<1>1. op \in {"get", "length"} /\ Turn /\ e' = next[e] /\ UNCHANGED <<alive, out>>
  BY DEF CountDown, Count
<1>2. turns' = turns + 1 /\ op' = op /\ UNCHANGED <<head, tail, next, data, cells, asked>>
  BY <1>1 DEF Turn
<1>3. ListTypeOK /\ Linked /\ Gathered BY DEF ListInv
<1>4. Cursor' /\ turns' \in Nat /\ e' \in Cells \cup {Null} BY <1>1, TurnCursor
<1>5. index' \in Nat BY <1>3 DEF CountDown, Count, ListTypeOK
<1>6. ListTypeOK' BY <1>1, <1>2, <1>3, <1>4, <1>5 DEF ListTypeOK
<1>7. Linked' BY <1>1, <1>2, <1>3 DEF Linked
<1>8. index \in Nat /\ turns \in Nat /\ asked \in Nat BY <1>3 DEF ListTypeOK
<1>9. CASE CountDown
  <2>1. index' + turns' = asked BY <1>2, <1>3, <1>8, <1>9 DEF CountDown, Gathered
  <2>2. Gathered' BY <1>2, <1>9, <2>1 DEF CountDown, Gathered
  <2> QED BY <1>2, <1>4, <1>6, <1>7, <1>9, <2>2 DEF ListInv, CountDown, Left, Clears
<1>10. CASE Count
  <2>1. index' = turns' BY <1>2, <1>3, <1>8, <1>10 DEF Count, Gathered
  <2>2. Gathered' BY <1>2, <1>10, <2>1 DEF Count, Gathered
  <2> QED BY <1>2, <1>4, <1>6, <1>7, <1>10, <2>2 DEF ListInv, Count, Left, Clears
<1> QED BY <1>9, <1>10

\* The loop of metalink_list_to_array and metalink_list_for_each.
LEMMA HandOutInv == ASSUME ListInv, HandOut PROVE ListInv'
<1>1. op = "visit" /\ Turn /\ e' = next[e] /\ UNCHANGED <<alive, index>> BY DEF HandOut
<1>2. /\ turns' = turns + 1 /\ op' = op /\ UNCHANGED <<head, tail, next, data, cells, asked>>
      /\ e # Null
  BY <1>1 DEF Turn
<1>3. ListTypeOK /\ Linked BY DEF ListInv
<1>4. Cursor' /\ turns' \in Nat /\ e' \in Cells \cup {Null} /\ data[e] \in Data BY <1>1, TurnCursor
<1>5. out' \in Seq(Data) BY <1>3, <1>4 DEF HandOut, ListTypeOK
<1>6. ListTypeOK' BY <1>1, <1>2, <1>3, <1>4, <1>5 DEF ListTypeOK
<1>7. Linked' BY <1>1, <1>2, <1>3 DEF Linked
<1>8. out = [i \in 1 .. turns |-> data[cells[i]]] BY <1>1 DEF ListInv, Gathered
<1>9. out' = [i \in 1 .. (turns + 1) |-> data[cells[i]]] BY <1>1, <1>2, <1>8, GatherOne DEF HandOut
<1>10. Gathered' BY <1>1, <1>2, <1>9 DEF Gathered
<1> QED BY <1>1, <1>2, <1>4, <1>6, <1>7, <1>10 DEF ListInv, Left, Clears

\* A walk that leaves the list as it was returns.
LEMMA ReturnInv == ASSUME ListInv, Got \/ Counted \/ HandedOut PROVE ListInv'
<1>1. /\ op' = "idle" /\ op \notin Clears
      /\ UNCHANGED <<listVars, e, index, out, cells, turns, asked>>
  BY DEF Got, Counted, HandedOut, Clears
<1>2. ListTypeOK' BY <1>1 DEF ListInv, ListTypeOK, listVars
<1>3. Linked' BY <1>1 DEF ListInv, Linked, listVars, Clears
<1> QED BY <1>1, <1>2, <1>3 DEF ListInv, Cursor, Left, Gathered, Clears

\* Every step preserves the invariant.
LEMMA ListNextInv == ASSUME ListInv, [ListNext]_metalinkListVars PROVE ListInv'
<1>1. CASE UNCHANGED metalinkListVars
  <2>1. UNCHANGED <<head, tail, next, data, alive, op, e, index, out, cells, turns, asked>>
    BY <1>1 DEF metalinkListVars, listVars, walkVars
  <2>2. ListTypeOK' /\ Linked' BY <2>1 DEF ListInv, ListTypeOK, Linked
  <2> QED BY <2>1, <2>2 DEF ListInv, Cursor, Left, Gathered
<1>2. CASE AppendFails
  <2>1. UNCHANGED <<head, tail, next, data, alive, op, e, index, out, cells, turns, asked>>
    BY <1>2 DEF AppendFails, listVars, walkVars
  <2>2. ListTypeOK' /\ Linked' BY <2>1 DEF ListInv, ListTypeOK, Linked
  <2> QED BY <2>1, <2>2 DEF ListInv, Cursor, Left, Gathered
<1>3. CASE \E d \in Data : AppendEntry(d) BY <1>3, AppendEntryInv
<1>4. CASE \E f \in Walks : Start(f) BY <1>4, StartInv
<1>5. CASE Running BY <1>5, FreeInv, ClearedInv, CountingInv, HandOutInv, ReturnInv DEF Running
<1> QED BY <1>1, <1>2, <1>3, <1>4, <1>5 DEF ListNext

\* The list's fields, its history and the cursor always agree.
THEOREM ListInvariance == ListSpec => []ListInv
<1>1. ListInv /\ [ListNext]_metalinkListVars => ListInv' BY ListNextInv
<1> QED BY ListInitInv, <1>1, PTL DEF ListSpec

-----------------------------------------------------------------------------
\* Every entry appended is linked, once and in order, whatever was cleared
\* before: metalink_list_clear resets both ends.
THEOREM StaysLinked == ListSpec => []Linked
<1>1. ListInv => Linked BY DEF ListInv
<1> QED BY <1>1, ListInvariance, PTL

\* No loop of metalink_list.c reads an entry that was freed.
THEOREM ReadsWhatIsAllocated == ListSpec => []NoUseAfterFree
<1>1. ListInv => NoUseAfterFree
  <2> SUFFICES ASSUME ListInv, op # "idle", e # Null PROVE e \in alive
    BY DEF NoUseAfterFree
  <2>1. cells \in Seq(Cells) /\ turns \in Nat BY DEF ListInv, ListTypeOK
  <2>2. turns + 1 \in 1 .. Len(cells) /\ e = cells[turns + 1] BY AtNext
  <2>3. CASE op \in Clears
    <3>1. alive = {cells[i] : i \in (turns + 1) .. Len(cells)} BY <2>3 DEF ListInv, Left
    <3>2. turns + 1 \in (turns + 1) .. Len(cells) BY <2>1, <2>2
    <3> QED BY <3>1, <3>2, <2>2
  <2>4. CASE op \notin Clears
    <3>1. alive = {cells[i] : i \in DOMAIN cells} BY <2>4 DEF ListInv, Linked, Clears
    <3> QED BY <3>1, <2>1, <2>2
  <2> QED BY <2>3, <2>4
<1> QED BY <1>1, ListInvariance, PTL

-----------------------------------------------------------------------------
\* The content of the list as its contract knows it.
Content == [i \in DOMAIN cells |-> data[cells[i]]]

LEMMA ContentLength == ASSUME ListInv
  PROVE Len(Content) = Len(cells) /\ DOMAIN Content = 1 .. Len(cells) /\ Len(cells) \in Nat
<1>1. cells \in Seq(Cells) BY DEF ListInv, ListTypeOK
<1> QED BY <1>1 DEF Content

\* metalink_list_append appends to the content.
LEMMA AppendSteps == ASSUME ListInv, NEW d \in Data, AppendEntry(d) PROVE Sequence!Add(d)
<1>1. PICK c \in Cells \ alive :
       data' = [data EXCEPT ![c] = d] /\ cells' = Append(cells, c)
  BY DEF AppendEntry
<1>2. cells \in Seq(Cells) /\ data \in [Cells -> Data] BY DEF ListInv, ListTypeOK
<1>3. alive = {cells[i] : i \in DOMAIN cells} BY DEF AppendEntry, ListInv, Linked
<1>4. DOMAIN cells = 1 .. Len(cells) /\ Len(cells) \in Nat BY <1>2
<1>5. \A i \in 1 .. Len(cells) : cells[i] \in Cells /\ cells[i] # c BY <1>2, <1>3, <1>4
<1>6. DOMAIN cells' = 1 .. (Len(cells) + 1) BY <1>1, <1>2
<1>7. \A i \in 1 .. Len(cells) : data'[cells'[i]] = data[cells[i]] BY <1>1, <1>2, <1>4, <1>5
<1>8. data'[cells'[Len(cells) + 1]] = d BY <1>1, <1>2, <1>4
<1>9. Content' = Append(Content, d)
  <2> DEFINE New == [i \in 1 .. (Len(cells) + 1) |-> data'[cells'[i]]]
  <2>1. Content' = New BY <1>6 DEF Content
  <2>2. Content \in Seq(Data) /\ Len(Content) = Len(cells) BY <1>2, <1>4, <1>5 DEF Content
  <2>3. \A i \in 1 .. Len(cells) : New[i] = Content[i] BY <1>4, <1>7 DEF Content
  <2>4. New[Len(cells) + 1] = d BY <1>4, <1>8
  <2> DEFINE Added == Append(Content, d)
  <2>5. /\ Added \in Seq(Data) /\ Len(Added) = Len(cells) + 1
        /\ \A i \in 1 .. Len(cells) : Added[i] = Content[i]
        /\ Added[Len(cells) + 1] = d
    BY <2>2
  <2>10. Len(Added) = Len(Content) + 1 /\ Added \in Seq(Data) BY <2>2
  <2> HIDE DEF Added
  <2>8. Added = [i \in 1 .. Len(Added) |-> Added[i]] BY <2>10
  <2>7. New = [i \in 1 .. (Len(cells) + 1) |-> New[i]] OBVIOUS
  <2> HIDE DEF New
  <2>6. \A i \in 1 .. (Len(cells) + 1) : New[i] = Added[i]
    BY <2>3, <2>4, <2>5, <1>4
  <2>9. New = Added BY <2>5, <2>6, <2>7, <2>8
  <2> QED BY <2>1, <2>9 DEF Added
<1>10. answer' = <<"append", 0>> BY DEF AppendEntry
<1> QED BY <1>9, <1>10 DEF Sequence!Add, Content

\* metalink_list_get_data finds the entry with the index it was given.
LEMMA GotSteps == ASSUME ListInv, Got PROVE \E i \in 0 .. MaxIndex : Sequence!Get(i)
<1>1. op = "get" /\ UNCHANGED <<data, cells>> BY DEF Got, listVars
<1>2. /\ index \in Nat /\ turns \in Nat /\ asked \in 0 .. MaxIndex /\ cells \in Seq(Cells)
      /\ index + turns = asked
  BY <1>1 DEF ListInv, ListTypeOK, Gathered
<1>3. Len(Content) = Len(cells) /\ DOMAIN Content = 1 .. Len(cells) /\ Len(cells) \in Nat
  BY ContentLength
<1>4. (IF e = Null THEN Null ELSE data[e])
        = IF asked < Len(Content) THEN Content[asked + 1] ELSE Null
  <2>1. CASE e = Null
    <3>1. turns = Len(cells) BY <2>1, <1>1, AtEnd
    <3> QED BY <2>1, <3>1, <1>2, <1>3
  <2>2. CASE e # Null
    <3>1. index = 0 BY <2>2 DEF Got
    <3>2. asked = turns BY <3>1, <1>2
    <3>3. turns + 1 \in 1 .. Len(cells) /\ e = cells[turns + 1] BY <2>2, <1>1, AtNext
    <3>4. turns + 1 \in DOMAIN cells BY <3>3, <1>2
    <3>5. Content[turns + 1] = data[e] BY <3>3, <3>4 DEF Content
    <3> QED BY <2>2, <3>2, <3>3, <3>5, <1>2, <1>3
  <2> QED BY <2>1, <2>2
<1>5. answer' = <<"get", asked, IF asked < Len(Content) THEN Content[asked + 1] ELSE Null>>
  BY <1>4 DEF Got
<1>6. Content' = Content BY <1>1 DEF Content
<1>7. Sequence!Get(asked) BY <1>5, <1>6 DEF Sequence!Get, Content
<1> QED BY <1>2, <1>7

\* The other functions answer from the content.
LEMMA CountedSteps == ASSUME ListInv, Counted PROVE Sequence!Length
<1>1. op = "length" /\ e = Null /\ UNCHANGED <<data, cells>> BY DEF Counted, listVars
<1>2. index = Len(cells) BY <1>1, AtEnd DEF ListInv, Gathered
<1>3. Len(Content) = Len(cells) BY ContentLength
<1>4. answer' = <<"length", Len(Content)>> BY <1>2, <1>3 DEF Counted
<1>5. Content' = Content BY <1>1 DEF Content
<1> QED BY <1>4, <1>5 DEF Sequence!Length, Content

LEMMA HandedOutSteps == ASSUME ListInv, HandedOut PROVE Sequence!Visit
<1>1. op = "visit" /\ e = Null /\ UNCHANGED <<data, cells>> BY DEF HandedOut, listVars
<1>2. out = Content BY <1>1, GatheredAll DEF ListInv, Gathered, Content
<1>3. Content' = Content BY <1>1 DEF Content
<1> QED BY <1>2, <1>3 DEF HandedOut, Sequence!Visit, Content

LEMMA ClearedSteps == ASSUME ListInv, Cleared PROVE Sequence!Clear \/ Sequence!ClearData
<1>1. op \in Clears /\ e = Null /\ cells' = <<>> /\ answer' = <<op, out>>
  BY DEF Cleared, Clears
<1>2. Content' = <<>> BY <1>1 DEF Content
<1>3. CASE op = "clear"
  BY <1>1, <1>2, <1>3 DEF ListInv, Gathered, Sequence!Clear, Content
<1>4. CASE op = "clear_data"
  <2>1. out = Content BY <1>1, <1>4, GatheredAll DEF ListInv, Gathered, Content
  <2> QED BY <1>1, <1>2, <1>4, <2>1 DEF Sequence!ClearData, Content
<1> QED BY <1>1, <1>3, <1>4 DEF Clears

\* The rest of a function is not seen.
LEMMA OthersStutter == ASSUME ListInv,
    \/ UNCHANGED metalinkListVars
    \/ \E f \in Walks : Start(f)
    \/ FreeCell \/ CountDown \/ Count \/ HandOut
  PROVE UNCHANGED <<Content, answer>>
<1>1. UNCHANGED <<data, cells, answer>>
  BY DEF metalinkListVars, listVars, Start, FreeCell, CountDown, Count, HandOut, Turn
<1> QED BY <1>1 DEF Content

\* The linked list with its two ends, walked cell by cell, is the sequence
\* its header promises: metalink_list_get_data returns the entry asked for,
\* the walks hand out every entry once and in order, and clear_data frees the
\* data of every one.
THEOREM IsTheSequence == ListSpec => ImplementsList
<1>1. ListInit => Sequence!ListInit
  BY DEF ListInit, Sequence!ListInit
<1>2. ListInv /\ [ListNext]_metalinkListVars => [Sequence!ListNext]_<<Content, answer>>
  <2> SUFFICES ASSUME ListInv, [ListNext]_metalinkListVars PROVE [Sequence!ListNext]_<<Content, answer>>
    OBVIOUS
  <2>1. CASE \E d \in Data : AppendEntry(d) BY <2>1, AppendSteps DEF Sequence!ListNext
  <2>2. CASE AppendFails
    <3>1. Content' = Content BY <2>2 DEF AppendFails, listVars, Content
    <3> QED BY <2>2, <3>1 DEF AppendFails, Sequence!AddFails, Sequence!ListNext, Content
  <2>3. CASE Got BY <2>3, GotSteps DEF Sequence!ListNext
  <2>4. CASE Counted BY <2>4, CountedSteps DEF Sequence!ListNext
  <2>5. CASE HandedOut BY <2>5, HandedOutSteps DEF Sequence!ListNext
  <2>6. CASE Cleared BY <2>6, ClearedSteps DEF Sequence!ListNext
  <2>7. CASE \/ UNCHANGED metalinkListVars
             \/ \E f \in Walks : Start(f)
             \/ FreeCell \/ CountDown \/ Count \/ HandOut
    BY <2>7, OthersStutter
  <2> QED BY <2>1, <2>2, <2>3, <2>4, <2>5, <2>6, <2>7 DEF ListNext, Running
<1> QED BY <1>1, <1>2, ListInvariance, PTL DEF ListSpec, ImplementsList, Sequence!ListSpec, Content

\* The list of any length stays in one piece through any calls.
THEOREM StaysSound == ListSpec => []ListIsSound
BY StaysLinked, ReadsWhatIsAllocated, PTL DEF ListIsSound

-----------------------------------------------------------------------------
(***************************************************************************)
(* Proofs about StringBuffer, for any initial capacity and any pieces.     *)
(***************************************************************************)
\* The inductive invariant.
BufferInv == BufferTypeOK /\ NoOverrun /\ StringIsText

USE StringBufferAssumption

\* A piece is a sequence of characters.
LEMMA PieceIsText == ASSUME NEW piece \in Pieces PROVE piece \in Seq(Chars) /\ Len(piece) \in Nat
<1>1. PICK n \in 0 .. MaxPiece : piece \in [1 .. n -> Chars] BY DEF Pieces
<1> QED BY <1>1

LEMMA BufferInitInv == BufferInit => BufferInv
<1> SUFFICES ASSUME BufferInit PROVE BufferInv OBVIOUS
<1>1. BufferTypeOK BY DEF BufferInit, BufferTypeOK, Bytes
<1> QED BY <1>1 DEF BufferInit, BufferInv, NoOverrun, StringIsText

\* metalink_string_buffer_new makes an empty string.
LEMMA NewInv == ASSUME BufferInv, NewBuffer PROVE BufferInv'
<1>1. BufferTypeOK' BY DEF BufferInv, BufferTypeOK, NewBuffer, Bytes
<1>2. StringIsText' BY DEF NewBuffer, StringIsText
<1> QED BY <1>1, <1>2 DEF BufferInv, NewBuffer, NoOverrun

\* There is room for the piece and for the null byte.
LEMMA RoomForAll == ASSUME NEW end \in Nat, capacity \in Nat
  PROVE Resized(end) \in Nat /\ end <= Resized(end) /\ capacity <= Resized(end)
BY DEF Resized

\* metalink_string_buffer_append writes the piece behind the text.
LEMMA AppendPieceInv == ASSUME BufferInv, NEW piece \in Pieces, AppendPiece(piece) PROVE BufferInv'
<1> DEFINE end == length + Len(piece)
<1>1. piece \in Seq(Chars) /\ Len(piece) \in Nat BY PieceIsText
<1>2. /\ capacity \in Nat /\ length \in Nat /\ length <= capacity
      /\ buffer \in [0 .. capacity -> Bytes] /\ text \in Seq(Chars)
      /\ ~overrun
  BY DEF BufferInv, BufferTypeOK, NoOverrun
<1>3. /\ phase = "open" /\ phase' = "open"
      /\ capacity' = Resized(end) /\ length' = end
      /\ buffer' = [i \in 0 .. capacity' |-> Written(piece, i)]
      /\ overrun' = (overrun \/ end > capacity')
      /\ text' = text \o piece
  BY DEF AppendPiece
<1>4. end \in Nat BY <1>1, <1>2
<1>5. capacity' \in Nat /\ end <= capacity' /\ capacity <= capacity' BY <1>2, <1>3, <1>4, RoomForAll
<1>6. /\ length = Len(text) /\ buffer[length] = NUL
      /\ \A i \in 0 .. (length - 1) : buffer[i] = text[i + 1]
  BY <1>3 DEF BufferInv, StringIsText
<1>7. ASSUME NEW i \in 0 .. capacity' PROVE Written(piece, i) \in Bytes
  <2>1. CASE i \in length .. (length + Len(piece) - 1)
    <3>1. i - length + 1 \in 1 .. Len(piece) BY <2>1, <1>1, <1>2, <1>5
    <3>2. piece[i - length + 1] \in Chars BY <3>1, <1>1
    <3> QED BY <2>1, <3>2 DEF Written, Bytes
  <2>2. CASE i \notin length .. (length + Len(piece) - 1)
    <3>1. Kept(i) \in Bytes BY <1>2, <1>5 DEF Kept, Size, Bytes
    <3> QED BY <2>2, <3>1 DEF Written, Bytes
  <2> QED BY <2>1, <2>2
<1>8. buffer' \in [0 .. capacity' -> Bytes] BY <1>3, <1>7
<1>9. text' \in Seq(Chars) /\ Len(text') = end BY <1>1, <1>2, <1>3, <1>6
<1>10. BufferTypeOK' BY <1>2, <1>3, <1>4, <1>5, <1>8, <1>9 DEF BufferTypeOK
<1>11. NoOverrun'
  <2>1. ~(end > capacity') BY <1>4, <1>5
  <2> QED BY <2>1, <1>2, <1>3, Zenon DEF NoOverrun
<1>12. StringIsText'
  <2>1. ASSUME NEW i \in 0 .. (length' - 1) PROVE buffer'[i] = text'[i + 1]
    <3>1. i \in 0 .. capacity' /\ i \in Nat /\ i < end BY <1>3, <1>4, <1>5
    <3>2. buffer'[i] = Written(piece, i) BY <3>1, <1>3
    <3>3. CASE i < length
      <4>1. i \notin length .. (length + Len(piece) - 1) /\ i # end BY <3>1, <3>3, <1>1, <1>2
      <4>2. Written(piece, i) = buffer[i] BY <3>1, <3>3, <4>1, <1>2 DEF Written, Kept, Size
      <4>3. i \in 0 .. (length - 1) BY <3>1, <3>3, <1>2
      <4>4. buffer[i] = text[i + 1] BY <4>3, <1>6
      <4>5. (text \o piece)[i + 1] = text[i + 1] BY <3>1, <3>3, <1>1, <1>2, <1>6
      <4> QED BY <3>2, <4>2, <4>4, <4>5, <1>3
    <3>4. CASE i >= length
      <4>1. i \in length .. (length + Len(piece) - 1) BY <3>1, <3>4, <1>1, <1>2
      <4>2. Written(piece, i) = piece[i - length + 1] BY <4>1 DEF Written
      <4>3. (text \o piece)[i + 1] = piece[i + 1 - length] BY <3>1, <3>4, <1>1, <1>2, <1>6
      <4>4. i - length + 1 = i + 1 - length BY <3>1, <1>2
      <4> QED BY <3>2, <4>2, <4>3, <4>4, <1>3
    <3> QED BY <3>1, <3>3, <3>4, <1>2
  <2>2. buffer'[end] = NUL
    <3>1. end \in 0 .. capacity' /\ end \notin length .. (length + Len(piece) - 1)
      BY <1>1, <1>2, <1>4, <1>5
    <3> QED BY <3>1, <1>3 DEF Written
  <2> QED BY <2>1, <2>2, <1>3, <1>9 DEF StringIsText
<1> QED BY <1>10, <1>11, <1>12 DEF BufferInv

LEMMA BufferNextInv == ASSUME BufferInv, [BufferNext]_bufferVars PROVE BufferInv'
<1>1. CASE NewBuffer BY <1>1, NewInv
<1>2. CASE \E piece \in Pieces : AppendPiece(piece) BY <1>2, AppendPieceInv
<1>3. CASE DeleteBuffer \/ \E piece \in Pieces : AppendCrashes(piece)
  <2>1. UNCHANGED <<buffer, length, capacity, overrun, text>> /\ phase' \in {"none", "crashed"}
    BY <1>3 DEF DeleteBuffer, AppendCrashes, block
  <2> QED BY <2>1 DEF BufferInv, BufferTypeOK, NoOverrun, StringIsText
<1>4. CASE UNCHANGED bufferVars
  BY <1>4 DEF bufferVars, block, BufferInv, BufferTypeOK, NoOverrun, StringIsText
<1> QED BY <1>1, <1>2, <1>3, <1>4 DEF BufferNext

\* The invariant of the buffer.
THEOREM BufferInvariance == BufferSpec => []BufferInv
<1>1. BufferInv /\ [BufferNext]_bufferVars => BufferInv' BY BufferNextInv
<1> QED BY BufferInitInv, <1>1, PTL DEF BufferSpec

\* No append writes past the block, whatever the sizes of the pieces.
THEOREM StaysInside == BufferSpec => []NoOverrun
<1>1. BufferInv => NoOverrun BY DEF BufferInv
<1> QED BY <1>1, BufferInvariance, PTL

\* An end handler is passed exactly the characters of its buffer.
THEOREM TextIsWhole == BufferSpec => []StringIsText
<1>1. BufferInv => StringIsText BY DEF BufferInv
<1> QED BY <1>1, BufferInvariance, PTL

\* A text of any length, in pieces of any length, is held inside the block.
THEOREM HoldsTheText == BufferSpec => []TextInBlock
BY StaysInside, TextIsWhole, PTL DEF TextInBlock

-----------------------------------------------------------------------------
(***************************************************************************)
(* Proofs about Construct, for both objects that are constructed and both  *)
(* back ends.  The agenda is read by its entries: whose call each is, and  *)
(* what comes before what.                                                 *)
(***************************************************************************)
\* What an object consists of, apart from itself.
Inside(o) ==
  LET inCtrl    == {"metalink"} \cup ToSet(ListMembers)
      inStm     == {"ctrl", "state"} \cup inCtrl
      inSession == {"stm", "stack"} \cup inStm
  IN  CASE o = "context" ->
             {"session"} \cup inSession \cup IF HasParser THEN {"parser"} ELSE {}
        [] o = "session" -> inSession
        [] o = "stm"     -> inStm
        [] o = "ctrl"    -> inCtrl
        [] OTHER         -> {}

Within(o) == {o} \cup Inside(o)

\* What the session under construction consists of.
Whole == Within(root)

Obj(i) == agenda[i][2]

Freeing(o) == \E i \in DOMAIN agenda : agenda[i] = <<"free", o>>

\* Building: nothing was freed, and what is still to be allocated has an owner,
\* unless it is the root.
Building ==
  /\ freed = {}
  /\ \A i \in DOMAIN agenda :
       /\ Obj(i) \in Whole
       /\ IF Obj(i) = root THEN live = {} /\ Len(agenda) = 1 ELSE Owner(Obj(i)) \in live
  /\ "ctrl" \in live \/ \E i \in DOMAIN agenda : "ctrl" \in Within(Obj(i))

\* Deleting: no object is called for after what it is a part of ...
PartsFirst == \A i, j \in DOMAIN agenda : i < j => Obj(j) \notin Within(Obj(i))

\* ... an object that is about to be freed is still there, and those of its parts
\* that are there are called for first ...
FreedLast ==
  \A i \in DOMAIN agenda : agenda[i][1] = "free" =>
    /\ Obj(i) \in live
    /\ \A c \in live : c \in ToSet(Parts(Obj(i))) =>
         \E j \in DOMAIN agenda : j < i /\ Obj(j) = c

\* ... it is deleted by its owner's destructor, or by the constructor that was to
\* make it, and then its owner's is next ...
CalledByOwner ==
  \A i \in DOMAIN agenda :
    /\ Obj(i) \in Whole
    /\ \/ Obj(i) = root
       \/ \E j \in DOMAIN agenda : i < j /\ agenda[j] = <<"free", Owner(Obj(i))>>
       \/ /\ status = "failing"
          /\ i < Len(agenda) /\ agenda[i + 1] = <<"delete", Owner(Obj(i))>>
          /\ Obj(i) \in NullSafe

\* ... and a pointer that was freed and not cleared is not used: its owner is
\* past deleting its parts.
NoneAgain ==
  \A o \in freed :
    /\ \A i \in DOMAIN agenda : Obj(i) # o
    /\ o = root \/ Owner(o) \notin live \/ Freeing(Owner(o))

Deleting ==
  /\ PartsFirst
  /\ FreedLast
  /\ CalledByOwner
  /\ NoneAgain
  /\ root \in live => \E i \in DOMAIN agenda : Obj(i) = root

ConstructInv ==
  /\ ConstructTypeOK
  /\ live \subseteq Whole /\ freed \subseteq Whole /\ live \cap freed = {}
  /\ \A o \in live \ {root} : Owner(o) \in live
  /\ status = "building" => Building
  /\ status = "ready" => agenda = <<>> /\ freed = {} /\ "ctrl" \in live
  /\ status \in {"failing", "deleting"} => Deleting
  /\ status \in {"null", "deleted"} => agenda = <<>> /\ live = {}
  /\ status = "crashed" => agenda = <<>>

-----------------------------------------------------------------------------
(***************************************************************************)
(* The tables.                                                             *)
(***************************************************************************)
LEMMA MemberNames ==
  /\ ToSet(ListMembers) =
       {"files", "languages", "oses", "resources", "metaurls", "checksums", "piece_hashes"}
  /\ ListMembers \in Seq(Objects) /\ Len(ListMembers) = 7
  /\ \A i, j \in 1 .. 7 : i # j => ListMembers[i] # ListMembers[j]
  <1>1. DOMAIN ListMembers = 1 .. 7 /\ 1 .. 7 = {1, 2, 3, 4, 5, 6, 7}
    BY DEF ListMembers
  <1>2. ToSet(ListMembers) =
       {"files", "languages", "oses", "resources", "metaurls", "checksums", "piece_hashes"}
    BY <1>1 DEF ToSet, ListMembers
  <1>3. ListMembers \in Seq(Objects) /\ Len(ListMembers) = 7
    BY <1>2 DEF Objects, ListMembers
  <1>4. \A i, j \in 1 .. 7 : i # j => ListMembers[i] # ListMembers[j]
    BY <1>1 DEF ListMembers
  <1> QED
    BY <1>2, <1>3, <1>4

\* The objects an object has are named once, in the order of a sequence.
NamedOnce(s, S) ==
  /\ s \in Seq(Objects)
  /\ ToSet(s) = S
  /\ \A i, j \in 1 .. Len(s) : i # j => s[i] # s[j]

CtrlParts == {"metalink", "files", "languages", "oses", "resources", "metaurls",
              "checksums", "piece_hashes"}

ContextParts == {"session"} \cup IF HasParser THEN {"parser"} ELSE {}

LEMMA NothingNamed == NamedOnce(<<>>, {})
  BY DEF NamedOnce, ToSet

LEMMA TwoNamed ==
  ASSUME NEW a \in Objects, NEW b \in Objects \ {a}
  PROVE  NamedOnce(<<a, b>>, {a, b}) /\ NamedOnce(<<a>>, {a})
  <1>1. <<a, b>> \in Seq(Objects) /\ <<a>> \in Seq(Objects)
        /\ Len(<<a, b>>) = 2 /\ Len(<<a>>) = 1 /\ 1 .. 2 = {1, 2} /\ 1 .. 1 = {1}
    OBVIOUS
  <1>2. DOMAIN <<a, b>> = 1 .. 2 /\ DOMAIN <<a>> = 1 .. 1
    OBVIOUS
  <1>3. ToSet(<<a, b>>) = {a, b} /\ ToSet(<<a>>) = {a}
    BY <1>1, <1>2 DEF ToSet
  <1> QED
    BY <1>1, <1>3 DEF NamedOnce

LEMMA OneMoreNamed ==
  ASSUME NEW a \in Objects, NEW s, NEW S, NamedOnce(s, S), a \notin S
  PROVE  NamedOnce(<<a>> \o s, {a} \cup S)
  <1>1. <<a>> \in Seq(Objects) /\ Len(<<a>>) = 1 /\ <<a>>[1] = a
        /\ s \in Seq(Objects) /\ Len(s) \in Nat
    BY LenProperties DEF NamedOnce
  <1> DEFINE t == <<a>> \o s
  <1>2. /\ t \in Seq(Objects)
        /\ Len(t) = 1 + Len(s)
        /\ \A i \in 1 .. Len(t) : t[i] = IF i = 1 THEN a ELSE s[i - 1]
    <2>1. \A i \in 1 .. Len(<<a>>) + Len(s) :
            t[i] = IF i <= Len(<<a>>) THEN <<a>>[i] ELSE s[i - Len(<<a>>)]
      BY <1>1, ConcatProperties
    <2> QED
      BY <1>1, <2>1, ConcatProperties
  <1> HIDE DEF t
  <1>3. DOMAIN t = 1 .. (1 + Len(s)) /\ DOMAIN s = 1 .. Len(s)
    BY <1>1, <1>2, LenProperties
  <1>4. \A i \in 1 .. Len(s) : s[i] \in S
    BY <1>3 DEF NamedOnce, ToSet
  <1>5. ToSet(t) = {a} \cup S
    <2>1. \A x \in ToSet(t) : x \in {a} \cup S
      BY <1>1, <1>2, <1>3, <1>4 DEF ToSet
    <2>2. a \in ToSet(t)
      BY <1>1, <1>2, <1>3 DEF ToSet
    <2>3. ASSUME NEW x \in S PROVE x \in ToSet(t)
      <3>1. PICK i \in 1 .. Len(s) : x = s[i]
        BY <1>3 DEF NamedOnce, ToSet
      <3>2. i + 1 \in DOMAIN t /\ t[i + 1] = x
        BY <1>1, <1>2, <1>3, <3>1
      <3> QED
        BY <3>2 DEF ToSet
    <2> QED
      BY <2>1, <2>2, <2>3
  <1>6. \A i, j \in 1 .. Len(t) : i # j => t[i] # t[j]
    <2>1. ASSUME NEW i \in 1 .. Len(t), i # 1
          PROVE  i - 1 \in 1 .. Len(s) /\ t[i] = s[i - 1] /\ t[i] # a
      BY <1>1, <1>2, <1>4, <2>1
    <2>2. t[1] = a
      BY <1>1, <1>2
    <2>3. \A i, j \in 1 .. Len(s) : i # j => s[i] # s[j]
      BY DEF NamedOnce
    <2>4. ASSUME NEW i \in 1 .. Len(t), NEW j \in 1 .. Len(t), i # j
          PROVE  t[i] # t[j]
      <3>1. CASE i = 1 \/ j = 1
        BY <2>1, <2>2, <2>4, <3>1
      <3>2. CASE i # 1 /\ j # 1
        <4>1. i - 1 # j - 1
          BY <1>1, <1>2, <2>4
        <4> QED
          BY <2>1, <2>3, <3>2, <4>1
      <3> QED
        BY <3>1, <3>2
    <2> QED
      BY <2>4
  <1> QED
    BY <1>2, <1>5, <1>6 DEF NamedOnce, t

LEMMA PartsTable ==
  /\ NamedOnce(Parts("context"), ContextParts)
  /\ NamedOnce(Parts("session"), {"stm", "stack"})
  /\ NamedOnce(Parts("stm"), {"ctrl", "state"})
  /\ NamedOnce(Parts("ctrl"), CtrlParts)
  /\ \A o \in Objects \ {"context", "session", "stm", "ctrl"} : NamedOnce(Parts(o), {})
  <1>0. {"context", "session", "parser", "stm", "stack", "ctrl", "state", "metalink"}
          \subseteq Objects
    BY DEF Objects
  <1>1. NamedOnce(Parts("context"), ContextParts)
    <2>1. CASE HasParser
      <3>1. Parts("context") = <<"session">> \o <<"parser">>
        BY <2>1 DEF Parts
      <3>2. NamedOnce(<<"parser">>, {"parser"})
        BY <1>0, TwoNamed
      <3>3. NamedOnce(<<"session">> \o <<"parser">>, {"session"} \cup {"parser"})
        BY <1>0, <3>2, OneMoreNamed
      <3> QED
        BY <2>1, <3>1, <3>3 DEF ContextParts
    <2>2. CASE ~HasParser
      <3>1. Parts("context") = <<"session">> \o <<>>
        BY <2>2 DEF Parts
      <3>2. NamedOnce(<<"session">> \o <<>>, {"session"} \cup {})
        BY <1>0, NothingNamed, OneMoreNamed
      <3> QED
        BY <2>2, <3>1, <3>2 DEF ContextParts
    <2> QED
      BY <2>1, <2>2
  <1>2. NamedOnce(Parts("session"), {"stm", "stack"}) /\ NamedOnce(Parts("stm"), {"ctrl", "state"})
    BY <1>0, TwoNamed DEF Parts
  <1>3. NamedOnce(Parts("ctrl"), CtrlParts)
    <2>1. NamedOnce(ListMembers, CtrlParts \ {"metalink"})
      BY MemberNames DEF NamedOnce, CtrlParts
    <2>2. Parts("ctrl") = <<"metalink">> \o ListMembers
      BY DEF Parts
    <2>3. {"metalink"} \cup (CtrlParts \ {"metalink"}) = CtrlParts
      BY DEF CtrlParts
    <2>4. NamedOnce(<<"metalink">> \o ListMembers, {"metalink"} \cup (CtrlParts \ {"metalink"}))
      BY <1>0, <2>1, OneMoreNamed
    <2> QED
      BY <2>2, <2>3, <2>4
  <1>4. \A o \in Objects \ {"context", "session", "stm", "ctrl"} : NamedOnce(Parts(o), {})
    BY NothingNamed DEF Parts
  <1> QED
    BY <1>1, <1>2, <1>3, <1>4

\* What the definitions above give of an object o and of a part c of it.
LEMMA PartFacts ==
  ASSUME NEW o \in Objects
  PROVE  /\ Parts(o) \in Seq(Objects)
         /\ Len(Parts(o)) \in Nat /\ DOMAIN Parts(o) = 1 .. Len(Parts(o))
         /\ \A i, j \in 1 .. Len(Parts(o)) : i # j => Parts(o)[i] # Parts(o)[j]
         /\ \A i \in 1 .. Len(Parts(o)) : Parts(o)[i] \in ToSet(Parts(o))
         /\ \A c \in ToSet(Parts(o)) : \E i \in 1 .. Len(Parts(o)) : c = Parts(o)[i]
         /\ ToSet(Parts(o)) \subseteq Inside(o)
         /\ Inside(o) \subseteq Objects
         /\ o \notin Inside(o)
  <1>1. \E S : NamedOnce(Parts(o), S)
    BY PartsTable
  <1>2. /\ Parts(o) \in Seq(Objects)
        /\ \A i, j \in 1 .. Len(Parts(o)) : i # j => Parts(o)[i] # Parts(o)[j]
    BY <1>1 DEF NamedOnce
  <1>3. Len(Parts(o)) \in Nat /\ DOMAIN Parts(o) = 1 .. Len(Parts(o))
    BY <1>2, LenProperties
  <1>4. /\ \A i \in 1 .. Len(Parts(o)) : Parts(o)[i] \in ToSet(Parts(o))
        /\ \A c \in ToSet(Parts(o)) : \E i \in 1 .. Len(Parts(o)) : c = Parts(o)[i]
    BY <1>3 DEF ToSet
  <1>5. /\ ToSet(Parts(o)) \subseteq Inside(o)
        /\ Inside(o) \subseteq Objects
        /\ o \notin Inside(o)
    BY PartsTable, MemberNames DEF NamedOnce, Inside, CtrlParts, ContextParts, Objects
  <1> QED
    BY <1>2, <1>3, <1>4, <1>5

LEMMA OwnerIs ==
  ASSUME NEW o \in Objects, NEW c \in ToSet(Parts(o))
  PROVE  Owner(c) = o
  <1>1. \A p \in Objects : c \in ToSet(Parts(p)) <=> p = o
    BY PartsTable DEF NamedOnce, CtrlParts, ContextParts
  <1> QED
    BY <1>1 DEF Owner

\* Everything inside o is a part of o or inside one.
LEMMA InsideParts ==
  ASSUME NEW o \in Objects, NEW x \in Inside(o)
  PROVE  \E c \in ToSet(Parts(o)) : x \in Within(c)
  <1>1. o \in {"context", "session", "stm", "ctrl"}
    BY DEF Inside
  <1>2. CASE o = "context"
    <2>1. x \in ContextParts \cup Inside("session")
      BY <1>2 DEF Inside, ContextParts
    <2> QED
      BY <1>2, <2>1, PartsTable DEF NamedOnce, Within, ContextParts
  <1>3. CASE o = "session"
    <2>1. x \in {"stm", "stack"} \cup Inside("stm")
      BY <1>3 DEF Inside
    <2> QED
      BY <1>3, <2>1, PartsTable DEF NamedOnce, Within
  <1>4. CASE o = "stm"
    <2>1. x \in {"ctrl", "state"} \cup Inside("ctrl")
      BY <1>4 DEF Inside
    <2> QED
      BY <1>4, <2>1, PartsTable DEF NamedOnce, Within
  <1>5. CASE o = "ctrl"
    <2>1. x \in CtrlParts
      BY <1>5, MemberNames DEF Inside, CtrlParts
    <2> QED
      BY <1>5, <2>1, PartsTable DEF NamedOnce, Within
  <1> QED
    BY <1>1, <1>2, <1>3, <1>4, <1>5

LEMMA InsideOwned ==
  ASSUME NEW o \in Objects, NEW x \in Inside(o)
  PROVE  /\ Owner(x) \in Within(o) /\ x \in ToSet(Parts(Owner(x)))
         /\ Inside(x) \subseteq Inside(o)
         /\ o \notin Within(x)
  <1>1. x \in Objects
    BY PartFacts
  <1>2. \E p \in Within(o) : x \in ToSet(Parts(p)) /\ p \in Objects
    BY PartsTable, MemberNames DEF NamedOnce, Inside, Within, CtrlParts, ContextParts, Objects
  <1>3. Inside(x) \subseteq Inside(o) /\ o \notin Within(x)
    BY PartsTable, MemberNames DEF NamedOnce, Inside, Within, Objects
  <1> QED
    BY <1>2, <1>3, OwnerIs

LEMMA PartsApart ==
  ASSUME NEW o \in Objects, NEW c \in ToSet(Parts(o)), NEW d \in ToSet(Parts(o)), c # d
  PROVE  d \notin Within(c)
  <1>1. CASE o = "context"
    BY <1>1, PartsTable, MemberNames DEF NamedOnce, Inside, Within, ContextParts
  <1>2. CASE o \in {"session", "stm"}
    BY <1>2, PartsTable, MemberNames DEF NamedOnce, Inside, Within
  <1>3. CASE o = "ctrl"
    <2>1. c \in CtrlParts /\ d \in CtrlParts
      BY <1>3, PartsTable DEF NamedOnce
    <2>2. Inside(c) = {}
      BY <2>1 DEF Inside, CtrlParts
    <2> QED
      BY <2>2 DEF Within
  <1>4. CASE o \notin {"context", "session", "stm", "ctrl"}
    BY <1>4, PartsTable DEF NamedOnce
  <1> QED
    BY <1>1, <1>2, <1>3, <1>4

LEMMA OwnerTable ==
  /\ Owner("session") = "context" /\ Owner("stm") = "session" /\ Owner("ctrl") = "stm"
  /\ \A o \in Inside("session") : Owner(o) \in {"session", "stm", "ctrl"}
  /\ \A o \in Inside("context") : Owner(o) \in {"context", "session", "stm", "ctrl"}
  <1>1. {"context", "session", "stm"} \subseteq Objects
    BY DEF Objects
  <1>2. /\ "session" \in ToSet(Parts("context")) /\ "stm" \in ToSet(Parts("session"))
        /\ "ctrl" \in ToSet(Parts("stm"))
    BY PartsTable DEF NamedOnce, ContextParts
  <1>3. \A o \in Inside("session") : Owner(o) \in {"session", "stm", "ctrl"}
    <2>1. \A o \in Inside("session") : Owner(o) \in Within("session") /\ o \in ToSet(Parts(Owner(o)))
      BY <1>1, InsideOwned
    <2>2. Within("session") \subseteq Objects
      BY <1>1, PartFacts DEF Within
    <2>3. "context" \notin Within("session")
      BY DEF Within, Inside, ListMembers, ToSet
    <2> QED
      BY <2>1, <2>2, <2>3, PartsTable DEF NamedOnce
  <1>4. \A o \in Inside("context") : Owner(o) \in {"context", "session", "stm", "ctrl"}
    <2>1. \A o \in Inside("context") : Owner(o) \in Within("context") /\ o \in ToSet(Parts(Owner(o)))
      BY <1>1, InsideOwned
    <2>2. Within("context") \subseteq Objects
      BY <1>1, PartFacts DEF Within
    <2> QED
      BY <2>1, <2>2, PartsTable DEF NamedOnce
  <1> QED
    BY <1>1, <1>2, <1>3, <1>4, OwnerIs

\* A sequence of objects, each followed by its owner, up to the root at most.
Upwards(s) ==
  /\ s \in Seq(Objects) /\ Len(s) \in Nat \ {0}
  /\ \A i \in 1 .. Len(s) : s[i] \in Whole \cap {"context", "session", "stm", "ctrl"}
  /\ \A i \in 1 .. Len(s) - 1 : s[i] # root /\ s[i + 1] = Owner(s[i])
  /\ \A i, j \in 1 .. Len(s) : i < j => s[j] \notin Within(s[i])

LEMMA OneUp ==
  ASSUME root \in {"context", "session"}, NEW s, Upwards(s), s[Len(s)] # root
  PROVE  /\ Upwards(Append(s, Owner(s[Len(s)])))
         /\ Append(s, Owner(s[Len(s)]))[1] = s[1]
  <1>1. PICK x : x = Owner(s[Len(s)])
    OBVIOUS
  <1>2. root \in Objects /\ s[Len(s)] \in Inside(root)
    BY DEF Upwards, Objects, Whole, Within
  <1>3. x \in Whole \cap {"context", "session", "stm", "ctrl"}
    BY <1>1, <1>2, InsideOwned, OwnerTable DEF Whole
  <1>4. x \in Objects
    BY <1>3 DEF Objects
  <1>5. PICK t : t = Append(s, x)
    OBVIOUS
  <1>6. /\ s \in Seq(Objects) /\ Len(s) \in Nat \ {0}
        /\ t \in Seq(Objects) /\ Len(t) = Len(s) + 1 /\ t[Len(s) + 1] = x
        /\ \A i \in 1 .. Len(s) : t[i] = s[i]
    BY <1>4, <1>5 DEF Upwards
  <1>7. ASSUME NEW i \in 1 .. Len(t)
        PROVE  t[i] \in Whole \cap {"context", "session", "stm", "ctrl"}
    BY <1>3, <1>6 DEF Upwards
  <1>8. ASSUME NEW i \in 1 .. Len(t) - 1
        PROVE  t[i] # root /\ t[i + 1] = Owner(t[i])
    <2>1. CASE i = Len(s)
      BY <1>1, <1>6, <2>1
    <2>2. CASE i # Len(s)
      BY <1>6, <2>2 DEF Upwards
    <2> QED
      BY <2>1, <2>2
  <1>9. ASSUME NEW i \in 1 .. Len(s)
        PROVE  x \notin Within(s[i])
    <2>1. SUFFICES ASSUME x \in Within(s[i]) PROVE FALSE
      OBVIOUS
    <2>2. s[i] \in Objects /\ i \in 1 .. Len(s)
      BY <1>6, ElementOfSeq
    <2>3. s[Len(s)] \in Inside(x)
      BY <1>1, <1>2, <1>4, InsideOwned, PartFacts
    <2>4. s[Len(s)] \in Inside(s[i])
      BY <2>1, <2>2, <2>3, InsideOwned DEF Within
    <2>5. i # Len(s)
      BY <2>2, <2>4, PartFacts
    <2>6. s[Len(s)] \notin Within(s[i])
      BY <1>6, <2>2, <2>5 DEF Upwards
    <2> QED
      BY <2>4, <2>6 DEF Within
  <1>10. ASSUME NEW i \in 1 .. Len(t), NEW j \in 1 .. Len(t), i < j
         PROVE  t[j] \notin Within(t[i])
    <2>1. i \in 1 .. Len(s) /\ t[i] = s[i]
      BY <1>6, <1>10
    <2>2. CASE j \in 1 .. Len(s)
      BY <1>6, <1>10, <2>1, <2>2 DEF Upwards
    <2>3. CASE j = Len(s) + 1
      BY <1>6, <1>9, <2>1, <2>3
    <2> QED
      BY <1>6, <2>2, <2>3
  <1>11. t[1] = s[1]
    BY <1>6
  <1>12. Upwards(t)
    BY <1>6, <1>7, <1>8, <1>10 DEF Upwards
  <1> QED
    BY <1>1, <1>5, <1>11, <1>12

\* The constructors that are running when o is allocated: from its owner's to
\* that of the root.
LEMMA OwnersUpwards ==
  ASSUME root \in {"context", "session"}, NEW o \in Inside(root)
  PROVE  Upwards(Owners(o)) /\ Owners(o)[1] = Owner(o) /\ Owners(o)[Len(Owners(o))] = root
  <1> DEFINE Up(s) == IF s = <<>> \/ Last(s) = root THEN s ELSE Append(s, Owner(Last(s)))
  <1>0. root \in Objects /\ o # root
    BY PartFacts DEF Objects
  <1>1. Owners(o) = Up(Up(Up(<<Owner(o)>>)))
    BY <1>0 DEF Owners
  <1>2. ASSUME NEW s, Upwards(s)
        PROVE  /\ Upwards(Up(s)) /\ Up(s)[1] = s[1]
               /\ Last(Up(s)) = IF Last(s) = root THEN root ELSE Owner(Last(s))
    <2>1. s # <<>> /\ Last(s) = s[Len(s)]
      BY <1>2 DEF Upwards, Last
    <2>2. CASE Last(s) = root
      BY <1>2, <2>1, <2>2
    <2>3. CASE Last(s) # root
      <3>1. PICK x : x = Owner(Last(s))
        OBVIOUS
      <3>2. PICK t : t = Append(s, x)
        OBVIOUS
      <3>3. Up(s) = t
        BY <2>1, <2>3, <3>1, <3>2
      <3>4. Upwards(t) /\ t[1] = s[1]
        BY <1>2, <2>1, <2>3, <3>1, <3>2, OneUp
      <3>5. t[Len(t)] = x
        BY <1>2, <3>2 DEF Upwards
      <3> QED
        BY <2>3, <3>1, <3>3, <3>4, <3>5 DEF Last
    <2> QED
      BY <2>2, <2>3
  <1> HIDE DEF Up
  <1>3. PICK p : p = Owner(o)
    OBVIOUS
  <1>4. p \in Whole \cap {"context", "session", "stm", "ctrl"}
    BY <1>0, <1>3, InsideOwned, OwnerTable DEF Whole
  <1>5. Upwards(<<p>>) /\ <<p>>[1] = p /\ Last(<<p>>) = p
    BY <1>4 DEF Upwards, Last, Objects
  <1>6. PICK s : s = Up(<<p>>)
    OBVIOUS
  <1>7. PICK t : t = Up(s)
    OBVIOUS
  <1>8. PICK u : u = Up(t)
    OBVIOUS
  <1>9. /\ Upwards(s) /\ s[1] = p /\ Last(s) = IF p = root THEN root ELSE Owner(p)
        /\ Upwards(t) /\ t[1] = p /\ Last(t) = IF Last(s) = root THEN root ELSE Owner(Last(s))
        /\ Upwards(u) /\ u[1] = p /\ Last(u) = IF Last(t) = root THEN root ELSE Owner(Last(t))
    BY <1>2, <1>5, <1>6, <1>7, <1>8
  <1>10. Last(u) = root
    <2>1. p \in Inside("session") \cup {"session"} \/ root = "context"
      BY <1>4 DEF Whole, Within
    <2>2. "context" \notin Within("session")
      BY DEF Within, Inside, ListMembers, ToSet
    <2> QED
      BY <1>4, <1>9, <2>1, <2>2, OwnerTable DEF Within
  <1> QED
    BY <1>1, <1>3, <1>6, <1>7, <1>8, <1>9, <1>10 DEF Last

-----------------------------------------------------------------------------
(***************************************************************************)
(* The agenda.                                                             *)
(***************************************************************************)
Called == {"new", "delete", "free"} \X Objects

LEMMA Agenda ==
  ASSUME ConstructTypeOK
  PROVE  /\ agenda \in Seq(Called) /\ Len(agenda) \in Nat
         /\ DOMAIN agenda = 1 .. Len(agenda)
         /\ \A i \in DOMAIN agenda : agenda[i] = <<agenda[i][1], Obj(i)>> /\ Obj(i) \in Objects
         /\ status = "building" => \A i \in DOMAIN agenda : agenda[i][1] = "new"
         /\ status # "building" => \A i \in DOMAIN agenda : agenda[i][1] \in {"delete", "free"}
         /\ root \in {"context", "session"} /\ root \in Objects
  <1> DEFINE W == IF status = "building" THEN {"new"} ELSE {"delete", "free"}
  <1>1. agenda \in Seq(W \X Objects)
    BY DEF ConstructTypeOK
  <1>2. W \X Objects \subseteq Called
    BY DEF Called
  <1>3. agenda \in Seq(Called)
    BY <1>1, <1>2, SeqMonotonic
  <1>4. Len(agenda) \in Nat /\ DOMAIN agenda = 1 .. Len(agenda)
    BY <1>1, LenProperties
  <1>5. \A i \in DOMAIN agenda : agenda[i] \in W \X Objects
    BY <1>1, <1>4, ElementOfSeq
  <1>6. root \in {"context", "session"} /\ root \in Objects
    BY ConstructAssumption DEF ConstructTypeOK, Objects
  <1> QED
    BY <1>3, <1>4, <1>5, <1>6 DEF Obj

LEMMA CallsAre ==
  ASSUME NEW what \in {"new", "delete", "free"}, NEW s \in Seq(Objects)
  PROVE  /\ CallsTo(what, s) \in Seq(Called)
         /\ Len(CallsTo(what, s)) = Len(s)
         /\ \A i \in 1 .. Len(s) : CallsTo(what, s)[i] = <<what, s[i]>>
  <1>1. Len(s) \in Nat /\ DOMAIN s = 1 .. Len(s) /\ \A i \in 1 .. Len(s) : s[i] \in Objects
    BY LenProperties, ElementOfSeq
  <1>2. CallsTo(what, s) = [i \in 1 .. Len(s) |-> <<what, s[i]>>]
    BY <1>1 DEF CallsTo
  <1>3. [i \in 1 .. Len(s) |-> <<what, s[i]>>] \in [1 .. Len(s) -> Called]
    <2>1. \A i \in 1 .. Len(s) : <<what, s[i]>> \in Called
      BY <1>1 DEF Called
    <2> QED
      BY <2>1
  <1>4. /\ CallsTo(what, s) \in Seq(Called)
        /\ Len(CallsTo(what, s)) = Len(s)
    <2>1. PICK f : f = [i \in 1 .. Len(s) |-> <<what, s[i]>>]
      OBVIOUS
    <2>2. f \in [1 .. Len(s) -> Called]
      BY <1>3, <2>1
    <2>3. Seq(Called) = UNION {[1 .. n -> Called] : n \in Nat}
      BY SeqDef
    <2>4. f \in Seq(Called) /\ DOMAIN f = 1 .. Len(s)
      BY <1>1, <2>2, <2>3
    <2> QED
      BY <1>1, <1>2, <2>1, <2>4, LenProperties
  <1>5. \A i \in 1 .. Len(s) : CallsTo(what, s)[i] = <<what, s[i]>>
    BY <1>2
  <1> QED
    BY <1>4, <1>5

\* The first call is replaced by the calls of s.
Spliced(b, s) ==
  /\ Len(s) \in Nat /\ Len(agenda) \in Nat \ {0}
  /\ b \in Seq(Called)
  /\ Len(b) = Len(s) + Len(agenda) - 1
  /\ DOMAIN b = 1 .. Len(b)
  /\ \A i \in 1 .. Len(s) : b[i] = s[i]
  /\ \A i \in DOMAIN b : i > Len(s) =>
       i - Len(s) + 1 \in DOMAIN agenda /\ b[i] = agenda[i - Len(s) + 1]
  /\ \A i \in DOMAIN agenda : i > 1 =>
       i + Len(s) - 1 \in DOMAIN b /\ b[i + Len(s) - 1] = agenda[i]

LEMMA Replaced ==
  ASSUME agenda \in Seq(Called), agenda # <<>>, NEW s \in Seq(Called),
         agenda' = s \o Tail(agenda)
  PROVE  Spliced(agenda', s)
  <1> DEFINE t == Tail(agenda)
  <1>1. /\ Len(s) \in Nat /\ Len(agenda) \in Nat \ {0}
        /\ DOMAIN agenda = 1 .. Len(agenda)
    BY LenProperties, EmptySeq
  <1>2. /\ t \in Seq(Called)
        /\ Len(t) = Len(agenda) - 1
        /\ \A i \in 1 .. Len(t) : t[i] = agenda[i + 1]
    BY HeadTailProperties
  <1> HIDE DEF t
  <1>3. /\ s \o t \in Seq(Called)
        /\ Len(s \o t) = Len(s) + Len(t)
        /\ \A i \in 1 .. Len(s) + Len(t) :
             (s \o t)[i] = IF i <= Len(s) THEN s[i] ELSE t[i - Len(s)]
    BY <1>2, ConcatProperties
  <1>4. agenda' = s \o t
    BY DEF t
  <1>5. /\ agenda' \in Seq(Called)
        /\ Len(agenda') = Len(s) + Len(agenda) - 1
        /\ DOMAIN agenda' = 1 .. Len(agenda')
    BY <1>1, <1>2, <1>3, <1>4, LenProperties
  <1>6. \A i \in 1 .. Len(agenda') : agenda'[i] = IF i <= Len(s) THEN s[i] ELSE t[i - Len(s)]
    BY <1>1, <1>2, <1>3, <1>4
  <1>7. \A i \in 1 .. Len(s) : agenda'[i] = s[i]
    BY <1>1, <1>5, <1>6
  <1>8. ASSUME NEW i \in DOMAIN agenda', i > Len(s)
        PROVE  i - Len(s) + 1 \in DOMAIN agenda /\ agenda'[i] = agenda[i - Len(s) + 1]
    BY <1>1, <1>2, <1>5, <1>6, <1>8
  <1>9. ASSUME NEW i \in DOMAIN agenda, i > 1
        PROVE  i + Len(s) - 1 \in DOMAIN agenda' /\ agenda'[i + Len(s) - 1] = agenda[i]
    <2>1. PICK k : k = i + Len(s) - 1
      OBVIOUS
    <2>2. k \in DOMAIN agenda' /\ k > Len(s) /\ k - Len(s) + 1 = i
      BY <1>1, <1>5, <1>9, <2>1
    <2>3. agenda'[k] = agenda[k - Len(s) + 1]
      BY <1>8, <2>2
    <2> QED
      BY <2>1, <2>2, <2>3
  <1> QED
    BY <1>1, <1>5, <1>7, <1>8, <1>9 DEF Spliced

\* A call returns.
LEMMA Dropped ==
  ASSUME agenda \in Seq(Called), agenda # <<>>, agenda' = Tail(agenda)
  PROVE  /\ Len(agenda) \in Nat \ {0}
         /\ agenda' \in Seq(Called)
         /\ Len(agenda') = Len(agenda) - 1
         /\ DOMAIN agenda' = 1 .. Len(agenda')
         /\ \A i \in DOMAIN agenda' : i + 1 \in DOMAIN agenda /\ agenda'[i] = agenda[i + 1]
         /\ \A i \in DOMAIN agenda : i > 1 => i - 1 \in DOMAIN agenda' /\ agenda'[i - 1] = agenda[i]
  <1>1. Len(agenda) \in Nat \ {0} /\ DOMAIN agenda = 1 .. Len(agenda)
    BY LenProperties, EmptySeq
  <1>2. /\ agenda' \in Seq(Called)
        /\ Len(agenda') = Len(agenda) - 1
        /\ \A i \in 1 .. Len(agenda') : agenda'[i] = agenda[i + 1]
    BY HeadTailProperties
  <1>3. DOMAIN agenda' = 1 .. Len(agenda')
    BY <1>2, LenProperties
  <1> QED
    BY <1>1, <1>2, <1>3

LEMMA First ==
  ASSUME ConstructTypeOK, NEW what, NEW o, At(what, o)
  PROVE  /\ 1 \in DOMAIN agenda /\ agenda[1] = <<what, o>> /\ Obj(1) = o /\ agenda # <<>>
         /\ agenda[1][1] = what
  <1>1. agenda \in Seq(Called) /\ agenda # <<>> /\ Head(agenda) = <<what, o>>
    BY Agenda DEF At
  <1>2. Len(agenda) \in Nat \ {0} /\ DOMAIN agenda = 1 .. Len(agenda)
    BY <1>1, LenProperties, EmptySeq
  <1>3. Head(agenda) = agenda[1]
    BY <1>1
  <1> QED
    BY <1>1, <1>2, <1>3 DEF Obj

LEMMA Retyped ==
  ASSUME NEW s \in Seq(Called), NEW W, \A i \in DOMAIN s : s[i][1] \in W
  PROVE  s \in Seq(W \X Objects)
  <1>1. Len(s) \in Nat /\ DOMAIN s = 1 .. Len(s) /\ s \in [1 .. Len(s) -> Called]
    BY LenProperties
  <1>2. \A i \in 1 .. Len(s) : s[i] \in W \X Objects
    BY <1>1 DEF Called
  <1>3. s \in [1 .. Len(s) -> W \X Objects]
    BY <1>1, <1>2
  <1>4. Seq(W \X Objects) = UNION {[1 .. n -> W \X Objects] : n \in Nat}
    BY SeqDef
  <1> QED
    BY <1>1, <1>3, <1>4

LEMMA Busy ==
  ASSUME ConstructInv, NEW what \in {"delete", "free"}, NEW o, At(what, o)
  PROVE  status \in {"failing", "deleting"} /\ Deleting /\ o \in Whole /\ o \in Objects
  <1>1. agenda # <<>> /\ agenda[1][1] = what /\ 1 \in DOMAIN agenda /\ Obj(1) = o
    BY First DEF ConstructInv
  <1>2. status \notin {"building", "ready", "null", "deleted", "crashed"}
    BY <1>1, Agenda DEF ConstructInv
  <1>3. status \in {"failing", "deleting"} /\ Deleting
    BY <1>2 DEF ConstructInv, ConstructTypeOK
  <1> QED
    BY <1>1, <1>3, Agenda DEF Deleting, CalledByOwner, ConstructInv

\* A destructor calls for the parts of its object, n of them, and then frees it.
Expanded(b, o, n) ==
  /\ n \in Nat /\ Len(agenda) \in Nat \ {0}
  /\ DOMAIN agenda = 1 .. Len(agenda)
  /\ b \in Seq(Called)
  /\ Len(b) = n + Len(agenda) /\ DOMAIN b = 1 .. Len(b)
  /\ \A i \in 1 .. n : b[i] = <<"delete", Parts(o)[i]>>
  /\ b[n + 1] = <<"free", o>>
  /\ \A i \in DOMAIN b : i > n =>
       i - n \in DOMAIN agenda /\ b[i][2] = Obj(i - n)
       /\ (i > n + 1 => b[i] = agenda[i - n])
  /\ \A i \in DOMAIN agenda : i > 1 => i + n \in DOMAIN b /\ b[i + n] = agenda[i]

LEMMA DestroyAgenda ==
  ASSUME ConstructTypeOK, NEW o \in Objects, NEW n, n = Len(Parts(o)), Destroy(o)
  PROVE  Expanded(agenda', o, n)
  <1> DEFINE s == CallsTo("delete", Parts(o)) \o <<<<"free", o>>>>
  <1>1. /\ n \in Nat /\ Parts(o) \in Seq(Objects)
        /\ At("delete", o) /\ agenda' = s \o Tail(agenda)
    BY PartFacts DEF Destroy, Deletes
  <1>2. agenda # <<>> /\ agenda \in Seq(Called) /\ Obj(1) = o /\ DOMAIN agenda = 1 .. Len(agenda)
    BY <1>1, First, Agenda
  <1>3. /\ s \in Seq(Called) /\ Len(s) = n + 1
        /\ \A i \in 1 .. n : s[i] = <<"delete", Parts(o)[i]>>
        /\ s[n + 1] = <<"free", o>>
    <2>1. PICK c : c = CallsTo("delete", Parts(o))
      OBVIOUS
    <2>2. PICK d : d = <<<<"free", o>>>>
      OBVIOUS
    <2>3. /\ c \in Seq(Called) /\ Len(c) = n
          /\ \A i \in 1 .. n : c[i] = <<"delete", Parts(o)[i]>>
      BY <1>1, <2>1, CallsAre
    <2>4. d \in Seq(Called) /\ Len(d) = 1 /\ d[1] = <<"free", o>>
      BY <2>2 DEF Called
    <2>5. /\ c \o d \in Seq(Called)
          /\ Len(c \o d) = Len(c) + Len(d)
          /\ \A i \in 1 .. Len(c) + Len(d) :
               (c \o d)[i] = IF i <= Len(c) THEN c[i] ELSE d[i - Len(c)]
      BY <2>3, <2>4, ConcatProperties
    <2>6. s = c \o d
      BY <2>1, <2>2
    <2> HIDE DEF s
    <2> QED
      BY <1>1, <2>3, <2>4, <2>5, <2>6
  <1> HIDE DEF s
  <1>4. Spliced(agenda', s)
    BY <1>1, <1>2, <1>3, Replaced
  <1> USE DEF Spliced
  <1>5. \A i \in 1 .. n : agenda'[i] = <<"delete", Parts(o)[i]>>
    <2>1. \A i \in 1 .. n : i \in 1 .. Len(s)
      BY <1>1, <1>3
    <2> QED
      BY <1>3, <1>4, <2>1
  <1>6. agenda'[n + 1] = <<"free", o>>
    <2>1. n + 1 \in 1 .. Len(s)
      BY <1>1, <1>3
    <2> QED
      BY <1>3, <1>4, <2>1
  <1>7. ASSUME NEW i \in DOMAIN agenda', i > n
        PROVE  /\ i - n \in DOMAIN agenda /\ agenda'[i][2] = Obj(i - n)
               /\ i > n + 1 => agenda'[i] = agenda[i - n]
    <2>1. CASE i = n + 1
      BY <1>1, <1>2, <1>4, <1>6, <2>1 DEF Obj
    <2>2. CASE i # n + 1
      <3>1. i > Len(s) /\ i - Len(s) + 1 = i - n
        BY <1>1, <1>3, <1>4, <1>7, <2>2
      <3> QED
        BY <1>4, <3>1 DEF Obj
    <2> QED
      BY <2>1, <2>2
  <1>8. ASSUME NEW i \in DOMAIN agenda, i > 1
        PROVE  i + n \in DOMAIN agenda' /\ agenda'[i + n] = agenda[i]
    <2>1. i + Len(s) - 1 = i + n
      BY <1>1, <1>2, <1>3
    <2> QED
      BY <1>4, <1>8, <2>1
  <1>9. \A i \in DOMAIN agenda' : i > n =>
          i - n \in DOMAIN agenda /\ agenda'[i][2] = Obj(i - n)
          /\ (i > n + 1 => agenda'[i] = agenda[i - n])
    BY <1>7
  <1>10. \A i \in DOMAIN agenda : i > 1 => i + n \in DOMAIN agenda' /\ agenda'[i + n] = agenda[i]
    BY <1>8
  <1>11. Len(agenda') = n + Len(agenda)
    BY <1>1, <1>3, <1>4
  <1> QED
    BY <1>1, <1>2, <1>4, <1>5, <1>6, <1>9, <1>10, <1>11 DEF Expanded

LEMMA DestroyInv == ASSUME ConstructInv, NEW o \in Objects, Destroy(o) PROVE ConstructInv'
  <1>0. /\ status \in {"failing", "deleting"} /\ Deleting /\ o \in Whole /\ ConstructTypeOK
        /\ o \in live /\ UNCHANGED <<root, live, freed, status>>
        /\ 1 \in DOMAIN agenda /\ agenda[1] = <<"delete", o>> /\ Obj(1) = o
    BY Busy, First DEF Destroy, ConstructInv
  <1>n. PICK n : n = Len(Parts(o))
    OBVIOUS
  <1>b. PICK b : b = agenda'
    OBVIOUS
  <1>1. Expanded(b, o, n)
    BY <1>0, <1>n, <1>b, DestroyAgenda
  <1> USE DEF Expanded
  <1>2. /\ \A i, j \in 1 .. n : i # j => Parts(o)[i] # Parts(o)[j]
        /\ \A i \in 1 .. n : Parts(o)[i] \in ToSet(Parts(o))
        /\ \A c \in ToSet(Parts(o)) : \E i \in 1 .. n : c = Parts(o)[i]
        /\ ToSet(Parts(o)) \subseteq Inside(o)
    BY <1>n, PartFacts
  <1>3. \A c \in ToSet(Parts(o)) :
          /\ Owner(c) = o /\ Within(c) \subseteq Inside(o) /\ o \notin Within(c)
          /\ c \in Objects /\ c # o /\ c \in Whole
    <2>1. ASSUME NEW c \in ToSet(Parts(o))
          PROVE  /\ Owner(c) = o /\ Within(c) \subseteq Inside(o) /\ o \notin Within(c)
                 /\ c \in Objects /\ c # o
      BY <1>2, OwnerIs, InsideOwned, PartFacts DEF Within
    <2>2. root \in Objects /\ Inside(o) \subseteq Whole
      BY <1>0, InsideOwned, Agenda DEF Whole, Within
    <2> QED
      BY <1>2, <2>1, <2>2
  <1>4. \A i \in 2 .. Len(agenda) : Obj(i) \notin Within(o)
    <2>1. \A j \in DOMAIN agenda : 1 < j => Obj(j) \notin Within(Obj(1))
      BY <1>0 DEF Deleting, PartsFirst
    <2>2. \A j \in 2 .. Len(agenda) : j \in DOMAIN agenda /\ 1 < j
      BY <1>0, Agenda
    <2> QED
      BY <1>0, <2>1, <2>2
  <1>6. ASSUME NEW i \in DOMAIN b
        PROVE  /\ i \in 1 .. n \/ i = n + 1 \/ i \in n + 2 .. n + Len(agenda)
               /\ i \in 1 .. n => b[i] = <<"delete", Parts(o)[i]>>
               /\ i = n + 1 => b[i] = <<"free", o>>
               /\ i \in n + 2 .. n + Len(agenda) =>
                    i - n \in 2 .. Len(agenda) /\ b[i] = agenda[i - n]
    <2>1. i \in 1 .. n \/ i = n + 1 \/ i \in n + 2 .. n + Len(agenda)
      <3>1. DOMAIN b = 1 .. n + Len(agenda) /\ n \in Nat /\ Len(agenda) \in Nat \ {0}
        BY <1>1
      <3> QED
        BY <3>1
    <2>2. i \in n + 2 .. n + Len(agenda) => i - n \in 2 .. Len(agenda) /\ i > n /\ i > n + 1
      BY <1>1
    <2> QED
      BY <1>1, <2>1, <2>2
  <1>7. PartsFirst'
    <2>1. ASSUME NEW i \in DOMAIN b, NEW j \in DOMAIN b, i < j
          PROVE  b[j][2] \notin Within(b[i][2])
      <3>1. CASE i \in 1 .. n /\ j \in 1 .. n
        <4>1. /\ b[i][2] = Parts(o)[i] /\ b[j][2] = Parts(o)[j]
              /\ Parts(o)[i] \in ToSet(Parts(o)) /\ Parts(o)[j] \in ToSet(Parts(o))
              /\ Parts(o)[i] # Parts(o)[j]
          BY <1>1, <1>2, <2>1, <3>1
        <4> QED
          BY <4>1, PartsApart
      <3>2. CASE i \in 1 .. n /\ j = n + 1
        <4>1. /\ b[i] = <<"delete", Parts(o)[i]>> /\ Parts(o)[i] \in ToSet(Parts(o))
              /\ b[j] = <<"free", o>>
          BY <1>2, <1>6, <3>2
        <4> QED
          BY <1>3, <4>1
      <3>3. CASE i \in 1 .. n /\ j \in n + 2 .. n + Len(agenda)
        <4>1. b[j][2] \notin Within(o)
          BY <1>4, <1>6, <3>3 DEF Obj
        <4>2. b[i] = <<"delete", Parts(o)[i]>> /\ Parts(o)[i] \in ToSet(Parts(o))
          BY <1>2, <1>6, <3>3
        <4> QED
          BY <1>3, <4>1, <4>2 DEF Within
      <3>4. CASE i \notin 1 .. n
        <4>1. /\ i - n \in DOMAIN agenda /\ j - n \in DOMAIN agenda /\ i - n < j - n
              /\ b[i][2] = Obj(i - n) /\ b[j][2] = Obj(j - n)
          BY <1>1, <2>1, <3>4
        <4> QED
          BY <1>0, <4>1 DEF Deleting, PartsFirst
      <3>5. j \in 1 .. n \/ j = n + 1 \/ j \in n + 2 .. n + Len(agenda)
        BY <1>6
      <3> QED
        BY <3>1, <3>2, <3>3, <3>4, <3>5
    <2> QED
      BY <1>b, <2>1 DEF PartsFirst, Obj
  <1>8. FreedLast'
    <2>1. ASSUME NEW i \in DOMAIN b, b[i][1] = "free"
          PROVE  /\ b[i][2] \in live
                 /\ \A c \in live : c \in ToSet(Parts(b[i][2])) =>
                      \E j \in DOMAIN b : j < i /\ b[j][2] = c
      <3>1. CASE i \in 1 .. n
        BY <1>6, <2>1, <3>1
      <3>2. CASE i = n + 1
        <4>1. ASSUME NEW c \in ToSet(Parts(o))
              PROVE  \E j \in DOMAIN b : j < i /\ b[j][2] = c
          <5>1. PICK j \in 1 .. n : c = Parts(o)[j]
            BY <1>2, <4>1
          <5>2. j \in DOMAIN b /\ j < i
            BY <1>1, <3>2
          <5>3. b[j] = <<"delete", c>>
            BY <1>6, <5>1, <5>2
          <5> QED
            BY <5>2, <5>3
        <4> QED
          BY <1>0, <1>1, <3>2, <4>1
      <3>3. CASE i \in n + 2 .. n + Len(agenda)
        <4>1. PICK k : k = i - n
          OBVIOUS
        <4>2. k \in DOMAIN agenda /\ k > 1 /\ b[i] = agenda[k] /\ agenda[k][1] = "free"
          BY <1>1, <1>6, <2>1, <3>3, <4>1
        <4>3. /\ Obj(k) \in live
              /\ \A c \in live : c \in ToSet(Parts(Obj(k))) =>
                   \E j \in DOMAIN agenda : j < k /\ Obj(j) = c
          BY <1>0, <4>2 DEF Deleting, FreedLast
        <4>4. ASSUME NEW c \in live, c \in ToSet(Parts(Obj(k)))
              PROVE  \E j \in DOMAIN b : j < i /\ b[j][2] = c
          <5>1. PICK j \in DOMAIN agenda : j < k /\ Obj(j) = c
            BY <4>3, <4>4
          <5>2. j + n \in DOMAIN b /\ j + n < i /\ b[j + n][2] = c
            <6>1. CASE j = 1
              BY <1>0, <1>1, <4>1, <4>2, <5>1, <6>1
            <6>2. CASE j # 1
              BY <1>1, <4>1, <4>2, <5>1, <6>2 DEF Obj
            <6> QED
              BY <6>1, <6>2
          <5> QED
            BY <5>2
        <4> QED
          BY <4>2, <4>3, <4>4 DEF Obj
      <3> QED
        BY <1>6, <3>1, <3>2, <3>3
    <2> QED
      BY <1>0, <1>b, <2>1 DEF FreedLast, Obj
  <1>9. CalledByOwner'
    <2>1. ASSUME NEW i \in DOMAIN b
          PROVE  /\ b[i][2] \in Whole
                 /\ \/ b[i][2] = root
                    \/ \E j \in DOMAIN b : i < j /\ b[j] = <<"free", Owner(b[i][2])>>
                    \/ /\ status = "failing"
                       /\ i < Len(b) /\ b[i + 1] = <<"delete", Owner(b[i][2])>>
                       /\ b[i][2] \in NullSafe
      <3>1. CASE i \in 1 .. n
        <4>1. b[i][2] \in ToSet(Parts(o))
          BY <1>1, <1>2, <3>1
        <4>2. n + 1 \in DOMAIN b /\ i < n + 1
          BY <1>1, <3>1
        <4> QED
          BY <1>1, <1>3, <4>1, <4>2
      <3>2. CASE i \notin 1 .. n
        <4>1. PICK k : k = i - n
          OBVIOUS
        <4>2. k \in DOMAIN agenda /\ b[i][2] = Obj(k)
          BY <1>1, <3>2, <4>1
        <4>3. /\ Obj(k) \in Whole
              /\ \/ Obj(k) = root
                 \/ \E j \in DOMAIN agenda : k < j /\ agenda[j] = <<"free", Owner(Obj(k))>>
                 \/ /\ status = "failing"
                    /\ k < Len(agenda) /\ agenda[k + 1] = <<"delete", Owner(Obj(k))>>
                    /\ Obj(k) \in NullSafe
          BY <1>0, <4>2 DEF Deleting, CalledByOwner
        <4>4. ASSUME NEW j \in DOMAIN agenda, k < j, agenda[j] = <<"free", Owner(Obj(k))>>
              PROVE  \E m \in DOMAIN b : i < m /\ b[m] = <<"free", Owner(b[i][2])>>
          <5>1. j + n \in DOMAIN b /\ i < j + n /\ b[j + n] = agenda[j]
            BY <1>1, <4>1, <4>2, <4>4
          <5> QED
            BY <4>2, <4>4, <5>1
        <4>5. ASSUME k < Len(agenda), agenda[k + 1] = <<"delete", Owner(Obj(k))>>
              PROVE  i < Len(b) /\ b[i + 1] = <<"delete", Owner(b[i][2])>>
          <5>1. k + 1 \in DOMAIN agenda /\ k + 1 > 1 /\ (k + 1) + n = i + 1
            BY <1>1, <4>1, <4>2, <4>5
          <5>2. b[(k + 1) + n] = agenda[k + 1] /\ i < Len(b)
            BY <1>1, <4>1, <4>5, <5>1
          <5> QED
            BY <4>2, <4>5, <5>1, <5>2
        <4> QED
          BY <4>2, <4>3, <4>4, <4>5
      <3> QED
        BY <3>1, <3>2
    <2> QED
      BY <1>0, <1>b, <2>1 DEF CalledByOwner, Obj, Whole
  <1>10. NoneAgain'
    <2>1. ASSUME NEW x \in freed
          PROVE  /\ \A i \in DOMAIN b : b[i][2] # x
                 /\ x = root \/ Owner(x) \notin live
                    \/ \E i \in DOMAIN b : b[i] = <<"free", Owner(x)>>
      <3>1. /\ \A i \in DOMAIN agenda : Obj(i) # x
            /\ \/ x = root \/ Owner(x) \notin live
               \/ \E i \in DOMAIN agenda : agenda[i] = <<"free", Owner(x)>>
        BY <1>0 DEF Deleting, NoneAgain, Freeing
      <3>2. \A i \in DOMAIN agenda : agenda[i] = <<"free", Owner(x)>> => i > 1
        BY <1>0, <1>1
      <3>3. x = root \/ Owner(x) \notin live \/ \E i \in DOMAIN b : b[i] = <<"free", Owner(x)>>
        BY <1>1, <3>1, <3>2
      <3>4. x \notin ToSet(Parts(o))
        <4>1. SUFFICES ASSUME x \in ToSet(Parts(o)) PROVE FALSE
          OBVIOUS
        <4>2. Owner(x) = o
          BY <1>3, <4>1
        <4>3. x # root
          <5>1. o = root \/ o \in Inside(root)
            BY <1>0 DEF Whole, Within
          <5>2. root \in Objects
            BY <1>0, Agenda
          <5> QED
            BY <1>2, <4>1, <5>1, <5>2, InsideOwned, PartFacts DEF Within
        <4>4. PICK i \in DOMAIN agenda : agenda[i] = <<"free", o>>
          BY <1>0, <3>1, <4>2, <4>3
        <4>5. i \in 2 .. Len(agenda) /\ Obj(i) = o
          BY <1>1, <3>2, <4>2, <4>4 DEF Obj
        <4> QED
          BY <1>4, <4>5 DEF Within
      <3>5. \A i \in DOMAIN b : b[i][2] # x
        <4>1. ASSUME NEW i \in DOMAIN b PROVE b[i][2] # x
          <5>1. CASE i \in 1 .. n
            BY <1>1, <1>2, <3>4, <5>1
          <5>2. CASE i \notin 1 .. n
            BY <1>1, <3>1, <5>2
          <5> QED
            BY <5>1, <5>2
        <4> QED
          BY <4>1
      <3> QED
        BY <3>3, <3>5
    <2> QED
      BY <1>0, <1>b, <2>1 DEF NoneAgain, Freeing, Obj
  <1>11. root \in live => \E i \in DOMAIN b : b[i][2] = root
    <2>1. ASSUME root \in live
          PROVE  \E i \in DOMAIN b : b[i][2] = root
      <3>1. PICK i \in DOMAIN agenda : Obj(i) = root
        BY <1>0, <2>1 DEF Deleting
      <3>2. i + n \in DOMAIN b /\ b[i + n][2] = root
        <4>1. CASE i = 1
          BY <1>0, <1>1, <3>1, <4>1
        <4>2. CASE i # 1
          BY <1>1, <3>1, <4>2 DEF Obj
        <4> QED
          BY <4>1, <4>2
      <3> QED
        BY <3>2
    <2> QED
      BY <2>1
  <1>12. b \in Seq({"delete", "free"} \X Objects)
    <2>1. \A i \in DOMAIN agenda : agenda[i][1] \in {"delete", "free"}
      BY <1>0, Agenda
    <2>2. \A i \in DOMAIN b : b[i][1] \in {"delete", "free"}
      BY <1>1, <1>6, <2>1
    <2> QED
      BY <1>1, <2>2, Retyped
  <1>13. Deleting'
    BY <1>0, <1>b, <1>7, <1>8, <1>9, <1>10, <1>11 DEF Deleting, Obj
  <1>14. ConstructTypeOK'
    BY <1>0, <1>b, <1>12 DEF ConstructTypeOK
  <1> QED
    BY <1>0, <1>13, <1>14 DEF ConstructInv, Whole

\* The first call returns and its object is not there any more.
LEMMA DroppedInv ==
  ASSUME ConstructInv, NEW what \in {"delete", "free"}, NEW o \in Objects, At(what, o),
         agenda' = Tail(agenda), UNCHANGED <<root, status>>, live' = live \ {o},
         what = "delete" => o \notin live /\ o \notin freed',
         freed' \subseteq freed \cup {o}, freed \subseteq freed',
         o \in freed' => \/ o = root
                         \/ \E j \in DOMAIN agenda : 1 < j /\ agenda[j] = <<"free", Owner(o)>>
  PROVE  ConstructInv'
  <1> DEFINE b == agenda'
  <1>0. /\ status \in {"failing", "deleting"} /\ Deleting /\ o \in Whole /\ ConstructTypeOK
        /\ 1 \in DOMAIN agenda /\ agenda[1] = <<what, o>> /\ Obj(1) = o /\ agenda # <<>>
        /\ agenda \in Seq(Called) /\ DOMAIN agenda = 1 .. Len(agenda)
        /\ o \notin live'
    BY Busy, First, Agenda DEF ConstructInv
  <1>1. /\ Len(agenda) \in Nat \ {0}
        /\ b \in Seq(Called)
        /\ Len(b) = Len(agenda) - 1
        /\ DOMAIN b = 1 .. Len(b)
        /\ \A i \in DOMAIN b : i + 1 \in DOMAIN agenda /\ b[i] = agenda[i + 1]
        /\ \A i \in DOMAIN agenda : i > 1 => i - 1 \in DOMAIN b /\ b[i - 1] = agenda[i]
    BY <1>0, Dropped
  <1> HIDE DEF b
  <1>2. b = agenda'
    BY DEF b
  <1>3. \A i \in DOMAIN agenda : i > 1 => Obj(i) \notin Within(o) /\ Obj(i) # o
    <2>1. \A j \in DOMAIN agenda : 1 < j => Obj(j) \notin Within(Obj(1))
      BY <1>0 DEF Deleting, PartsFirst
    <2> QED
      BY <1>0, <1>1, <2>1 DEF Within
  <1>4. PartsFirst'
    <2>1. ASSUME NEW i \in DOMAIN b, NEW j \in DOMAIN b, i < j
          PROVE  b[j][2] \notin Within(b[i][2])
      <3>1. /\ i + 1 \in DOMAIN agenda /\ j + 1 \in DOMAIN agenda /\ i + 1 < j + 1
            /\ b[i][2] = Obj(i + 1) /\ b[j][2] = Obj(j + 1)
        BY <1>1, <2>1 DEF Obj
      <3> QED
        BY <1>0, <3>1 DEF Deleting, PartsFirst
    <2> QED
      BY <1>2, <2>1 DEF PartsFirst, Obj
  <1>5. FreedLast'
    <2>1. ASSUME NEW i \in DOMAIN b, b[i][1] = "free"
          PROVE  /\ b[i][2] \in live'
                 /\ \A c \in live' : c \in ToSet(Parts(b[i][2])) =>
                      \E j \in DOMAIN b : j < i /\ b[j][2] = c
      <3>1. PICK k : k = i + 1
        OBVIOUS
      <3>2. k \in DOMAIN agenda /\ k > 1 /\ b[i] = agenda[k] /\ agenda[k][1] = "free"
        BY <1>1, <2>1, <3>1
      <3>3. /\ Obj(k) \in live
            /\ \A c \in live : c \in ToSet(Parts(Obj(k))) =>
                 \E j \in DOMAIN agenda : j < k /\ Obj(j) = c
        BY <1>0, <3>2 DEF Deleting, FreedLast
      <3>4. ASSUME NEW c \in live', c \in ToSet(Parts(Obj(k)))
            PROVE  \E j \in DOMAIN b : j < i /\ b[j][2] = c
        <4>1. PICK j \in DOMAIN agenda : j < k /\ Obj(j) = c
          BY <3>3, <3>4
        <4>2. j > 1
          BY <1>0, <1>1, <3>4, <4>1
        <4>3. j - 1 \in DOMAIN b /\ b[j - 1] = agenda[j] /\ j - 1 < i
          BY <1>0, <1>1, <3>1, <3>2, <4>1, <4>2
        <4> QED
          BY <4>1, <4>3 DEF Obj
      <3>5. Obj(k) # o
        BY <1>3, <3>2
      <3> QED
        BY <3>2, <3>3, <3>4, <3>5 DEF Obj
    <2> QED
      BY <1>2, <2>1 DEF FreedLast, Obj
  <1>6. CalledByOwner'
    <2>1. ASSUME NEW i \in DOMAIN b
          PROVE  /\ b[i][2] \in Whole
                 /\ \/ b[i][2] = root
                    \/ \E j \in DOMAIN b : i < j /\ b[j] = <<"free", Owner(b[i][2])>>
                    \/ /\ status = "failing"
                       /\ i < Len(b) /\ b[i + 1] = <<"delete", Owner(b[i][2])>>
                       /\ b[i][2] \in NullSafe
      <3>1. PICK k : k = i + 1
        OBVIOUS
      <3>2. k \in DOMAIN agenda /\ k > 1 /\ b[i][2] = Obj(k)
        BY <1>1, <2>1, <3>1 DEF Obj
      <3>3. /\ Obj(k) \in Whole
            /\ \/ Obj(k) = root
               \/ \E j \in DOMAIN agenda : k < j /\ agenda[j] = <<"free", Owner(Obj(k))>>
               \/ /\ status = "failing"
                  /\ k < Len(agenda) /\ agenda[k + 1] = <<"delete", Owner(Obj(k))>>
                  /\ Obj(k) \in NullSafe
        BY <1>0, <3>2 DEF Deleting, CalledByOwner
      <3>4. ASSUME NEW j \in DOMAIN agenda, k < j, agenda[j] = <<"free", Owner(Obj(k))>>
            PROVE  \E m \in DOMAIN b : i < m /\ b[m] = <<"free", Owner(b[i][2])>>
        <4>1. j - 1 \in DOMAIN b /\ i < j - 1 /\ b[j - 1] = agenda[j]
          BY <1>0, <1>1, <3>1, <3>2, <3>4
        <4> QED
          BY <3>2, <3>4, <4>1
      <3>5. ASSUME k < Len(agenda), agenda[k + 1] = <<"delete", Owner(Obj(k))>>
            PROVE  i < Len(b) /\ b[i + 1] = <<"delete", Owner(b[i][2])>>
        <4>1. i + 1 \in DOMAIN b /\ b[i + 1] = agenda[(i + 1) + 1] /\ i < Len(b)
          BY <1>0, <1>1, <3>1, <3>2, <3>5
        <4> QED
          BY <3>1, <3>2, <3>5, <4>1
      <3> QED
        BY <3>2, <3>3, <3>4, <3>5
    <2> QED
      BY <1>2, <2>1 DEF CalledByOwner, Obj, Whole
  <1>7. NoneAgain'
    <2>1. ASSUME NEW x \in freed'
          PROVE  /\ \A i \in DOMAIN b : b[i][2] # x
                 /\ x = root \/ Owner(x) \notin live'
                    \/ \E i \in DOMAIN b : b[i] = <<"free", Owner(x)>>
      <3>1. CASE x = o
        <4>1. \A i \in DOMAIN b : b[i][2] # o
          BY <1>1, <1>3 DEF Obj
        <4>2. x = root \/ \E i \in DOMAIN b : b[i] = <<"free", Owner(x)>>
          BY <1>1, <2>1, <3>1
        <4> QED
          BY <3>1, <4>1, <4>2
      <3>2. CASE x # o
        <4>1. /\ \A i \in DOMAIN agenda : Obj(i) # x
              /\ \/ x = root \/ Owner(x) \notin live
                 \/ \E i \in DOMAIN agenda : agenda[i] = <<"free", Owner(x)>>
          BY <1>0, <2>1, <3>2 DEF Deleting, NoneAgain, Freeing
        <4>2. \A i \in DOMAIN b : b[i][2] # x
          BY <1>1, <4>1 DEF Obj
        <4>3. ASSUME NEW i \in DOMAIN agenda, agenda[i] = <<"free", Owner(x)>>
              PROVE  Owner(x) \notin live' \/ \E j \in DOMAIN b : b[j] = <<"free", Owner(x)>>
          <5>1. CASE i = 1
            BY <1>0, <4>3, <5>1
          <5>2. CASE i # 1
            <6>1. i - 1 \in DOMAIN b /\ b[i - 1] = agenda[i]
              BY <1>0, <1>1, <5>2
            <6> QED
              BY <4>3, <6>1
          <5> QED
            BY <5>1, <5>2
        <4> QED
          BY <4>1, <4>2, <4>3
      <3> QED
        BY <3>1, <3>2
    <2> QED
      BY <1>2, <2>1 DEF NoneAgain, Freeing, Obj
  <1>8. root \in live' => \E i \in DOMAIN b : b[i][2] = root
    <2>1. ASSUME root \in live'
          PROVE  \E i \in DOMAIN b : b[i][2] = root
      <3>1. PICK i \in DOMAIN agenda : Obj(i) = root
        BY <1>0, <2>1 DEF Deleting
      <3>2. i > 1
        BY <1>0, <1>1, <2>1, <3>1
      <3> QED
        BY <1>1, <3>1, <3>2 DEF Obj
    <2> QED
      BY <2>1
  <1>9. ASSUME NEW x \in live', x # root
        PROVE  Owner(x) \in live'
    <2>1. x \in live /\ Owner(x) \in live /\ x # o
      BY <1>9 DEF ConstructInv
    <2>2. SUFFICES ASSUME Owner(x) = o PROVE FALSE
      BY <2>1
    <2>3. what = "free"
      BY <2>1, <2>2
    <2>4. x \in ToSet(Parts(o))
      <3>1. x \in Inside(root) /\ root \in Objects
        BY <1>0, <1>9, <2>1, Agenda DEF ConstructInv, Whole, Within
      <3> QED
        BY <2>2, <3>1, InsideOwned
    <2>5. PICK j \in DOMAIN agenda : j < 1
      BY <1>0, <2>1, <2>3, <2>4 DEF Deleting, FreedLast
    <2> QED
      BY <1>0, <2>5
  <1>10. b \in Seq({"delete", "free"} \X Objects)
    <2>1. \A i \in DOMAIN agenda : agenda[i][1] \in {"delete", "free"}
      BY <1>0, Agenda
    <2>2. \A i \in DOMAIN b : b[i][1] \in {"delete", "free"}
      BY <1>1, <2>1
    <2> QED
      BY <1>1, <2>2, Retyped
  <1>11. Deleting'
    BY <1>2, <1>4, <1>5, <1>6, <1>7, <1>8 DEF Deleting, Obj
  <1>12. ConstructTypeOK'
    BY <1>0, <1>2, <1>10 DEF ConstructTypeOK
  <1>13. live' \subseteq Whole /\ freed' \subseteq Whole /\ live' \cap freed' = {}
    BY <1>0 DEF ConstructInv
  <1> QED
    BY <1>0, <1>9, <1>11, <1>12, <1>13 DEF ConstructInv, Whole

LEMMA FreeObjectInv == ASSUME ConstructInv, NEW o \in Objects, FreeObject(o) PROVE ConstructInv'
  <1>0. /\ At("free", o) /\ agenda' = Tail(agenda) /\ UNCHANGED <<root, status>>
        /\ live' = live \ {o} /\ freed' = IF GivesUp(o) THEN freed ELSE freed \cup {o}
    BY DEF FreeObject
  <1>1. /\ status \in {"failing", "deleting"} /\ Deleting /\ ConstructTypeOK
        /\ 1 \in DOMAIN agenda /\ agenda[1] = <<"free", o>> /\ Obj(1) = o
        /\ DOMAIN agenda = 1 .. Len(agenda) /\ agenda \in Seq(Called) /\ Len(agenda) \in Nat
    BY <1>0, Busy, First, Agenda DEF ConstructInv
  <1>2. o \notin freed
    BY <1>1 DEF Deleting, NoneAgain
  <1>3. ASSUME o \in freed', o # root
        PROVE  \E j \in DOMAIN agenda : 1 < j /\ agenda[j] = <<"free", Owner(o)>>
    <2>1. ~GivesUp(o)
      BY <1>0, <1>2, <1>3
    <2>2. ASSUME status = "failing", 1 < Len(agenda), agenda[1 + 1] = <<"delete", Owner(o)>>
          PROVE  FALSE
      <3>1. agenda[2] = <<"delete", Owner(o)>> /\ agenda # <<>>
        BY <2>2, <1>1
      <3>2. PICK t : t = Tail(agenda)
        OBVIOUS
      <3>3. t \in Seq(Called) /\ Len(t) = Len(agenda) - 1
        BY <1>1, <3>1, <3>2, HeadTailProperties
      <3>4. t # <<>>
        BY <1>1, <2>2, <3>3, EmptySeq
      <3> QED
        BY <1>3, <2>1, <2>2, <3>1, <3>2, <3>4 DEF GivesUp
    <2> QED
      BY <1>1, <1>3, <2>2 DEF Deleting, CalledByOwner
  <1> QED
    BY <1>0, <1>3, DroppedInv

\* A destructor that finds a NULL returns, or crashes if it is one of a list or
\* a stack.
LEMMA DestroyNullInv == ASSUME ConstructInv, NEW o \in Objects, DestroyNull(o) PROVE ConstructInv'
  <1>0. /\ status \in {"failing", "deleting"} /\ Deleting /\ o \in Whole /\ ConstructTypeOK
        /\ o \notin live \cup freed /\ UNCHANGED <<root, live, freed>>
        /\ 1 \in DOMAIN agenda /\ agenda[1] = <<"delete", o>> /\ Obj(1) = o /\ agenda # <<>>
        /\ agenda \in Seq(Called) /\ DOMAIN agenda = 1 .. Len(agenda)
    BY Busy, First, Agenda DEF DestroyNull, ConstructInv
  <1>1. CASE o \in NullSafe
    <2>1. agenda' = Tail(agenda) /\ status' = status
      BY <1>1 DEF DestroyNull
    <2>2. At("delete", o) /\ live' = live \ {o} /\ o \notin freed'
      BY <1>0 DEF DestroyNull
    <2> QED
      BY <1>0, <2>1, <2>2, DroppedInv
  <1>2. CASE o \notin NullSafe
    <2>1. agenda' = <<>> /\ status' = "crashed"
      BY <1>2 DEF DestroyNull
    <2>2. ConstructTypeOK'
      BY <1>0, <2>1 DEF ConstructTypeOK
    <2> QED
      BY <1>0, <2>1, <2>2 DEF ConstructInv, Whole
  <1> QED
    BY <1>1, <1>2

\* A constructor allocates its object and calls for the parts.
LEMMA AllocInv == ASSUME ConstructInv, NEW o \in Objects, Alloc(o) PROVE ConstructInv'
  <1> DEFINE n == Len(Parts(o))
  <1>0. /\ At("new", o) /\ live' = live \cup {o} /\ UNCHANGED <<root, freed, status>>
        /\ agenda' = CallsTo("new", Parts(o)) \o Tail(agenda)
        /\ ConstructTypeOK
    BY DEF Alloc, ConstructInv
  <1>1. /\ 1 \in DOMAIN agenda /\ agenda[1] = <<"new", o>> /\ Obj(1) = o /\ agenda # <<>>
        /\ agenda \in Seq(Called) /\ DOMAIN agenda = 1 .. Len(agenda) /\ root \in Objects
    BY <1>0, First, Agenda
  <1>2. status = "building" /\ Building
    BY <1>0, <1>1, Agenda DEF ConstructInv
  <1>3. /\ n \in Nat /\ Parts(o) \in Seq(Objects)
        /\ \A i \in 1 .. n : Parts(o)[i] \in ToSet(Parts(o))
        /\ \A c \in ToSet(Parts(o)) : \E i \in 1 .. n : c = Parts(o)[i]
        /\ ToSet(Parts(o)) \subseteq Inside(o)
    BY PartFacts
  <1> HIDE DEF n
  <1>4. PICK s : s = CallsTo("new", Parts(o))
    OBVIOUS
  <1>5. s \in Seq(Called) /\ Len(s) = n /\ \A i \in 1 .. n : s[i] = <<"new", Parts(o)[i]>>
    BY <1>3, <1>4, CallsAre DEF n
  <1>6. PICK b : b = agenda'
    OBVIOUS
  <1>7. Spliced(b, s)
    BY <1>0, <1>1, <1>4, <1>5, <1>6, Replaced
  <1> USE DEF Spliced
  <1>8. o \in Whole /\ (o # root => Owner(o) \in live)
    BY <1>1, <1>2 DEF Building
  <1>9. \A c \in ToSet(Parts(o)) : Owner(c) = o /\ c # root /\ c \in Whole
    BY <1>1, <1>3, <1>8, OwnerIs, InsideOwned, PartFacts DEF Whole, Within
  <1>10. ASSUME NEW i \in DOMAIN b
         PROVE  b[i][2] \in Whole /\ b[i][2] # root /\ Owner(b[i][2]) \in live' /\ b[i][1] = "new"
    <2>1. CASE i \in 1 .. n
      <3>1. b[i] = <<"new", Parts(o)[i]>> /\ Parts(o)[i] \in ToSet(Parts(o))
        BY <1>3, <1>5, <1>7, <2>1
      <3> QED
        BY <1>0, <1>9, <3>1
    <2>2. CASE i \notin 1 .. n
      <3>1. PICK k : k = i - Len(s) + 1
        OBVIOUS
      <3>2. k \in DOMAIN agenda /\ b[i] = agenda[k] /\ k > 1 /\ Len(agenda) > 1
        <4>1. n \in Nat /\ Len(s) = n /\ i > Len(s)
          BY <1>3, <1>5, <1>7, <2>2
        <4>2. k \in DOMAIN agenda /\ b[i] = agenda[k]
          BY <1>7, <3>1, <4>1
        <4> QED
          BY <1>1, <1>7, <3>1, <4>1, <4>2
      <3>3. Obj(k) \in Whole /\ Obj(k) # root /\ Owner(Obj(k)) \in live
        BY <1>2, <1>7, <3>2 DEF Building
      <3>4. agenda[k][1] = "new"
        BY <1>0, <1>2, <3>2, Agenda
      <3> QED
        BY <1>0, <3>2, <3>3, <3>4 DEF Obj
    <2> QED
      BY <2>1, <2>2
  <1>11. "ctrl" \in live' \/ \E i \in DOMAIN b : "ctrl" \in Within(b[i][2])
    <2>1. CASE "ctrl" \in live
      BY <1>0, <2>1
    <2>2. ASSUME NEW i \in DOMAIN agenda, "ctrl" \in Within(Obj(i))
          PROVE  "ctrl" \in live' \/ \E j \in DOMAIN b : "ctrl" \in Within(b[j][2])
      <3>1. CASE i > 1
        <4>1. PICK k : k = i + Len(s) - 1
          OBVIOUS
        <4>2. k \in DOMAIN b /\ b[k] = agenda[i]
          BY <1>7, <3>1, <4>1
        <4> QED
          BY <2>2, <4>2 DEF Obj
      <3>2. CASE i = 1
        <4>1. CASE "ctrl" = o
          BY <1>0, <4>1
        <4>2. CASE "ctrl" # o
          <5>1. PICK c \in ToSet(Parts(o)) : "ctrl" \in Within(c)
            BY <1>1, <2>2, <3>2, <4>2, InsideParts DEF Within
          <5>2. PICK k \in 1 .. n : c = Parts(o)[k]
            BY <1>3
          <5>3. k \in 1 .. Len(s) /\ k \in DOMAIN b
            BY <1>3, <1>5, <1>7
          <5>4. b[k] = <<"new", c>>
            BY <1>5, <1>7, <5>2, <5>3
          <5> QED
            BY <5>1, <5>3, <5>4
        <4> QED
          BY <4>1, <4>2
      <3> QED
        BY <1>1, <1>7, <3>1, <3>2
    <2> QED
      BY <1>2, <2>1, <2>2 DEF Building
  <1>12. b \in Seq({"new"} \X Objects)
    BY <1>7, <1>10, Retyped
  <1>13. ConstructTypeOK'
    BY <1>0, <1>2, <1>6, <1>12 DEF ConstructTypeOK
  <1>14. Building'
    BY <1>0, <1>2, <1>6, <1>10, <1>11 DEF Building, Obj, Whole
  <1>15. live' \subseteq Whole /\ freed' = {} /\ freed' \subseteq Whole /\ live' \cap freed' = {}
    BY <1>0, <1>2, <1>8 DEF ConstructInv, Building
  <1>16. \A x \in live' \ {root} : Owner(x) \in live'
    BY <1>0, <1>8 DEF ConstructInv
  <1> QED
    BY <1>0, <1>2, <1>13, <1>14, <1>15, <1>16 DEF ConstructInv, Whole

\* An allocation fails, and the constructors that are running delete what they
\* have.
LEMMA UnwindInv ==
  ASSUME ConstructInv, NEW o \in Objects, At("new", o), UNCHANGED <<root, live, freed>>,
         agenda' = CallsTo("delete", Owners(o)), status' = "failing"
  PROVE  ConstructInv'
  <1> DEFINE b == agenda'
  <1>0. /\ At("new", o) /\ UNCHANGED <<root, live, freed>> /\ status' = "failing"
        /\ b = CallsTo("delete", Owners(o))
        /\ ConstructTypeOK
    BY DEF ConstructInv
  <1> HIDE DEF b
  <1>00. b = agenda'
    BY DEF b
  <1>1. /\ 1 \in DOMAIN agenda /\ agenda[1] = <<"new", o>> /\ Obj(1) = o /\ agenda # <<>>
        /\ agenda \in Seq(Called) /\ DOMAIN agenda = 1 .. Len(agenda)
        /\ root \in {"context", "session"} /\ root \in Objects
    BY <1>0, First, Agenda
  <1>2. status = "building" /\ Building
    BY <1>0, <1>1, Agenda DEF ConstructInv
  <1>3. o \in Whole /\ (o = root => live = {})
    BY <1>1, <1>2 DEF Building
  <1>4. PICK w : w = Owners(o)
    OBVIOUS
  <1>5. /\ w \in Seq(Objects) /\ Len(w) \in Nat
        /\ \A i \in 1 .. Len(w) : w[i] \in Whole \cap {"context", "session", "stm", "ctrl"}
        /\ \A i \in 1 .. Len(w) - 1 : w[i] # root /\ w[i + 1] = Owner(w[i])
        /\ \A i, j \in 1 .. Len(w) : i < j => w[j] \notin Within(w[i])
        /\ live # {} => Len(w) \in 1 .. Len(w) /\ w[Len(w)] = root
        /\ Len(w) > 0 => w[Len(w)] = root
    <2>1. CASE o = root
      <3>1. w = <<>>
        BY <1>4, <2>1 DEF Owners
      <3>2. w \in Seq(Objects) /\ Len(w) = 0
        BY <3>1, EmptySeq
      <3> QED
        BY <1>3, <2>1, <3>2
    <2>2. CASE o # root
      <3>1. Upwards(w) /\ w[Len(w)] = root
        BY <1>1, <1>3, <1>4, <2>2, OwnersUpwards DEF Whole, Within
      <3> QED
        BY <3>1 DEF Upwards
    <2> QED
      BY <2>1, <2>2
  <1>6. /\ b \in Seq(Called) /\ DOMAIN b = 1 .. Len(w)
        /\ Len(b) = Len(w)
        /\ \A i \in DOMAIN b : b[i] = <<"delete", w[i]>>
    <2>1. /\ b \in Seq(Called) /\ Len(b) = Len(w)
          /\ \A i \in 1 .. Len(w) : b[i] = <<"delete", w[i]>>
      BY <1>0, <1>4, <1>5, CallsAre
    <2> QED
      BY <2>1, LenProperties
  <1>7. PartsFirst'
    <2>1. ASSUME NEW i \in DOMAIN b, NEW j \in DOMAIN b, i < j
          PROVE  b[j][2] \notin Within(b[i][2])
      <3>1. b[i][2] = w[i] /\ b[j][2] = w[j] /\ w[j] \notin Within(w[i])
        BY <1>5, <1>6, <2>1
      <3> QED
        BY <3>1
    <2> QED
      BY <1>00, <2>1 DEF PartsFirst, Obj
  <1>8. FreedLast'
    BY <1>00, <1>6 DEF FreedLast, Obj
  <1>9. CalledByOwner'
    <2>1. ASSUME NEW i \in DOMAIN b
          PROVE  /\ b[i][2] \in Whole
                 /\ \/ b[i][2] = root
                    \/ /\ i < Len(b) /\ b[i + 1] = <<"delete", Owner(b[i][2])>>
                       /\ b[i][2] \in NullSafe
      <3>1. i \in 1 .. Len(w) /\ b[i][2] = w[i] /\ w[i] \in Whole /\ w[i] \in NullSafe
        BY <1>5, <1>6 DEF NullSafe
      <3>2. CASE i = Len(w)
        BY <1>5, <3>1, <3>2
      <3>3. CASE i # Len(w)
        <4>1. i \in 1 .. Len(w) - 1 /\ i + 1 \in DOMAIN b /\ w[i + 1] = Owner(w[i])
          BY <1>5, <1>6, <3>1, <3>3
        <4> QED
          BY <1>5, <1>6, <3>1, <4>1
      <3> QED
        BY <3>2, <3>3
    <2> QED
      BY <1>0, <1>00, <2>1 DEF CalledByOwner, Obj, Whole
  <1>10. NoneAgain'
    BY <1>0, <1>2 DEF NoneAgain, Building
  <1>11. root \in live => \E i \in DOMAIN b : b[i][2] = root
    <2>1. live # {} => Len(w) \in DOMAIN b /\ b[Len(w)][2] = root
      BY <1>5, <1>6
    <2> QED
      BY <2>1
  <1>12. b \in Seq({"delete", "free"} \X Objects)
    <2>1. \A i \in DOMAIN b : b[i][1] \in {"delete", "free"}
      BY <1>6
    <2> QED
      BY <1>6, <2>1, Retyped
  <1>13. ConstructTypeOK'
    BY <1>0, <1>00, <1>12 DEF ConstructTypeOK
  <1>14. Deleting'
    BY <1>0, <1>00, <1>7, <1>8, <1>9, <1>10, <1>11 DEF Deleting, Obj
  <1> QED
    BY <1>0, <1>13, <1>14 DEF ConstructInv, Whole

\* ... unless the setters crash for the lack of an XML parser.
LEMMA AllocFailsInv == ASSUME ConstructInv, NEW o \in Objects, AllocFails(o) PROVE ConstructInv'
  <1>0. At("new", o) /\ UNCHANGED <<root, live, freed>>
    BY DEF AllocFails
  <1>1. CASE agenda' = <<>> /\ status' = "crashed"
    <2>1. ConstructTypeOK'
      BY <1>0, <1>1 DEF ConstructInv, ConstructTypeOK
    <2> QED
      BY <1>0, <1>1, <2>1 DEF ConstructInv, Whole
  <1> QED
    BY <1>0, <1>1, UnwindInv DEF AllocFails, CrashesUnset

\* When the root is not there nothing is.
LEMMA NothingLeft == ASSUME ConstructInv, root \notin live PROVE live = {}
  <1>1. SUFFICES ASSUME NEW x \in live PROVE FALSE
    OBVIOUS
  <1>2. root \in {"context", "session"} /\ x \in Inside(root)
    BY <1>1, Agenda DEF ConstructInv, Whole, Within
  <1>3. \A o \in live : Owner(o) \in live
    BY DEF ConstructInv
  <1>4. Owner(x) \in live /\ Owner(x) \in {"context", "session", "stm", "ctrl"}
    BY <1>1, <1>2, <1>3, OwnerTable
  <1>5. "session" \in live \/ "context" \in live
    BY <1>3, <1>4, OwnerTable
  <1>6. CASE root = "context"
    BY <1>3, <1>5, <1>6, OwnerTable
  <1>7. CASE root = "session"
    <2>1. "context" \notin Within("session")
      BY DEF Within, Inside, ListMembers, ToSet
    <2> QED
      BY <1>5, <1>7, <2>1 DEF ConstructInv, Whole
  <1> QED
    BY <1>2, <1>6, <1>7

LEMMA ReturnsInv == ASSUME ConstructInv, Returns PROVE ConstructInv'
  <1>0. agenda = <<>> /\ UNCHANGED <<root, live, freed, agenda>> /\ DOMAIN agenda = {}
    BY DEF Returns
  <1>1. agenda' \in Seq({"delete", "free"} \X Objects)
    BY <1>0, EmptySeq
  <1>2. CASE status = "building" /\ status' = "ready"
    BY <1>0, <1>1, <1>2 DEF ConstructInv, ConstructTypeOK, Building, Whole
  <1>3. CASE status \in {"failing", "deleting"} /\ status' \in {"null", "deleted"}
    <2>1. root \notin live
      BY <1>0, <1>3 DEF ConstructInv, Deleting
    <2>2. live = {}
      BY <2>1, NothingLeft
    <2> QED
      BY <1>0, <1>1, <1>3, <2>2 DEF ConstructInv, ConstructTypeOK, Whole
  <1> QED
    BY <1>2, <1>3 DEF Returns

LEMMA DeleteRootInv == ASSUME ConstructInv, DeleteRoot PROVE ConstructInv'
  <1>0. /\ status = "ready" /\ status' = "deleting" /\ agenda' = <<<<"delete", root>>>>
        /\ UNCHANGED <<root, live, freed>> /\ freed = {}
    BY DEF DeleteRoot, ConstructInv
  <1>1. root \in Objects
    BY Agenda DEF ConstructInv
  <1>2. /\ agenda' \in Seq({"delete", "free"} \X Objects)
        /\ DOMAIN agenda' = {1} /\ agenda'[1] = <<"delete", root>>
    <2>1. PICK c : c = <<"delete", root>>
      OBVIOUS
    <2>2. c \in {"delete", "free"} \X Objects
      BY <1>1, <2>1
    <2>3. <<c>> \in Seq({"delete", "free"} \X Objects) /\ DOMAIN <<c>> = {1} /\ <<c>>[1] = c
      BY <2>2
    <2> QED
      BY <1>0, <2>1, <2>3
  <1>3. Deleting'
    BY <1>0, <1>2
    DEF Deleting, PartsFirst, FreedLast, CalledByOwner, NoneAgain, Obj, Whole, Within
  <1>4. ConstructTypeOK'
    BY <1>0, <1>2 DEF ConstructInv, ConstructTypeOK
  <1> QED
    BY <1>0, <1>3, <1>4 DEF ConstructInv, Whole

LEMMA ConstructInitInv == ASSUME ConstructInit PROVE ConstructInv
  <1>0. /\ status = "building" /\ agenda = <<<<"new", root>>>> /\ live = {} /\ freed = {}
        /\ root \in Roots /\ root \in {"context", "session"}
    BY ConstructAssumption DEF ConstructInit
  <1>1. root \in Objects
    BY <1>0 DEF Objects
  <1>2. /\ agenda \in Seq({"new"} \X Objects) /\ Len(agenda) = 1
        /\ DOMAIN agenda = {1} /\ agenda[1] = <<"new", root>>
    <2>1. PICK c : c = <<"new", root>>
      OBVIOUS
    <2>2. c \in {"new"} \X Objects
      BY <1>1, <2>1
    <2>3. /\ <<c>> \in Seq({"new"} \X Objects) /\ Len(<<c>>) = 1
          /\ DOMAIN <<c>> = {1} /\ <<c>>[1] = c
      BY <2>2
    <2> QED
      BY <1>0, <2>1, <2>3
  <1>3. "ctrl" \in Within(root)
    BY <1>0 DEF Within, Inside
  <1>4. ConstructTypeOK
    BY <1>0, <1>2 DEF ConstructTypeOK
  <1>5. Building
    BY <1>0, <1>2, <1>3 DEF Building, Obj, Whole, Within
  <1> QED
    BY <1>0, <1>4, <1>5 DEF ConstructInv

LEMMA ConstructNextInv ==
  ASSUME ConstructInv, [ConstructNext]_constructVars
  PROVE  ConstructInv'
  <1>1. CASE UNCHANGED constructVars
    BY <1>1
    DEF constructVars, ConstructInv, ConstructTypeOK, Building, Deleting, PartsFirst,
        FreedLast, CalledByOwner, NoneAgain, Freeing, Obj, Whole
  <1> QED
    BY <1>1, AllocInv, AllocFailsInv, DestroyInv, DestroyNullInv, FreeObjectInv, ReturnsInv,
       DeleteRootInv
    DEF ConstructNext

LEMMA ConstructInvariance == ConstructSpec => []ConstructInv
  <1> QED
    BY ConstructInitInv, ConstructNextInv, PTL DEF ConstructSpec

\* Whichever allocation fails while a parser context or a session is constructed,
\* with either XML library: everything that was allocated is freed again, a
\* finished one is freed whole, and nothing is reached by two destructors.
THEOREM FreedAllOnce == ConstructSpec => []FreesAllOnce
  <1>1. ConstructInv => FreesAllOnce
    <2> SUFFICES ASSUME ConstructInv PROVE FreesAllOnce
      OBVIOUS
    <2>1. \A o \in freed : ~At("delete", o) /\ ~At("free", o)
      BY Busy, First DEF Deleting, NoneAgain, ConstructInv
    <2> QED
      BY <2>1 DEF ConstructInv, FreesAllOnce, NullHoldsNothing, DeleteFreesAll, DestroyedOnce
  <1> QED
    BY <1>1, ConstructInvariance, PTL

-----------------------------------------------------------------------------
(***************************************************************************)
(* The four components side by side, as MCCalls has them: the invariant of *)
(* each holds there too, while it runs and while it rests.                 *)
(***************************************************************************)
SideBySide == Inv /\ ConstructInv /\ ListInv /\ BufferInv

LEMMA ApiRestsInv == ASSUME ApiRests PROVE Inv
  <1>1. <<backend, entry>> \in Calls
    BY MCCallsAssumption DEF ApiRests, AllCalls
  <1>2. left \in 0 .. MaxChunks
    BY ParseApiAssumption DEF ApiRests
  <1> QED
    BY <1>1, <1>2 DEF ApiRests, Inv, ApiTypeOK, OnlyFdKeepsItsContext, GrowsTo, Codes,
       Documented, Expat, UsesContext, Loops

LEMMA ConstructRestsInv == ASSUME ConstructRests PROVE ConstructInv
  <1>1. root \in Roots
    BY MCCallsAssumption DEF ConstructRests, MCRoots
  <1> QED
    BY <1>1 DEF ConstructRests, ConstructInv, ConstructTypeOK

LEMMA SideBySideInit == ASSUME Init PROVE SideBySide
  <1>1. ListInit => ListInv
    BY ListInitInv
  <1> QED
    BY <1>1, InitInv, ParseApiAssumption, ConstructInitInv, BufferInitInv, ApiRestsInv,
       ConstructRestsInv
    DEF Init, ListRests, SideBySide

LEMMA SideBySideNext == ASSUME SideBySide, [Next]_vars PROVE SideBySide'
  <1>1. /\ [ApiNext]_apiVars
        /\ [ConstructNext]_constructVars
        /\ [ListNext]_metalinkListVars
        /\ [BufferNext]_bufferVars
    BY DEF Next, vars
  <1> QED
    BY <1>1, NextInv, ParseApiAssumption, ConstructNextInv, ListNextInv, BufferNextInv
    DEF SideBySide

\* In the instance that is model-checked every variable keeps its type: what the
\* components hold in every step, whichever of them runs, and the others at rest.
THEOREM CallsTyped == Spec => []CallsTypeOK
  <1>1. SideBySide => CallsTypeOK
    BY DEF SideBySide, Inv, ConstructInv, ListInv, BufferInv, CallsTypeOK
  <1>2. Init => SideBySide
    BY SideBySideInit
  <1>3. SideBySide /\ [Next]_vars => SideBySide'
    BY SideBySideNext
  <1> QED
    BY <1>1, <1>2, <1>3, PTL DEF Spec

=============================================================================
