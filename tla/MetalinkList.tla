---------------------------- MODULE MetalinkList ----------------------------
(***************************************************************************)
(* metalink_list_t: cells linked from head, and a tail pointer to append   *)
(* at.  The functions that walk the list are one action per turn of their  *)
(* loop, so that what they read, and what metalink_list_clear has freed    *)
(* when it reads it, can be seen.                                          *)
(*                                                                         *)
(* A cell that is freed keeps its fields, and may be allocated again.      *)
(***************************************************************************)
EXTENDS Integers, Sequences

CONSTANTS
  Cells,     \* addresses of metalink_list_entry_t
  Data,      \* what entries point to
  Null,
  MaxIndex   \* bound on the indices given to metalink_list_get_data

ASSUME MetalinkListAssumption ==
  /\ Null \notin Cells
  /\ MaxIndex \in Nat

VARIABLES
  head, tail,
  next, data,  \* the fields of every cell
  alive,       \* the cells that are allocated
  op,          \* the function that walks, or "idle"
  e,           \* its cursor
  index,       \* the argument of get_data as it is counted down, or the count
               \* of metalink_list_length
  out,         \* the data it has handed out or freed
  answer,      \* of the last function: <<function, arguments, value>>
  cells,       \* history: the cells of the list in order, until it is cleared
  turns,       \* history: turns of the loop so far
  asked        \* history: the index metalink_list_get_data was called with

listVars == <<head, tail, next, data, alive>>
walkVars == <<op, e, index, out>>
metalinkListVars == <<listVars, walkVars, answer, cells, turns, asked>>

Walks == {"clear", "clear_data", "get", "length", "visit"}

-----------------------------------------------------------------------------
\* metalink_list_append
AppendEntry(d) ==
  /\ op = "idle"
  /\ \E c \in Cells \ alive :
       /\ alive' = alive \cup {c}
       /\ data' = [data EXCEPT ![c] = d]
       /\ next' = [x \in Cells |-> IF x = tail THEN c ELSE IF x = c THEN Null ELSE next[x]]
       /\ head' = IF head = Null THEN c ELSE head
       /\ tail' = c
       /\ cells' = Append(cells, c)
  /\ answer' = <<"append", 0>>
  /\ UNCHANGED <<walkVars, turns, asked>>

\* malloc fails in metalink_list_append.
AppendFails ==
  /\ op = "idle"
  /\ answer' = <<"append", 1>>
  /\ UNCHANGED <<listVars, walkVars, cells, turns, asked>>

\* A function that walks is called; to_array and for_each are both "visit".
Start(f) ==
  /\ op = "idle"
  /\ op' = f
  /\ e' = head
  /\ index' \in IF f = "get" THEN 0 .. MaxIndex ELSE {0}
  /\ asked' = index'
  /\ out' = <<>>
  /\ turns' = 0
  /\ UNCHANGED <<listVars, answer, cells>>

Turn == e # Null /\ turns' = turns + 1 /\ UNCHANGED <<head, tail, next, data, op, answer, cells, asked>>

\* Mutation: the data of each cell is left alone.
FreeCellOnly ==
  /\ op \in {"clear", "clear_data"}
  /\ Turn
  /\ alive' = alive \ {e}
  /\ e' = next[e]
  /\ UNCHANGED <<index, out>>

\* Mutation: the cursor stays where it is.
FreeCellStays ==
  /\ op \in {"clear", "clear_data"}
  /\ e # Null
  /\ alive' = alive \ {e}
  /\ UNCHANGED <<head, tail, next, data, walkVars, answer, cells, turns, asked>>

\* next is read, then the cell is freed, in clear_data after its data.
FreeCell ==
  /\ op \in {"clear", "clear_data"}
  /\ Turn
  /\ alive' = alive \ {e}
  /\ out' = IF op = "clear_data" THEN Append(out, data[e]) ELSE out
  /\ e' = next[e]
  /\ UNCHANGED index

\* Mutation: the tail is forgotten.
ClearedKeepsTail ==
  /\ op \in {"clear", "clear_data"}
  /\ e = Null
  /\ head' = Null
  /\ answer' = <<op, out>>
  /\ cells' = <<>>
  /\ op' = "idle"
  /\ UNCHANGED <<tail, next, data, alive, e, index, out, turns, asked>>

\* The end of metalink_list_clear and of metalink_list_clear_data.
Cleared ==
  /\ op \in {"clear", "clear_data"}
  /\ e = Null
  /\ head' = Null
  /\ tail' = Null
  /\ answer' = <<op, out>>
  /\ cells' = <<>>
  /\ op' = "idle"
  /\ UNCHANGED <<next, data, alive, e, index, out, turns, asked>>

\* while (index-- && e) of metalink_list_get_data
CountDown ==
  /\ op = "get"
  /\ index # 0
  /\ Turn
  /\ index' = index - 1
  /\ e' = next[e]
  /\ UNCHANGED <<alive, out>>

Got ==
  /\ op = "get"
  /\ index = 0 \/ e = Null
  /\ answer' = <<"get", asked, IF e = Null THEN Null ELSE data[e]>>
  /\ op' = "idle"
  /\ UNCHANGED <<listVars, e, index, out, cells, turns, asked>>

Count ==
  /\ op = "length"
  /\ Turn
  /\ index' = index + 1
  /\ e' = next[e]
  /\ UNCHANGED <<alive, out>>

Counted ==
  /\ op = "length"
  /\ e = Null
  /\ answer' = <<"length", index>>
  /\ op' = "idle"
  /\ UNCHANGED <<listVars, e, index, out, cells, turns, asked>>

HandOut ==
  /\ op = "visit"
  /\ Turn
  /\ out' = Append(out, data[e])
  /\ e' = next[e]
  /\ UNCHANGED <<alive, index>>

HandedOut ==
  /\ op = "visit"
  /\ e = Null
  /\ answer' = <<"visit", out>>
  /\ op' = "idle"
  /\ UNCHANGED <<listVars, e, index, out, cells, turns, asked>>

\* metalink_list_new
ListInit ==
  /\ head = Null
  /\ tail = Null
  /\ next = [c \in Cells |-> Null]
  /\ data \in [Cells -> Data]
  /\ alive = {}
  /\ op = "idle"
  /\ e = Null
  /\ index = 0
  /\ out = <<>>
  /\ answer = <<"new", 0>>
  /\ cells = <<>>
  /\ turns = 0
  /\ asked = 0

\* A function that was called runs on.
Running == FreeCell \/ Cleared \/ CountDown \/ Got \/ Count \/ Counted \/ HandOut \/ HandedOut

ListNext ==
  \/ \E d \in Data : AppendEntry(d)
  \/ AppendFails
  \/ \E f \in Walks : Start(f)
  \/ Running

ListSpec == ListInit /\ [][ListNext]_metalinkListVars

ListFairSpec == ListSpec /\ WF_metalinkListVars(Running)

-----------------------------------------------------------------------------
(***************************************************************************)
(* Properties.                                                             *)
(***************************************************************************)
ListTypeOK ==
  /\ head \in Cells \cup {Null}
  /\ tail \in Cells \cup {Null}
  /\ next \in [Cells -> Cells \cup {Null}]
  /\ data \in [Cells -> Data]
  /\ alive \subseteq Cells
  /\ op \in Walks \cup {"idle"}
  /\ e \in Cells \cup {Null}
  /\ index \in Nat
  /\ out \in Seq(Data)
  /\ cells \in Seq(Cells)
  /\ turns \in Nat
  /\ asked \in 0 .. MaxIndex

\* No loop reads a cell that was freed.
NoUseAfterFree == op # "idle" /\ e # Null => e \in alive

\* The cells are linked in the order they were appended, from head to tail,
\* and no other cell is allocated: none is lost and none is shared.
Linked ==
  /\ \A i, j \in DOMAIN cells : cells[i] = cells[j] => i = j
  /\ head = IF cells = <<>> THEN Null ELSE cells[1]
  /\ tail = IF cells = <<>> THEN Null ELSE cells[Len(cells)]
  /\ \A i \in DOMAIN cells :
       next[cells[i]] = IF i = Len(cells) THEN Null ELSE cells[i + 1]
  /\ op \notin {"clear", "clear_data"} => alive = {cells[i] : i \in DOMAIN cells}

\* The list is in one piece, and no function of it touches a cell that is not.
ListIsSound == Linked /\ NoUseAfterFree

\* No walk goes round for ever.
WalksEnd == []<>(op = "idle")

\* The functions answer as ListContract says, from the sequence of the data.
Sequence ==
  INSTANCE ListContract WITH
    content <- [i \in DOMAIN cells |-> data[cells[i]]]

ImplementsList == Sequence!ListSpec

=============================================================================
