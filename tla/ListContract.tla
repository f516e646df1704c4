---------------------------- MODULE ListContract ----------------------------
(***************************************************************************)
(* What metalink_list.h promises: a list is a sequence of data; every      *)
(* function is one step and answers from the sequence.                     *)
(***************************************************************************)
EXTENDS Naturals, Sequences

CONSTANTS
  Data,      \* what entries point to
  Null,
  MaxIndex   \* bound on the indices asked for

VARIABLES
  content,  \* the entries' data, first to last
  answer    \* of the last function that returned: <<function, arguments, value>>

Add(d) == content' = Append(content, d) /\ answer' = <<"append", 0>>

AddFails == answer' = <<"append", 1>> /\ UNCHANGED content

\* 0 when there is no entry with that index.
Get(index) ==
  /\ answer' = <<"get", index, IF index < Len(content) THEN content[index + 1] ELSE Null>>
  /\ UNCHANGED content

Length == answer' = <<"length", Len(content)>> /\ UNCHANGED content

\* metalink_list_to_array and metalink_list_for_each: every entry once, in order.
Visit == answer' = <<"visit", content>> /\ UNCHANGED content

\* metalink_list_clear, and metalink_list_clear_data, which frees the data.
Clear == content' = <<>> /\ answer' = <<"clear", <<>>>>

ClearData == content' = <<>> /\ answer' = <<"clear_data", content>>

ListInit == content = <<>> /\ answer = <<"new", 0>>

ListNext ==
  \/ \E d \in Data : Add(d)
  \/ AddFails
  \/ \E index \in 0 .. MaxIndex : Get(index)
  \/ Length \/ Visit \/ Clear \/ ClearData

ListSpec == ListInit /\ [][ListNext]_<<content, answer>>
=============================================================================
