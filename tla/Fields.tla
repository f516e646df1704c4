------------------------------- MODULE Fields -------------------------------
(***************************************************************************)
(* The strings of the objects of metalink_types.h: every setter of a       *)
(* string goes through allocate_copy_string, which frees the old copy      *)
(* before it makes the new one, and every destructor frees the strings of  *)
(* its object one by one.  Three lists of names have to agree: the fields, *)
(* what the setters write and what the destructors free.                   *)
(*                                                                         *)
(* The string given to a setter is never one of the object's own: the      *)
(* handlers pass what the XML parser gave them.                            *)
(***************************************************************************)
EXTENDS Naturals, FiniteSets, Functions

CONSTANTS
  Structs,  \* addresses of objects
  Blocks,   \* addresses of copies of strings
  Values,   \* strings
  Null

ASSUME FieldsAssumption == Null \notin Structs \cup Blocks \cup Values

VARIABLES
  class,    \* of each object that is allocated
  field,    \* per object and field the block it points to
  content,  \* of the blocks that are allocated
  wanted,    \* history: the value last set, Null when its copy failed
  misfreed  \* history: a block was freed that was not allocated

fieldsVars == <<class, field, content, wanted, misfreed>>

-----------------------------------------------------------------------------
\* The char * fields of the structures that own their string.
StringFields == [
  metalink   |-> {"identity", "tags", "generator", "origin"},
  file       |-> {"name", "description", "version", "copyright", "identity",
                  "logo", "publisher_name", "publisher_url"},
  resource   |-> {"url", "type", "location"},
  metaurl    |-> {"url", "mediatype", "name"},
  checksum   |-> {"type", "hash"},
  piece_hash |-> {"hash"},
  chunk      |-> {"type"},
  signature  |-> {"mediatype", "signature"}]

Classes == DOMAIN StringFields

AllFields == UNION Range(StringFields)

\* The fields that the destructor of a class frees.
FreedFields(c) ==
  CASE c = "metalink"   -> {"generator", "origin", "identity", "tags"}
    [] c = "file"       -> {"name", "version", "description", "copyright",
                            "identity", "logo", "publisher_name", "publisher_url"}
    [] c = "resource"   -> {"url", "type", "location"}
    [] c = "metaurl"    -> {"url", "mediatype", "name"}
    [] c = "checksum"   -> {"type", "hash"}
    [] c = "piece_hash" -> {"hash"}
    [] c = "chunk"      -> {"type"}
    [] c = "signature"  -> {"mediatype", "signature"}

\* The field that metalink_<class>_set_<f> writes.
WrittenField(f) == f

-----------------------------------------------------------------------------
\* metalink_<class>_new clears the structure.
NewObject(o, c) ==
  /\ class[o] = Null
  /\ class' = [class EXCEPT ![o] = c]
  /\ field' = [field EXCEPT ![o] = [f \in AllFields |-> Null]]
  /\ wanted' = [wanted EXCEPT ![o] = [f \in AllFields |-> Null]]
  /\ UNCHANGED <<content, misfreed>>

\* free(p), Null included.
Free(p) ==
  /\ misfreed' = (misfreed \/ (p # Null /\ content[p] = Null))
  /\ content' = [b \in Blocks |-> IF b = p THEN Null ELSE content[b]]

\* Mutation: the pointer is kept when malloc fails.
CopyFailsKeeping(o, f) ==
  LET t == WrittenField(f) IN
  /\ class[o] # Null /\ f \in StringFields[class[o]]
  /\ Free(field[o][t])
  /\ wanted' = [wanted EXCEPT ![o][f] = Null]
  /\ UNCHANGED <<class, field>>

\* allocate_copy_string when malloc fails, or for a null source.
CopyFails(o, f) ==
  LET t == WrittenField(f) IN
  /\ class[o] # Null /\ f \in StringFields[class[o]]
  /\ Free(field[o][t])
  /\ field' = [field EXCEPT ![o][t] = Null]
  /\ wanted' = [wanted EXCEPT ![o][f] = Null]
  /\ UNCHANGED class

\* allocate_copy_string: the old copy is freed, and its memory may be used
\* again for the new one.
CopyString(o, f, v) ==
  LET t == WrittenField(f)
      old == field[o][t] IN
  /\ class[o] # Null /\ f \in StringFields[class[o]]
  /\ misfreed' = (misfreed \/ (old # Null /\ content[old] = Null))
  /\ \E b \in Blocks :
       /\ content[b] = Null \/ b = old
       /\ field' = [field EXCEPT ![o][t] = b]
       /\ content' = [x \in Blocks |-> IF x = b THEN v ELSE IF x = old THEN Null ELSE content[x]]
  /\ wanted' = [wanted EXCEPT ![o][f] = v]
  /\ UNCHANGED class

\* metalink_<class>_delete
DeleteObject(o) ==
  LET gone == {field[o][f] : f \in FreedFields(class[o])} \ {Null} IN
  /\ class[o] # Null
  /\ class' = [class EXCEPT ![o] = Null]
  /\ field' = [field EXCEPT ![o] = [f \in AllFields |-> Null]]
  /\ wanted' = [wanted EXCEPT ![o] = [f \in AllFields |-> Null]]
  /\ content' = [b \in Blocks |-> IF b \in gone THEN Null ELSE content[b]]
  /\ misfreed' = (misfreed \/ \E b \in gone : content[b] = Null)

FieldsInit ==
  /\ class = [o \in Structs |-> Null]
  /\ field = [o \in Structs |-> [f \in AllFields |-> Null]]
  /\ content = [b \in Blocks |-> Null]
  /\ wanted = [o \in Structs |-> [f \in AllFields |-> Null]]
  /\ misfreed = FALSE

FieldsNext ==
  \E o \in Structs :
    \/ \E c \in Classes : NewObject(o, c)
    \/ \E f \in AllFields : CopyFails(o, f) \/ \E v \in Values : CopyString(o, f, v)
    \/ DeleteObject(o)

FieldsSpec == FieldsInit /\ [][FieldsNext]_fieldsVars

-----------------------------------------------------------------------------
(***************************************************************************)
(* Properties.                                                             *)
(***************************************************************************)
FieldsTypeOK ==
  /\ class \in [Structs -> Classes \cup {Null}]
  /\ field \in [Structs -> [AllFields -> Blocks \cup {Null}]]
  /\ content \in [Blocks -> Values \cup {Null}]
  /\ misfreed \in BOOLEAN

\* No setter or destructor frees a string that is not allocated, after any
\* number of calls with and without memory.
FreedOnce == ~misfreed

\* Every copy of a string that is allocated is pointed to by exactly one field
\* of one object, and no field points to one that was freed: setters called
\* again, with or without memory, and destructors neither lose a string nor
\* free one twice.
OneOwner ==
  /\ \A b \in Blocks :
       content[b] # Null =>
         Cardinality({x \in Structs \X AllFields : field[x[1]][x[2]] = b}) = 1
  /\ \A o \in Structs, f \in AllFields :
       field[o][f] # Null => content[field[o][f]] # Null

\* Every field reads as what was last set in it, or Null when its copy failed,
\* whichever other fields were set since.
ReadsAsSet ==
  \A o \in Structs, f \in AllFields :
    wanted[o][f] = IF field[o][f] = Null THEN Null ELSE content[field[o][f]]

\* The strings of all objects, over any calls of setters and destructors, with
\* and without memory: each belongs to one field, which reads as it was set, and
\* is freed once.
StringsOwned ==
  /\ FreedOnce
  /\ OneOwner
  /\ ReadsAsSet

=============================================================================
