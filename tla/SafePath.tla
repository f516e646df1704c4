------------------------------ MODULE SafePath ------------------------------
(***************************************************************************)
(* metalink_check_safe_path: may the name attribute of a <file> be used as *)
(* a path below the download directory?  The loop reads the path character *)
(* by character, remembering where its last component starts; the checks   *)
(* at its end look at a few positions only, never at the components.       *)
(*                                                                         *)
(* Characters are the classes the code tells apart.  Indices count from 0, *)
(* as in the code: path[i] is At(i).                                       *)
(***************************************************************************)
EXTENDS Naturals, Sequences

CONSTANTS
  MaxPath     \* bound on the length of the paths TLC enumerates

ASSUME SafePathAssumption == MaxPath \in Nat

VARIABLES
  path,          \* what the loop has read
  filename_idx,  \* where its last component starts
  verdict        \* "scanning", and then "safe" (1) or "unsafe" (0)

pathVars == <<path, filename_idx, verdict>>

-----------------------------------------------------------------------------
\* A control character, DEL, backslash, <, > or |.
Forbidden == {"forbidden"}

Char == {"letter", "other", ".", "/", " ", "~", ":"} \cup Forbidden

bad_prefix == {" ", ".", "~", "/"}

bad_suffix == {" ", "/"}

len == Len(path)

At(i) == path[i + 1]

\* strstr(path, s) for the two strings it is asked for.
Holds(s) ==
  \E i \in 0 .. len : i + Len(s) <= len /\ \A k \in 1 .. Len(s) : At(i + k - 1) = s[k]

\* ends_with: never true where it is called, the last component would start
\* with a bad prefix.
EndsWith(s) ==
  Len(s) <= len /\ \A k \in 1 .. Len(s) : At(len - Len(s) + k - 1) = s[k]

DriveLetter == len >= 2 /\ At(0) = "letter" /\ At(1) = ":"

PrefixesOk ==
  /\ At(0) \notin bad_prefix
  /\ filename_idx # 0 => At(filename_idx) \notin bad_prefix

\* Mutation: a component ".." between two others is not looked for.
NoDotsInsideOne == ~Holds(<<"/", ".", "/">>)

NoDotsInside == ~Holds(<<"/", ".", "/">>) /\ ~Holds(<<"/", ".", ".", "/">>)

\* The checks after the loop, of a path that is not empty.
Safe ==
  /\ filename_idx # len
  /\ PrefixesOk
  /\ At(len - 1) \notin bad_suffix
  /\ ~DriveLetter
  /\ NoDotsInside
  /\ ~EndsWith(<<"/", ".">>) /\ ~EndsWith(<<"/", ".", ".">>)

-----------------------------------------------------------------------------
\* One turn of the loop.
ReadChar(c) ==
  /\ verdict = "scanning"
  /\ len < MaxPath
  /\ c \notin Forbidden
  /\ path' = Append(path, c)
  /\ filename_idx' = IF c = "/" THEN len + 1 ELSE filename_idx
  /\ UNCHANGED verdict

\* A character that ends the loop and the function.
Refuse(c) ==
  /\ verdict = "scanning"
  /\ len < MaxPath
  /\ c \in Forbidden
  /\ path' = Append(path, c)
  /\ verdict' = "unsafe"
  /\ UNCHANGED filename_idx

\* The path ends; an empty path or NULL is refused before the loop.
Judge ==
  /\ verdict = "scanning"
  /\ verdict' = IF path # <<>> /\ Safe THEN "safe" ELSE "unsafe"
  /\ UNCHANGED <<path, filename_idx>>

PathInit ==
  /\ path = <<>>
  /\ filename_idx = 0
  /\ verdict = "scanning"

PathNext == (\E c \in Char : ReadChar(c) \/ Refuse(c)) \/ Judge

PathSpec == PathInit /\ [][PathNext]_pathVars

-----------------------------------------------------------------------------
(***************************************************************************)
(* Properties.  A component of the path is a longest run without "/".      *)
(***************************************************************************)
PathTypeOK ==
  /\ path \in Seq(Char)
  /\ filename_idx \in 0 .. len
  /\ verdict \in {"scanning", "safe", "unsafe"}

\* The component path[i..j-1].
Component(i, j) ==
  /\ i = 0 \/ At(i - 1) = "/"
  /\ j = len \/ At(j) = "/"
  /\ \A k \in i .. j - 1 : At(k) # "/"

\* filename_idx is where the last component starts, so that the check of the
\* name looks at the name.
FilenameFound == Component(filename_idx, len)

\* A path that is taken has no component "." or "..", wherever it stands: the
\* positions the code looks at are enough.
NoDotComponents ==
  verdict = "safe" =>
    \A i, j \in 0 .. len :
      Component(i, j) =>
        /\ ~(j = i + 1 /\ At(i) = ".")
        /\ ~(j = i + 2 /\ At(i) = "." /\ At(i + 1) = ".")

\* What is taken names a file: its name is not empty, is not hidden or a home
\* directory, and does not end in a blank; and the path is relative.
NamesAFile ==
  verdict = "safe" =>
    /\ \A i \in 0 .. len - 1 :
         i = 0 \/ Component(i, len) => At(i) \notin {" ", ".", "~", "/"}
    /\ len > 0 /\ At(len - 1) \notin {" ", "/"}
    /\ ~DriveLetter

\* Nothing else is refused: a path that starts and ends like that, without
\* components "." and "..", without forbidden characters and
\* drive letter, is taken.
RefusesOnlyUnsafe ==
  verdict = "unsafe" =>
    \/ path = <<>>
    \/ \E i \in 0 .. len - 1 : At(i) \in Forbidden
    \/ DriveLetter
    \/ At(0) \in {" ", ".", "~", "/"}
    \/ \E i \in 0 .. len : Component(i, len) /\ (i = len \/ At(i) \in {" ", ".", "~"})
    \/ At(len - 1) = " "
    \/ \E i, j \in 0 .. len :
         Component(i, j) /\ j - i \in {1, 2} /\ \A k \in i .. j - 1 : At(k) = "."

\* metalink_check_safe_path judges a path of any shape as a look at each of its
\* components would, though it only looks at a few positions.
JudgedByComponents ==
  /\ FilenameFound
  /\ NoDotComponents
  /\ NamesAFile
  /\ RefusesOnlyUnsafe

=============================================================================
