---------------------------- MODULE StringBuffer ----------------------------
(***************************************************************************)
(* metalink_string_buffer_t: the characters of one element, collected from *)
(* the pieces in which the XML parser hands them out.  The block of memory *)
(* is a function from byte indices; text remembers what was appended.      *)
(*                                                                         *)
(* size_t is not wrapped: the lengths of pieces that were in memory fit.   *)
(***************************************************************************)
EXTENDS Naturals, Sequences

CONSTANTS
  Chars,            \* characters that XML allows; the null byte is none
  NUL,
  Junk,             \* what memory that realloc added holds
  InitialCapacity,  \* of metalink_string_buffer_new; the back ends pass 128
  MaxPiece,         \* bound on the length of a piece
  MaxText           \* bound on the length of the text

ASSUME StringBufferAssumption ==
  /\ NUL \notin Chars
  /\ InitialCapacity \in Nat
  /\ MaxPiece \in Nat
  /\ MaxText \in Nat

VARIABLES
  phase,     \* "none", "open", or "crashed"
  buffer,    \* the bytes of the block
  length, capacity,
  overrun,   \* history: a byte was written past the end of the block
  text       \* history: the pieces appended, concatenated

block == <<buffer, length, capacity>>
bufferVars == <<phase, block, overrun, text>>

Bytes == Chars \cup {NUL, Junk}
Size == capacity + 1
Pieces == UNION {[1 .. n -> Chars] : n \in 0 .. MaxPiece}

-----------------------------------------------------------------------------
\* metalink_string_buffer_new; calloc clears the block.
NewBuffer ==
  /\ phase = "none"
  /\ phase' = "open"
  /\ buffer' = [i \in 0 .. InitialCapacity |-> NUL]
  /\ length' = 0
  /\ capacity' = InitialCapacity
  /\ text' = <<>>
  /\ UNCHANGED overrun

\* Mutation: the block grows by the length of the piece less the room it has.
ResizedShort(needed) == IF needed > capacity THEN needed - 1 ELSE capacity

\* The capacity after metalink_string_buffer_append has asked for room.
Resized(needed) == IF needed > capacity THEN needed ELSE capacity

\* realloc keeps the bytes of the block that the new one has.
Kept(i) == IF i < Size THEN buffer[i] ELSE Junk

\* memcpy behind what is there, and a null byte behind that.
Written(piece, i) ==
  IF i \in length .. (length + Len(piece) - 1) THEN piece[i - length + 1]
  ELSE IF i = length + Len(piece) THEN NUL ELSE Kept(i)

\* metalink_string_buffer_append.  The branch of metalink_string_buffer_resize
\* that cuts the text is never taken: the new capacity is above the length.
AppendPiece(piece) ==
  LET end == length + Len(piece) IN
  /\ phase = "open"
  /\ end <= MaxText
  /\ capacity' = Resized(end)
  /\ buffer' = [i \in 0 .. capacity' |-> Written(piece, i)]
  /\ length' = end
  /\ overrun' = (overrun \/ end > capacity')
  /\ text' = text \o piece
  /\ UNCHANGED phase

\* realloc fails; its result is not checked and is written to.
AppendCrashes(piece) ==
  /\ phase = "open"
  /\ length + Len(piece) <= MaxText
  /\ length + Len(piece) > capacity
  /\ phase' = "crashed"
  /\ UNCHANGED <<block, overrun, text>>

\* metalink_string_buffer_delete
DeleteBuffer ==
  /\ phase = "open"
  /\ phase' = "none"
  /\ UNCHANGED <<block, overrun, text>>

\* Before the first metalink_string_buffer_new, or when it failed.
BufferInit ==
  /\ phase = "none"
  /\ buffer = [i \in 0 .. 0 |-> NUL]
  /\ length = 0
  /\ capacity = 0
  /\ overrun = FALSE
  /\ text = <<>>

BufferNext ==
  \/ NewBuffer
  \/ \E piece \in Pieces : AppendPiece(piece) \/ AppendCrashes(piece)
  \/ DeleteBuffer

BufferSpec == BufferInit /\ [][BufferNext]_bufferVars

-----------------------------------------------------------------------------
(***************************************************************************)
(* Properties.                                                             *)
(***************************************************************************)
BufferTypeOK ==
  /\ phase \in {"none", "open", "crashed"}
  /\ capacity \in Nat
  /\ length \in 0 .. capacity
  /\ buffer \in [0 .. capacity -> Bytes]
  /\ overrun \in BOOLEAN
  /\ text \in Seq(Chars)

\* metalink_string_buffer_append never writes past the end of the block, not
\* even the null byte.
NoOverrun == ~overrun

\* What metalink_string_buffer_str returns is a string that ends where
\* metalink_string_buffer_strlen says, and is every character appended, in
\* order: the end handlers are passed the whole text of the element, and no
\* byte that was never written.
StringIsText ==
  phase = "open" =>
    /\ length = Len(text)
    /\ \A i \in 0 .. (length - 1) : buffer[i] = text[i + 1]
    /\ buffer[length] = NUL

\* The buffer holds the whole text, inside its block.
TextInBlock == NoOverrun /\ StringIsText

=============================================================================
