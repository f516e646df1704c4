----------------------------- MODULE PctrlProofs ----------------------------
(***************************************************************************)
(* Proofs about the transaction layer, for any set of addresses and        *)
(* priorities: type correctness, who owns which object, and that no        *)
(* operation loses one. One lemma per operation says that it keeps the     *)
(* invariant; PstmProofs uses the same lemmas for the handlers that call   *)
(* it.                                                                     *)
(***************************************************************************)
EXTENDS Pctrl, SequenceTheorems, TLAPS

(***************************************************************************)
(* The pieces the operations are built from.                               *)
(***************************************************************************)
\* NULL is not an address, so an address can be told from no object.
LEMMA NullNotAddr == NULL \notin Addr
  BY PctrlAssumption

LEMMA UnrankedType == Unranked \in Prio
  BY PctrlAssumption DEF Unranked

LEMMA PrioritiesType == ASSUME NEW k, NEW p \in Priorities(k) PROVE p \in Prio
  BY UnrankedType DEF Priorities

\* What the allocator returns is an address nothing was allocated at.
LEMMA FreshType ==
  ASSUME HeapRoom
  PROVE  Fresh \in Addr /\ kind[Fresh] = "unused"
  BY DEF HeapRoom, Fresh

LEMMA NoFieldsType == NoFields \in [Slots -> Seq(Addr)]
  BY DEF NoFields

\* The named lists, transactions and fields exist.
LEMMA Names ==
  /\ FileLists = {"languages", "oses", "resources", "metaurls", "checksums"}
  /\ FileLists \subseteq Lists
  /\ FileLists \subseteq Slots
  /\ {"files", "piece_hashes"} \subseteq Lists \ FileLists
  /\ {"piece_hashes", "chunk_checksum", "signature"} \subseteq Slots
  /\ StringLists \subseteq FileLists
  /\ Items \subseteq Tx
  /\ \A k \in Items : ListOf[k] \in Lists
  /\ {"file", "chunk", "signature"} \subseteq Tx
  <1>1. FileLists = {"languages", "oses", "resources", "metaurls", "checksums"}
    <2>1. DOMAIN CommitOrder = 1..5
      BY DEF CommitOrder
    <2>2. 1..5 = {1, 2, 3, 4, 5}
      OBVIOUS
    <2> QED
      BY <2>1, <2>2 DEF FileLists, Range, CommitOrder
  <1> QED
    BY <1>1 DEF Lists, Slots, StringLists, Items, ListOf, Tx

LEMMA EnclosingType ==
  ASSUME CtrlTypeOK, NEW k \in Tx
  PROVE  Enclosing(k) \in Addr \cup {NULL}
  BY DEF CtrlTypeOK, Enclosing, Tx

LEMMA FreeKeepsType ==
  ASSUME HeapTypeOK, NEW F, Free(F)
  PROVE  HeapTypeOK'
  BY NoFieldsType, UnrankedType DEF HeapTypeOK, Free

LEMMA AllocKeepsType ==
  ASSUME HeapTypeOK, NEW F, NEW k \in Kinds, NEW p \in Prio,
         NEW h \in Addr \cup {NULL}, FreeAndAlloc(F, k, p, h)
  PROVE  HeapTypeOK'
  BY FreshType, NoFieldsType, UnrankedType DEF HeapTypeOK, FreeAndAlloc

-----------------------------------------------------------------------------
(***************************************************************************)
(* The operations.                                                         *)
(***************************************************************************)
LEMMA NewTransactionType ==
  ASSUME PctrlTypeOK, NEW k \in Tx, NEW p \in Prio, NewTransaction(k, p)
  PROVE  PctrlTypeOK'
  <1>1. HeapTypeOK'
    BY AllocKeepsType, EnclosingType DEF PctrlTypeOK, NewTransaction, Kinds
  <1>2. CtrlTypeOK'
    <2>1. Fresh \in Addr
      BY FreshType DEF NewTransaction, FreeAndAlloc
    <2>2. list' \in [Lists -> Seq(Addr)]
      BY DEF PctrlTypeOK, CtrlTypeOK, NewTransaction
    <2> QED
      BY <2>1, <2>2 DEF PctrlTypeOK, CtrlTypeOK, NewTransaction
  <1> QED
    BY <1>1, <1>2 DEF PctrlTypeOK

LEMMA NewTransactionFailsType ==
  ASSUME PctrlTypeOK, NEW k \in Tx, NewTransactionFails(k)
  PROVE  PctrlTypeOK'
  <1>1. HeapTypeOK'
    BY FreeKeepsType DEF PctrlTypeOK, NewTransactionFails
  <1>2. list' \in [Lists -> Seq(Addr)]
    BY DEF PctrlTypeOK, CtrlTypeOK, NewTransactionFails
  <1> QED
    BY <1>1, <1>2 DEF PctrlTypeOK, CtrlTypeOK, NewTransactionFails

LEMMA CommitItemType ==
  ASSUME PctrlTypeOK, NEW k \in Items, CommitItem(k)
  PROVE  PctrlTypeOK'
  <1>1. k \in Tx /\ ListOf[k] \in Lists
    BY Names
  <1>2. temp[k] \in Addr
    BY <1>1 DEF PctrlTypeOK, CtrlTypeOK, CommitItem
  <1>3. Append(list[ListOf[k]], temp[k]) \in Seq(Addr)
    BY <1>1, <1>2, AppendProperties DEF PctrlTypeOK, CtrlTypeOK
  <1>4. HeapTypeOK'
    BY DEF PctrlTypeOK, HeapTypeOK, CommitItem, heapVars
  <1>5. CtrlTypeOK'
    BY <1>1, <1>3 DEF PctrlTypeOK, CtrlTypeOK, CommitItem
  <1> QED
    BY <1>4, <1>5 DEF PctrlTypeOK

LEMMA AddStringType ==
  ASSUME PctrlTypeOK, NEW l \in StringLists, AddString(l)
  PROVE  PctrlTypeOK'
  <1>1. temp["file"] \in Addr \cup {NULL} /\ l \in Lists
    BY Names DEF PctrlTypeOK, CtrlTypeOK
  <1>2. HeapTypeOK'
    BY <1>1, AllocKeepsType, UnrankedType DEF PctrlTypeOK, AddString, Kinds
  <1>3. Append(list[l], Fresh) \in Seq(Addr)
    BY <1>1, FreshType, AppendProperties
    DEF PctrlTypeOK, CtrlTypeOK, AddString, FreeAndAlloc
  <1> QED
    BY <1>1, <1>2, <1>3 DEF PctrlTypeOK, CtrlTypeOK, AddString

LEMMA AddStringAppendFailsType ==
  ASSUME PctrlTypeOK, AddStringAppendFails
  PROVE  PctrlTypeOK'
  <1>1. temp["file"] \in Addr \cup {NULL}
    BY Names DEF PctrlTypeOK, CtrlTypeOK
  <1>2. HeapTypeOK'
    BY <1>1, AllocKeepsType, UnrankedType
    DEF PctrlTypeOK, AddStringAppendFails, Kinds
  <1> QED
    BY <1>2 DEF PctrlTypeOK, CtrlTypeOK, AddStringAppendFails

LEMMA FileSetStringType ==
  ASSUME PctrlTypeOK, NEW l \in StringLists, FileSetString(l)
  PROVE  PctrlTypeOK'
  <1>1. temp["file"] \in Addr \cup {NULL} /\ l \in Lists
    BY Names DEF PctrlTypeOK, CtrlTypeOK
  <1>2. HeapTypeOK'
    BY <1>1, AllocKeepsType, UnrankedType DEF PctrlTypeOK, FileSetString, Kinds
  <1>3. <<Fresh>> \in Seq(Addr)
    BY FreshType DEF PctrlTypeOK, FileSetString, FreeAndAlloc
  <1> QED
    BY <1>1, <1>2, <1>3 DEF PctrlTypeOK, CtrlTypeOK, FileSetString

LEMMA FileSetStringFailsType ==
  ASSUME PctrlTypeOK, NEW l \in StringLists, FileSetStringFails(l)
  PROVE  PctrlTypeOK'
  <1>1. temp["file"] \in Addr \cup {NULL} /\ l \in Lists
    BY Names DEF PctrlTypeOK, CtrlTypeOK
  <1>2. ASSUME UNCHANGED heapVars PROVE HeapTypeOK'
    BY <1>2 DEF PctrlTypeOK, HeapTypeOK, heapVars
  <1>3. ASSUME FreeAndAlloc({}, "string", Unranked, temp["file"])
        PROVE  HeapTypeOK'
    BY <1>1, <1>3, AllocKeepsType, UnrankedType DEF PctrlTypeOK, Kinds
  <1>4. HeapTypeOK'
    BY <1>2, <1>3 DEF FileSetStringFails, PctrlTypeOK
  <1>5. CtrlTypeOK'
    BY <1>1 DEF PctrlTypeOK, CtrlTypeOK, FileSetStringFails
  <1> QED
    BY <1>4, <1>5 DEF PctrlTypeOK

\* An arrangement of a sequence of addresses is one: it is t read through a
\* permutation of its indices.
LEMMA ArrangementsType ==
  ASSUME NEW t \in Seq(Addr), NEW u \in Arrangements(t)
  PROVE  u \in Seq(Addr)
  <1>1. PICK q \in Bijection(DOMAIN t, DOMAIN t) :
          u = [i \in DOMAIN t |-> t[q[i]]]
    BY DEF Arrangements
  <1>2. q \in [DOMAIN t -> DOMAIN t]
    BY <1>1 DEF Bijection, Injection
  <1>3. DOMAIN t = 1..Len(t) /\ Len(t) \in Nat /\ \A i \in 1..Len(t) : t[i] \in Addr
    BY LenProperties, ElementOfSeq
  <1>4. \A i \in 1..Len(t) : t[q[i]] \in Addr
    BY <1>2, <1>3
  <1>5. u \in [1..Len(t) -> Addr]
    BY <1>1, <1>3, <1>4
  <1> QED
    BY <1>3, <1>5, SeqDef

LEMMA CollectedType ==
  ASSUME PctrlTypeOK, NEW a \in Addr, NEW s \in Slots \cap Lists
  PROVE  Collected(a, s) \in Seq(Addr)
  BY DEF PctrlTypeOK, HeapTypeOK, CtrlTypeOK, Collected

LEMMA MovedType ==
  ASSUME PctrlTypeOK, NEW a \in Addr, NEW s \in FileLists,
         NEW r \in Arrangements(Collected(a, "resources")),
         NEW m \in Arrangements(Collected(a, "metaurls"))
  PROVE  Moved(a, s, r, m) \in Seq(Addr)
  <1>1. r \in Seq(Addr) /\ m \in Seq(Addr)
    BY Names, CollectedType, ArrangementsType
  <1>2. Collected(a, s) \in Seq(Addr)
    BY Names, CollectedType
  <1> QED
    BY <1>1, <1>2 DEF Moved

LEMMA MovedBeforeType == ASSUME NEW fail PROVE MovedBefore(fail) \subseteq FileLists
  BY DEF MovedBefore, FileLists, Range

LEMMA CommitFileType ==
  ASSUME PctrlTypeOK, NEW fail \in CommitFailures, CommitFile(fail)
  PROVE  PctrlTypeOK'
  <1> DEFINE f == temp["file"]
  <1>1. f \in Addr
    BY Names DEF PctrlTypeOK, CtrlTypeOK, CommitFile
  <1>2. PICK r \in Arrangements(Collected(f, "resources")),
             m \in Arrangements(Collected(f, "metaurls")) :
          own' = [own EXCEPT ![f] =
                    [s \in Slots |-> IF s \in MovedBefore(fail) THEN Moved(f, s, r, m)
                                     ELSE IF s = fail THEN <<>> ELSE own[f][s]]]
    BY DEF CommitFile
  <1>3. ASSUME NEW s \in MovedBefore(fail)
        PROVE  Moved(f, s, r, m) \in Seq(Addr)
    BY <1>1, <1>3, MovedBeforeType, MovedType
  <1>4. own' \in [Addr -> [Slots -> Seq(Addr)]]
    <2>1. ASSUME NEW s \in Slots
          PROVE  (IF s \in MovedBefore(fail) THEN Moved(f, s, r, m)
                  ELSE IF s = fail THEN <<>> ELSE own[f][s]) \in Seq(Addr)
      BY <1>1, <1>3, <2>1 DEF PctrlTypeOK, HeapTypeOK
    <2> QED
      BY <1>1, <1>2, <2>1 DEF PctrlTypeOK, HeapTypeOK
  <1>5. HeapTypeOK'
    BY <1>4 DEF PctrlTypeOK, HeapTypeOK, CommitFile
  <1>6. list' \in [Lists -> Seq(Addr)]
    <2>1. ASSUME NEW l \in Lists
          PROVE  /\ list[l] \in Seq(Addr)
                 /\ Append(list[l], f) \in Seq(Addr)
      BY <1>1, <2>1, AppendProperties DEF PctrlTypeOK, CtrlTypeOK
    <2> QED
      BY <2>1 DEF CommitFile
  <1>7. CtrlTypeOK'
    BY <1>6 DEF PctrlTypeOK, CtrlTypeOK, CommitFile
  <1> QED
    BY <1>5, <1>7 DEF PctrlTypeOK

LEMMA CommitChunkType ==
  ASSUME PctrlTypeOK, CommitChunk
  PROVE  PctrlTypeOK'
  <1> DEFINE c == temp["chunk"]
             f == temp["file"]
  <1>1. c \in Addr /\ f \in Addr
    BY Names DEF PctrlTypeOK, CtrlTypeOK, CommitChunk
  <1>2. Collected(c, "piece_hashes") \in Seq(Addr)
    BY <1>1, Names, CollectedType
  <1>3. <<c>> \in Seq(Addr)
    BY <1>1
  <1>4. own' \in [Addr -> [Slots -> Seq(Addr)]]
    BY <1>1, <1>2, <1>3, Names DEF PctrlTypeOK, HeapTypeOK, CommitChunk
  <1>5. HeapTypeOK'
    BY <1>4 DEF PctrlTypeOK, HeapTypeOK, CommitChunk
  <1>6. CtrlTypeOK'
    BY Names DEF PctrlTypeOK, CtrlTypeOK, CommitChunk
  <1> QED
    BY <1>5, <1>6 DEF PctrlTypeOK

LEMMA CommitChunkFailsType ==
  ASSUME PctrlTypeOK, CommitChunkFails
  PROVE  PctrlTypeOK'
  <1>1. temp["chunk"] \in Addr
    BY Names DEF PctrlTypeOK, CtrlTypeOK, CommitChunkFails
  <1>2. own' \in [Addr -> [Slots -> Seq(Addr)]]
    BY <1>1, Names DEF PctrlTypeOK, HeapTypeOK, CommitChunkFails
  <1> QED
    BY <1>2 DEF PctrlTypeOK, HeapTypeOK, CtrlTypeOK, CommitChunkFails

LEMMA ChunkSetPieceHashesType ==
  ASSUME PctrlTypeOK, ChunkSetPieceHashes
  PROVE  PctrlTypeOK'
  <1> DEFINE c == temp["chunk"]
             old == Trees(Range(own[c]["piece_hashes"]))
             freed == [a \in Addr |-> IF a \in old THEN NoFields ELSE own[a]]
  <1>1. c \in Addr /\ Fresh \in Addr
    BY Names, FreshType DEF PctrlTypeOK, CtrlTypeOK, ChunkSetPieceHashes
  <1>2. <<Fresh>> \in Seq(Addr)
    BY <1>1
  <1>3. freed \in [Addr -> [Slots -> Seq(Addr)]]
    BY NoFieldsType DEF PctrlTypeOK, HeapTypeOK
  <1>4. own' = [freed EXCEPT ![c] = [@ EXCEPT !["piece_hashes"] = <<Fresh>>]]
    BY DEF ChunkSetPieceHashes
  <1>5. kind' \in [Addr -> Kinds \cup {"unused", "freed"}]
    BY DEF PctrlTypeOK, HeapTypeOK, ChunkSetPieceHashes, Kinds, Tx
  <1>6. home' \in [Addr -> Addr \cup {NULL}]
    BY <1>1 DEF PctrlTypeOK, HeapTypeOK, ChunkSetPieceHashes
  <1> HIDE DEF freed
  <1>7. own' \in [Addr -> [Slots -> Seq(Addr)]]
    BY <1>1, <1>2, <1>3, <1>4, Names
  <1> QED
    BY <1>5, <1>6, <1>7
    DEF PctrlTypeOK, HeapTypeOK, CtrlTypeOK, ChunkSetPieceHashes

LEMMA CommitSignatureType ==
  ASSUME PctrlTypeOK, CommitSignature
  PROVE  PctrlTypeOK'
  <1> DEFINE f == temp["file"]
             old == Trees(Range(own[f]["signature"]))
             freed == [a \in Addr |-> IF a \in old THEN NoFields ELSE own[a]]
  <1>1. f \in Addr /\ temp["signature"] \in Addr
    BY Names DEF PctrlTypeOK, CtrlTypeOK, CommitSignature
  <1>2. <<temp["signature"]>> \in Seq(Addr)
    BY <1>1
  <1>3. freed \in [Addr -> [Slots -> Seq(Addr)]]
    BY NoFieldsType DEF PctrlTypeOK, HeapTypeOK
  <1>4. own' = [freed EXCEPT ![f] = [@ EXCEPT !["signature"] = <<temp["signature"]>>]]
    BY DEF CommitSignature
  <1> HIDE DEF freed
  <1>5. own' \in [Addr -> [Slots -> Seq(Addr)]]
    BY <1>1, <1>2, <1>3, <1>4, Names
  <1>6. HeapTypeOK'
    BY <1>5 DEF PctrlTypeOK, HeapTypeOK, CommitSignature
  <1>7. CtrlTypeOK'
    BY Names DEF PctrlTypeOK, CtrlTypeOK, CommitSignature
  <1> QED
    BY <1>6, <1>7 DEF PctrlTypeOK

LEMMA AccumulateFilesType ==
  ASSUME PctrlTypeOK, AccumulateFiles \/ AccumulateFilesFails
  PROVE  PctrlTypeOK'
  <1>1. HeapTypeOK'
    BY DEF PctrlTypeOK, HeapTypeOK, AccumulateFiles, AccumulateFilesFails, heapVars
  <1>2. <<>> \in Seq(Addr)
    OBVIOUS
  <1>3. list' \in [Lists -> Seq(Addr)] /\ files' \in Seq(Addr)
    <2>1. CASE AccumulateFiles
      BY <1>2, <2>1, Names DEF PctrlTypeOK, CtrlTypeOK, AccumulateFiles
    <2>2. CASE AccumulateFilesFails
      BY <1>2, <2>2 DEF PctrlTypeOK, CtrlTypeOK, AccumulateFilesFails
    <2> QED
      BY <2>1, <2>2
  <1>4. temp' = temp /\ holder' = holder
    BY DEF AccumulateFiles, AccumulateFilesFails
  <1> QED
    BY <1>1, <1>3, <1>4 DEF PctrlTypeOK, CtrlTypeOK

LEMMA DeleteSessionType ==
  ASSUME PctrlTypeOK, NEW detach \in BOOLEAN, DeleteSession(detach)
  PROVE  PctrlTypeOK'
  <1>1. HeapTypeOK'
    BY FreeKeepsType DEF PctrlTypeOK, DeleteSession
  <1> QED
    BY <1>1 DEF PctrlTypeOK, CtrlTypeOK, DeleteSession

LEMMA AppDeleteType ==
  ASSUME PctrlTypeOK, AppDelete
  PROVE  PctrlTypeOK'
  <1>1. HeapTypeOK'
    BY FreeKeepsType DEF PctrlTypeOK, AppDelete
  <1> QED
    BY <1>1 DEF PctrlTypeOK, CtrlTypeOK, AppDelete

LEMMA PctrlUnchangedType ==
  ASSUME PctrlTypeOK, UNCHANGED pctrlVars
  PROVE  PctrlTypeOK'
  BY DEF PctrlTypeOK, HeapTypeOK, CtrlTypeOK, pctrlVars

-----------------------------------------------------------------------------
LEMMA PctrlInitType == PctrlInit => PctrlTypeOK
  BY NoFieldsType, UnrankedType
  DEF PctrlInit, PctrlTypeOK, HeapTypeOK, CtrlTypeOK

\* The functions of lib/metalink_pctrl.c, called in any order and with any
\* allocation failing, keep every pointer variable either NULL or an address
\* and every list and array free of NULL entries.
THEOREM PctrlTypeCorrect == PctrlSpec => []PctrlTypeOK
  <1>1. PctrlTypeOK /\ [PctrlNext]_pctrlVars => PctrlTypeOK'
    <2> SUFFICES ASSUME PctrlTypeOK, [PctrlNext]_pctrlVars
                 PROVE  PctrlTypeOK'
      OBVIOUS
    <2>1. CASE UNCHANGED pctrlVars
      BY <2>1, PctrlUnchangedType
    <2>2. ASSUME NEW k \in Tx, NEW p \in Priorities(k), NewTransaction(k, p)
          PROVE  PctrlTypeOK'
      BY <2>2, PrioritiesType, NewTransactionType
    <2>3. ASSUME NEW k \in Tx, NewTransactionFails(k)
          PROVE  PctrlTypeOK'
      BY <2>3, NewTransactionFailsType
    <2>4. ASSUME NEW k \in Items, CommitItem(k)
          PROVE  PctrlTypeOK'
      BY <2>4, CommitItemType
    <2>5. ASSUME NEW l \in StringLists, AddString(l)
          PROVE  PctrlTypeOK'
      BY <2>5, AddStringType
    <2>6. CASE AddStringAppendFails
      BY <2>6, AddStringAppendFailsType
    <2>7. ASSUME NEW fail \in CommitFailures, CommitFile(fail)
          PROVE  PctrlTypeOK'
      BY <2>7, CommitFileType
    <2>8. CASE CommitChunk \/ CommitChunkFails
      BY <2>8, CommitChunkType, CommitChunkFailsType
    <2>9. CASE CommitSignature
      BY <2>9, CommitSignatureType
    <2>10. CASE AccumulateFiles \/ AccumulateFilesFails
      BY <2>10, AccumulateFilesType
    <2>11. ASSUME NEW detach \in BOOLEAN, DeleteSession(detach)
           PROVE  PctrlTypeOK'
      BY <2>11, DeleteSessionType
    <2>12. CASE AppDelete
      BY <2>12, AppDeleteType
    <2>13. ASSUME NEW l \in StringLists, FileSetString(l) \/ FileSetStringFails(l)
           PROVE  PctrlTypeOK'
      BY <2>13, FileSetStringType, FileSetStringFailsType
    <2>14. CASE ChunkSetPieceHashes
      BY <2>14, ChunkSetPieceHashesType
    <2> QED
      BY <2>1, <2>2, <2>3, <2>4, <2>5, <2>6, <2>7, <2>8, <2>9, <2>10, <2>11, <2>12, <2>13, <2>14
      DEF PctrlNext
  <1> QED
    BY <1>1, PctrlInitType, PTL DEF PctrlSpec

-----------------------------------------------------------------------------
(***************************************************************************)
(* Ownership in the transaction layer, for any set of addresses and        *)
(* priorities: no object is held in two places, nothing that is held was   *)
(* freed or is of another kind than its holder's destructor expects, and a *)
(* committed file stays sorted.                                            *)
(*                                                                         *)
(* The places that hold a pointer are the members of the control block, of *)
(* which files is one, and the fields of objects.  Holds(in, at, x) says   *)
(* that place `at` of `in` holds x; in is NULL for the control block.  The *)
(* invariant relates whole places, so that an operation is described by    *)
(* where what a place holds after it was held before.                      *)
(***************************************************************************)
Owners == Addr \cup {NULL}

Spots == Lists \cup Tx \cup Slots \cup {"metalink"}

Holds(in, at, x) ==
  \/ in = NULL /\ at \in Lists /\ x \in Range(list[at])
  \/ in = NULL /\ at \in Tx /\ x = temp[at]
  \/ in = NULL /\ at = "metalink" /\ x \in Range(files)
  \/ in \in Addr /\ at \in Slots /\ x \in Range(own[in][at])

\* Only files and chunk checksums have fields that point, and a chunk checksum
\* only points to piece hashes: the destructors need not look deeper than Tree.
Shape ==
  \A a \in Addr :
    /\ kind[a] \notin {"file", "chunk"} => own[a] = NoFields
    /\ kind[a] = "file" => own[a]["piece_hashes"] = <<>>
    /\ kind[a] = "chunk" => \A s \in Slots \ {"piece_hashes"} : own[a][s] = <<>>

\* No object is held in two places ...
Alone ==
  \A in, jn \in Owners, at, bt \in Spots, x \in Addr :
    Holds(in, at, x) /\ Holds(jn, bt, x) => in = jn /\ at = bt

\* ... or twice in one.
Once ==
  /\ \A l \in Lists : IsInjective(list[l])
  /\ IsInjective(files)
  /\ \A a \in Addr, s \in Slots : IsInjective(own[a][s])

RightKind ==
  \A in \in Owners, at \in Spots, x \in Addr : Holds(in, at, x) => kind[x] = KindAt(at)

\* The inductive invariant.
Ownership == PctrlTypeOK /\ Shape /\ Alone /\ Once /\ RightKind

-----------------------------------------------------------------------------
(***************************************************************************)
(* Sequences and names.                                                    *)
(***************************************************************************)
LEMMA RangeEmpty == Range(<<>>) = {} /\ IsInjective(<<>>)
  BY DEF Range, IsInjective

LEMMA RangeOne == ASSUME NEW x PROVE Range(<<x>>) = {x} /\ IsInjective(<<x>>)
  BY DEF Range, IsInjective

LEMMA RangeInSet == ASSUME NEW S, NEW t \in Seq(S) PROVE Range(t) \subseteq S
  <1>1. DOMAIN t = 1..Len(t) /\ \A i \in 1..Len(t) : t[i] \in S
    BY LenProperties, ElementOfSeq
  <1> QED
    BY <1>1 DEF Range

LEMMA RangeAppend ==
  ASSUME NEW S, NEW t \in Seq(S), NEW x \in S
  PROVE  /\ Range(Append(t, x)) = Range(t) \cup {x}
         /\ IsInjective(t) /\ x \notin Range(t) => IsInjective(Append(t, x))
  <1> DEFINE u == Append(t, x)
  <1>1. /\ DOMAIN t = 1..Len(t) /\ Len(t) \in Nat
        /\ DOMAIN u = 1..Len(t) + 1
        /\ \A i \in 1..Len(t) : u[i] = t[i]
        /\ u[Len(t) + 1] = x
    BY AppendProperties, LenProperties
  <1> HIDE DEF u
  <1>2. Range(u) = Range(t) \cup {x}
    BY <1>1 DEF Range
  <1>3. ASSUME IsInjective(t), x \notin Range(t) PROVE IsInjective(u)
    BY <1>1, <1>3 DEF Range, IsInjective
  <1> QED
    BY <1>2, <1>3 DEF u

\* Sorting an array changes neither what is in it nor how often.
LEMMA ArrangementsRange ==
  ASSUME NEW t \in Seq(Addr), NEW u \in Arrangements(t)
  PROVE  /\ Range(u) = Range(t)
         /\ IsInjective(t) => IsInjective(u)
         /\ Sorted(u)
  <1>1. PICK q \in Bijection(DOMAIN t, DOMAIN t) :
          u = [i \in DOMAIN t |-> t[q[i]]]
    BY DEF Arrangements
  <1>2. /\ q \in [DOMAIN t -> DOMAIN t]
        /\ IsInjective(q)
        /\ \A j \in DOMAIN t : \E i \in DOMAIN t : q[i] = j
    BY <1>1 DEF Bijection, Injection, Surjection
  <1>3. Range(u) = Range(t)
    BY <1>1, <1>2 DEF Range
  <1>4. IsInjective(t) => IsInjective(u)
    BY <1>1, <1>2 DEF IsInjective
  <1>5. Sorted(u)
    BY DEF Arrangements
  <1> QED
    BY <1>3, <1>4, <1>5

LEMMA KindOfPlace ==
  /\ \A k \in Tx : KindAt(k) = k
  /\ \A l \in StringLists : KindAt(l) = "string"
  /\ KindAt("files") = "file"
  /\ KindAt("metalink") = "file"
  /\ KindAt("chunk_checksum") = "chunk"
  /\ \A k \in Items : KindAt(ListOf[k]) = k
  /\ \A at \in Spots : KindAt(at) \in Kinds
  /\ \A s \in Slots : KindAt(s) # "file"
  /\ \A s \in Slots : KindAt(s) = "chunk" => s = "chunk_checksum"
  /\ KindAt("piece_hashes") = "piece_hash"
  /\ KindAt("signature") = "signature"
  <1>0. Items = {"resource", "metaurl", "checksum", "piece_hash"}
    BY DEF Items, ListOf
  <1>1. /\ \A k \in Tx : KindAt(k) = k
        /\ \A l \in StringLists : KindAt(l) = "string"
        /\ KindAt("files") = "file"
        /\ KindAt("metalink") = "file"
        /\ KindAt("chunk_checksum") = "chunk"
    BY DEF KindAt, Tx, StringLists
  <1>2. ASSUME NEW k \in Items PROVE KindAt(ListOf[k]) = k
    <2>1. ListOf[k] \notin Tx \cup StringLists \cup {"files", "metalink", "chunk_checksum"}
      BY <1>0 DEF ListOf, Tx, StringLists
    <2>2. \A j \in Items : ListOf[j] = ListOf[k] => j = k
      BY <1>0 DEF ListOf
    <2> QED
      BY <2>1, <2>2 DEF KindAt
  <1>3. /\ KindAt("resources") = "resource"
        /\ KindAt("metaurls") = "metaurl"
        /\ KindAt("checksums") = "checksum"
        /\ KindAt("piece_hashes") = "piece_hash"
    BY <1>0, <1>2 DEF ListOf
  <1>4. Spots = Tx \cup {"languages", "oses", "resources", "metaurls", "checksums",
                         "files", "piece_hashes", "chunk_checksum", "metalink"}
    BY Names DEF Spots, Lists, Slots, Tx
  <1>5. Slots = {"languages", "oses", "resources", "metaurls", "checksums",
                 "chunk_checksum", "signature", "piece_hashes"}
    BY Names DEF Slots
  <1> QED
    BY <1>1, <1>2, <1>3, <1>4, <1>5 DEF Tx, Kinds, StringLists

-----------------------------------------------------------------------------
(***************************************************************************)
(* Freeing.                                                                *)
(***************************************************************************)
LEMMA FieldsHeld ==
  ASSUME NEW a \in Addr, NEW x
  PROVE  x \in Fields(a) <=> \E s \in Slots : Holds(a, s, x)
  BY NullNotAddr DEF Fields, Holds

LEMMA FieldsAddr ==
  ASSUME PctrlTypeOK, NEW a \in Addr PROVE Fields(a) \subseteq Addr
  BY RangeInSet DEF PctrlTypeOK, HeapTypeOK, Fields

\* What is in a tree points to nothing outside it.
LEMMA TreeClosed ==
  ASSUME Ownership, NEW S \in SUBSET Addr, NEW a \in Trees(S), NEW x \in Fields(a)
  PROVE  a \in Addr /\ x \in Addr /\ x \in Trees(S)
  <1>1. PICK r \in S : a \in Tree(r)
    BY DEF Trees
  <1>2. CASE a = r
    BY <1>1, <1>2, FieldsAddr DEF Trees, Tree, Ownership
  <1>3. CASE a \in Fields(r)
    BY <1>1, <1>3, FieldsAddr DEF Trees, Tree, Ownership
  <1>4. ASSUME NEW b \in Fields(r), a \in Fields(b)
        PROVE  FALSE
    <2>1. r \in Addr /\ b \in Addr /\ a \in Addr
      BY <1>4, FieldsAddr DEF Ownership
    <2>2. PICK s \in Slots : Holds(r, s, b)
      BY <2>1, FieldsHeld
    <2>3. kind[b] # "file"
      BY <2>1, <2>2, KindOfPlace DEF Ownership, RightKind, Owners, Spots
    <2>4. PICK t \in Slots : Holds(b, t, a) /\ a \in Range(own[b][t])
      BY <1>4, <2>1, FieldsHeld, NullNotAddr DEF Holds
    <2>5. own[b][t] # <<>>
      BY <2>4, RangeEmpty
    <2>6. t = "piece_hashes"
      BY <2>1, <2>3, <2>5 DEF Ownership, Shape, NoFields
    <2>7. kind[a] = "piece_hash"
      BY <2>1, <2>4, <2>6, KindOfPlace DEF Ownership, RightKind, Owners, Spots
    <2>8. own[a] = NoFields
      BY <2>1, <2>7 DEF Ownership, Shape
    <2> QED
      BY <2>8, RangeEmpty DEF Fields, NoFields
  <1> QED
    BY <1>1, <1>2, <1>3, <1>4 DEF Tree

LEMMA TreesAddr ==
  ASSUME PctrlTypeOK, NEW S \in SUBSET Addr PROVE Trees(S) \subseteq Addr /\ S \subseteq Trees(S)
  <1>1. ASSUME NEW r \in S PROVE Tree(r) \subseteq Addr /\ r \in Tree(r)
    BY FieldsAddr DEF Tree
  <1> QED
    BY <1>1 DEF Trees

\* An object that is freed although its holder is not is one the destructors
\* were called for.
LEMMA FreedIsRoot ==
  ASSUME Ownership, NEW S \in SUBSET Addr, NEW x \in Trees(S),
         NEW in \in Owners, NEW at \in Spots, Holds(in, at, x), in \notin Trees(S)
  PROVE  x \in S
  <1>1. SUFFICES ASSUME x \notin S PROVE FALSE
    OBVIOUS
  <1>2. PICK a \in Trees(S) : x \in Fields(a)
    <2>1. PICK r \in S : x \in Tree(r)
      BY DEF Trees
    <2>2. CASE x \in Fields(r)
      BY <2>2 DEF Trees, Tree
    <2>3. ASSUME NEW b \in Fields(r), x \in Fields(b)
          PROVE  \E a \in Trees(S) : x \in Fields(a)
      BY <2>3 DEF Trees, Tree
    <2> QED
      BY <1>1, <2>1, <2>2, <2>3 DEF Tree
  <1>3. a \in Addr /\ x \in Addr
    BY <1>2, TreesAddr DEF Ownership
  <1>4. PICK s \in Slots : Holds(a, s, x)
    BY <1>2, <1>3, FieldsHeld
  <1>5. in = a
    BY <1>3, <1>4 DEF Ownership, Alone, Owners, Spots
  <1> QED
    BY <1>2, <1>5

\* What is held is allocated, so it is not what the allocator returns.
LEMMA HeldIsLive ==
  ASSUME Ownership, NEW in \in Owners, NEW at \in Spots, NEW x \in Addr, Holds(in, at, x)
  PROVE  kind[x] \in Kinds /\ kind[x] \notin {"unused", "freed"}
  BY KindOfPlace DEF Ownership, RightKind, Kinds, Tx

LEMMA FreshFree ==
  ASSUME Ownership, HeapRoom, NEW in \in Owners, NEW at \in Spots
  PROVE  ~Holds(in, at, Fresh) /\ own[Fresh] = NoFields
  BY FreshType, HeldIsLive DEF Ownership, Shape

-----------------------------------------------------------------------------
(***************************************************************************)
(* Moving.  Came(in, at, x) says that x was held at this place before and  *)
(* is still what it was; the operations differ in the few places for which *)
(* this is not so.                                                         *)
(***************************************************************************)
Came(in, at, x) == Holds(in, at, x) /\ kind'[x] = kind[x]

\* An operation that moves nothing, and may put a new object at one place.
LEMMA NothingMoves ==
  ASSUME Ownership, NEW in0, NEW at0, NEW new,
         \A in \in Owners, at \in Spots, x \in Addr :
           Holds(in, at, x)' =>
             \/ Came(in, at, x)
             \/ /\ in = in0 /\ at = at0 /\ x = new
                /\ kind[new] = "unused" /\ kind'[new] = KindAt(at0)
  PROVE  Alone' /\ RightKind'
  <1>1. \A in \in Owners, at \in Spots, x \in Addr : Came(in, at, x) => kind[x] # "unused"
    BY HeldIsLive DEF Came
  <1>2. Alone'
    BY <1>1 DEF Ownership, Alone, Came, Owners, Spots
  <1>3. RightKind'
    BY DEF Ownership, RightKind, Came, Owners, Spots
  <1> QED
    BY <1>2, <1>3

-----------------------------------------------------------------------------
(***************************************************************************)
(* The operations on transactions and on the lists of strings.             *)
(***************************************************************************)
\* Places of the control block are told apart by their names.
LEMMA Apart ==
  /\ Lists \cap Tx = {}
  /\ "metalink" \notin Lists \cup Tx
  /\ \A k \in Tx : Cleared(k) \subseteq FileLists \cup {"piece_hashes"}
  /\ \A k \in Tx : Cleared(k) \subseteq Lists
  BY Names DEF Lists, Tx, Cleared

\* What a call of the destructors leaves is not freed: S was held at the
\* spots R of o, which what is left does not include.
LEMMA LeftIsNotFreed ==
  ASSUME Ownership, NEW S \in SUBSET Addr, NEW R \in SUBSET Spots, NEW o \in Owners,
         \A y \in S : \E r \in R : Holds(o, r, y),
         NEW in \in Owners, NEW at \in Spots, NEW x \in Addr, Holds(in, at, x),
         in \notin Trees(S), in = o => at \notin R
  PROVE  x \notin Trees(S)
  <1>1. SUFFICES ASSUME x \in Trees(S) PROVE FALSE
    OBVIOUS
  <1>2. x \in S
    BY <1>1, FreedIsRoot
  <1>3. PICK r \in R : Holds(o, r, x)
    BY <1>2
  <1> QED
    BY <1>3 DEF Ownership, Alone

\* What metalink_pctrl_new_<k>_transaction frees ...
DroppedRoots(k) == Open(k) \cup UNION {Range(list[l]) : l \in Cleared(k) \ StringLists}

LEMMA DroppedRootsHeld ==
  ASSUME PctrlTypeOK, NEW k \in Tx
  PROVE  /\ DroppedRoots(k) \in SUBSET Addr
         /\ Dropped(k) = Trees(DroppedRoots(k))
         /\ Dropped(k) \subseteq Addr
         /\ \A y \in DroppedRoots(k) : \E r \in {k} \cup Cleared(k) : Holds(NULL, r, y)
  <1>1. \A l \in Cleared(k) : l \in Lists /\ Range(list[l]) \subseteq Addr
    BY Apart, RangeInSet DEF PctrlTypeOK, CtrlTypeOK
  <1>2. Open(k) \subseteq Addr /\ \A y \in Open(k) : Holds(NULL, k, y)
    BY DEF Open, Holds, PctrlTypeOK, CtrlTypeOK
  <1>3. DroppedRoots(k) \in SUBSET Addr
    BY <1>1, <1>2 DEF DroppedRoots
  <1>4. \A y \in DroppedRoots(k) : \E r \in {k} \cup Cleared(k) : Holds(NULL, r, y)
    BY <1>1, <1>2 DEF DroppedRoots, Holds
  <1>5. Dropped(k) = Trees(DroppedRoots(k))
    BY DEF Dropped, DroppedRoots
  <1> QED
    BY <1>3, <1>4, <1>5, TreesAddr

\* ... and what is left of the places after it: none of it was freed.
LEMMA DroppedIsGone ==
  ASSUME Ownership, NEW k \in Tx, NEW in \in Owners, NEW at \in Spots, NEW x \in Addr,
         Holds(in, at, x), in \notin Dropped(k), in = NULL => at # k /\ at \notin Cleared(k)
  PROVE  x \notin Dropped(k)
  <1> DEFINE S == DroppedRoots(k)
             R == {k} \cup Cleared(k)
  <1>1. R \in SUBSET Spots
    BY Apart DEF Spots
  <1>2. S \in SUBSET Addr /\ Dropped(k) = Trees(S) /\ \A y \in S : \E r \in R : Holds(NULL, r, y)
    BY DroppedRootsHeld DEF Ownership
  <1>3. NULL \in Owners /\ (in = NULL => at \notin R)
    BY DEF Owners
  <1> HIDE DEF S, R
  <1> QED
    BY <1>1, <1>2, <1>3, LeftIsNotFreed

\* Freeing and allocating leave an object its fields or empty ones.
LEMMA ShapeKept ==
  ASSUME Ownership,
         \A a \in Addr : own'[a] = NoFields \/ (own'[a] = own[a] /\ kind'[a] = kind[a])
  PROVE  Shape' /\ \A a \in Addr, s \in Slots : IsInjective(own'[a][s])
  <1>0. (\A s \in Slots : NoFields[s] = <<>>) /\ "piece_hashes" \in Slots
    BY Names DEF NoFields
  <1>1. ASSUME NEW a \in Addr
        PROVE  /\ kind'[a] \notin {"file", "chunk"} => own'[a] = NoFields
               /\ kind'[a] = "file" => own'[a]["piece_hashes"] = <<>>
               /\ kind'[a] = "chunk" => \A s \in Slots \ {"piece_hashes"} : own'[a][s] = <<>>
    <2>1. CASE own'[a] = NoFields
      BY <1>0, <2>1
    <2>2. CASE own'[a] = own[a] /\ kind'[a] = kind[a]
      BY <2>2 DEF Ownership, Shape
    <2> QED
      BY <2>1, <2>2
  <1>2. \A a \in Addr, s \in Slots : IsInjective(own'[a][s])
    BY RangeEmpty DEF Ownership, Once, NoFields
  <1> QED
    BY <1>1, <1>2 DEF Shape

LEMMA NewTransactionOwns ==
  ASSUME Ownership, NEW k \in Tx, NEW p \in Prio, NewTransaction(k, p)
  PROVE  Ownership'
  <1>0. HeapRoom /\ Fresh \in Addr /\ kind[Fresh] = "unused" /\ Fresh # NULL
    BY FreshType, NullNotAddr DEF NewTransaction, FreeAndAlloc
  <1>1. PctrlTypeOK'
    BY NewTransactionType DEF Ownership
  <1>2. \A a \in Addr : own'[a] = NoFields \/ (own'[a] = own[a] /\ kind'[a] = kind[a])
    <2>1. own[Fresh] = NoFields
      BY <1>0 DEF Ownership, Shape
    <2> QED
      BY <2>1 DEF NewTransaction, FreeAndAlloc
  <1>3. Shape' /\ Once'
    BY <1>2, ShapeKept, RangeEmpty DEF Ownership, Once, NewTransaction
  <1>4. ASSUME NEW in \in Owners, NEW at \in Spots, NEW x \in Addr, Holds(in, at, x)'
        PROVE  \/ Came(in, at, x)
               \/ /\ in = NULL /\ at = k /\ x = Fresh
                  /\ kind[Fresh] = "unused" /\ kind'[Fresh] = KindAt(k)
    <2>1. \/ in = NULL /\ at = k /\ x = Fresh
          \/ Holds(in, at, x) /\ in \notin Dropped(k) /\ (in = NULL => at # k /\ at \notin Cleared(k))
      <3>1. CASE in = NULL
        BY <1>4, <3>1, Apart, RangeEmpty, NullNotAddr, DroppedRootsHeld
        DEF Holds, NewTransaction, Ownership, PctrlTypeOK, CtrlTypeOK
      <3>2. CASE in \in Addr
        BY <1>4, <3>2, RangeEmpty, NullNotAddr DEF Holds, NewTransaction, FreeAndAlloc, NoFields
      <3> QED
        BY <3>1, <3>2 DEF Owners
    <2>2. CASE in = NULL /\ at = k /\ x = Fresh
      BY <1>0, <2>2, KindOfPlace DEF NewTransaction, FreeAndAlloc
    <2>3. CASE Holds(in, at, x) /\ in \notin Dropped(k) /\ (in = NULL => at # k /\ at \notin Cleared(k))
      <3>1. x \notin Dropped(k) /\ x # Fresh
        BY <1>0, <2>3, DroppedIsGone, FreshFree
      <3> QED
        BY <2>3, <3>1 DEF Came, NewTransaction, FreeAndAlloc
    <2> QED
      BY <2>1, <2>2, <2>3
  <1>5. Alone' /\ RightKind'
    BY <1>4, NothingMoves
  <1> QED
    BY <1>1, <1>3, <1>5 DEF Ownership

LEMMA NewTransactionFailsOwns ==
  ASSUME Ownership, NEW k \in Tx, NewTransactionFails(k)
  PROVE  Ownership'
  <1>1. PctrlTypeOK'
    BY NewTransactionFailsType DEF Ownership
  <1>2. \A a \in Addr : own'[a] = NoFields \/ (own'[a] = own[a] /\ kind'[a] = kind[a])
    BY DEF NewTransactionFails, Free
  <1>3. Shape' /\ Once'
    BY <1>2, ShapeKept, RangeEmpty DEF Ownership, Once, NewTransactionFails
  <1>4. ASSUME NEW in \in Owners, NEW at \in Spots, NEW x \in Addr, Holds(in, at, x)'
        PROVE  Came(in, at, x)
    <2>1. Holds(in, at, x) /\ in \notin Dropped(k) /\ (in = NULL => at # k /\ at \notin Cleared(k))
      <3>1. CASE in = NULL
        BY <1>4, <3>1, Apart, RangeEmpty, NullNotAddr, DroppedRootsHeld
        DEF Holds, NewTransactionFails, Ownership, PctrlTypeOK, CtrlTypeOK
      <3>2. CASE in \in Addr
        BY <1>4, <3>2, RangeEmpty, NullNotAddr DEF Holds, NewTransactionFails, Free, NoFields
      <3> QED
        BY <3>1, <3>2 DEF Owners
    <2>2. x \notin Dropped(k)
      BY <2>1, DroppedIsGone
    <2> QED
      BY <2>1, <2>2 DEF Came, NewTransactionFails, Free
  <1>5. Alone' /\ RightKind'
    BY <1>4, NothingMoves
  <1> QED
    BY <1>1, <1>3, <1>5 DEF Ownership

\* An operation that moves what member s of the control block holds to the place
\* dest[s] of to[s], for each s at once.
LEMMA PlacesMove ==
  ASSUME Ownership, NEW to \in [Spots -> Owners], NEW dest \in [Spots -> Spots],
         \A s \in Spots : KindAt(dest[s]) = KindAt(s),
         \A in \in Owners, at \in Spots, x \in Addr :
           Holds(in, at, x)' =>
             \/ in # NULL /\ Came(in, at, x)
             \/ \E s \in Spots : Came(NULL, s, x) /\ to[s] = in /\ dest[s] = at
  PROVE  Alone' /\ RightKind'
  <1>0. NULL \in Owners
    BY DEF Owners
  <1>1. Alone'
    <2> SUFFICES ASSUME NEW in \in Owners, NEW jn \in Owners, NEW at \in Spots, NEW bt \in Spots,
                        NEW x \in Addr, Holds(in, at, x)', Holds(jn, bt, x)'
                 PROVE  in = jn /\ at = bt
      BY DEF Alone, Owners, Spots
    <2>1. CASE Came(in, at, x) /\ in # NULL
      <3>1. ASSUME NEW s \in Spots, Came(NULL, s, x) PROVE FALSE
        BY <1>0, <2>1, <3>1 DEF Came, Ownership, Alone
      <3>2. Came(jn, bt, x)
        BY <3>1
      <3> QED
        BY <2>1, <3>2 DEF Came, Ownership, Alone
    <2>2. ASSUME NEW s \in Spots, Came(NULL, s, x), to[s] = in, dest[s] = at
          PROVE  in = jn /\ at = bt
      <3>1. PICK t \in Spots : Came(NULL, t, x) /\ to[t] = jn /\ dest[t] = bt
        <4>1. Came(jn, bt, x) => jn = NULL
          BY <1>0, <2>2 DEF Came, Ownership, Alone
        <4> QED
          BY <4>1
      <3>2. t = s
        BY <1>0, <2>2, <3>1 DEF Came, Ownership, Alone
      <3> QED
        BY <2>2, <3>1, <3>2
    <2> QED
      BY <2>1, <2>2
  <1>2. RightKind'
    <2>1. ASSUME NEW in \in Owners, NEW at \in Spots, NEW x \in Addr, Holds(in, at, x)'
          PROVE  kind'[x] = KindAt(at)
      <3>1. CASE Came(in, at, x)
        BY <3>1 DEF Came, Ownership, RightKind
      <3>2. ASSUME NEW s \in Spots, Came(NULL, s, x), dest[s] = at
            PROVE  kind'[x] = KindAt(at)
        BY <1>0, <3>2 DEF Came, Ownership, RightKind
      <3> QED
        BY <2>1, <3>1, <3>2
    <2> QED
      BY <2>1 DEF RightKind, Owners, Spots
  <1> QED
    BY <1>1, <1>2

LEMMA CommitItemOwns ==
  ASSUME Ownership, NEW k \in Items, CommitItem(k)
  PROVE  Ownership'
  <1> DEFINE l == ListOf[k]
             to == [s \in Spots |-> NULL]
             dest == [s \in Spots |-> IF s = k THEN l ELSE s]
  <1>0. /\ k \in Tx /\ l \in Lists /\ l # k
        /\ temp[k] \in Addr /\ list[l] \in Seq(Addr)
        /\ KindAt(l) = KindAt(k)
    <2>1. k \in Tx /\ l \in Lists
      BY Names
    <2>2. temp[k] \in Addr /\ list[l] \in Seq(Addr)
      BY <2>1 DEF CommitItem, Ownership, PctrlTypeOK, CtrlTypeOK
    <2>3. KindAt(l) = k /\ KindAt(k) = k
      BY <2>1, KindOfPlace
    <2> QED
      BY <2>1, <2>2, <2>3, Apart
  <1>1. PctrlTypeOK'
    BY CommitItemType DEF Ownership
  <1>2. Shape'
    BY DEF Ownership, Shape, CommitItem, heapVars
  <1>3. Once'
    <2>1. temp[k] \notin Range(list[l])
      BY <1>0 DEF Ownership, Alone, Holds, Owners, Spots
    <2>2. IsInjective(Append(list[l], temp[k]))
      BY <1>0, <2>1, RangeAppend DEF Ownership, Once
    <2> QED
      BY <1>0, <2>2 DEF Ownership, Once, CommitItem, heapVars, PctrlTypeOK, CtrlTypeOK
  <1>4. ASSUME NEW in \in Owners, NEW at \in Spots, NEW x \in Addr, Holds(in, at, x)'
        PROVE  \/ in # NULL /\ Came(in, at, x)
               \/ \E s \in Spots : Came(NULL, s, x) /\ to[s] = in /\ dest[s] = at
    <2>1. CASE in = NULL /\ at \in Lists
      <3>1. CASE at = l
        <4>1. x \in Range(list[l]) \/ x = temp[k]
          BY <1>0, <1>4, <2>1, <3>1, RangeAppend, NullNotAddr, Apart
          DEF Holds, CommitItem, Ownership, PctrlTypeOK, CtrlTypeOK
        <4>2. Came(NULL, l, x) \/ Came(NULL, k, x)
          BY <1>0, <4>1 DEF Came, Holds, CommitItem, heapVars
        <4> QED
          BY <1>0, <2>1, <3>1, <4>2 DEF Spots
      <3>2. CASE at # l
        <4>1. Came(NULL, at, x) /\ at # k
          BY <1>0, <1>4, <2>1, <3>2, NullNotAddr, Apart
          DEF Came, Holds, CommitItem, heapVars, Ownership, PctrlTypeOK, CtrlTypeOK
        <4> QED
          BY <2>1, <4>1
      <3> QED
        BY <3>1, <3>2
    <2>2. CASE in = NULL /\ at \notin Lists
      <3>1. Came(NULL, at, x) /\ at # k
        BY <1>0, <1>4, <2>2, NullNotAddr, Apart
        DEF Came, Holds, CommitItem, heapVars, Ownership, PctrlTypeOK, CtrlTypeOK
      <3> QED
        BY <2>2, <3>1
    <2>3. CASE in \in Addr
      BY <1>4, <2>3, NullNotAddr DEF Came, Holds, CommitItem, heapVars
    <2> QED
      BY <2>1, <2>2, <2>3 DEF Owners
  <1>5. Alone' /\ RightKind'
    <2>1. \A s \in Spots : KindAt(dest[s]) = KindAt(s)
      BY <1>0
    <2>2. to \in [Spots -> Owners] /\ dest \in [Spots -> Spots]
      BY <1>0 DEF Spots, Owners
    <2> HIDE DEF to, dest
    <2> QED
      BY <1>4, <2>1, <2>2, PlacesMove
  <1> QED
    BY <1>1, <1>2, <1>3, <1>5 DEF Ownership

\* A copy is made for member l of the control block, or is lost.
LEMMA CopyOwns ==
  ASSUME Ownership, PctrlTypeOK', NEW l \in StringLists, NEW h,
         FreeAndAlloc({}, "string", Unranked, h) \/ UNCHANGED heapVars,
         UNCHANGED <<temp, files>>,
         list' \in [Lists -> Seq(Addr)],
         \A m \in Lists \ {l} : list'[m] = list[m],
         \/ list'[l] \in {list[l], <<>>}
         \/ /\ FreeAndAlloc({}, "string", Unranked, h)
            /\ list'[l] \in {Append(list[l], Fresh), <<Fresh>>}
  PROVE  Ownership'
  <1>0. l \in Lists /\ list[l] \in Seq(Addr) /\ KindAt(l) = "string"
    BY Names, KindOfPlace DEF Ownership, PctrlTypeOK, CtrlTypeOK
  <1>a. ASSUME FreeAndAlloc({}, "string", Unranked, h)
        PROVE  /\ Fresh \in Addr /\ kind[Fresh] = "unused" /\ own[Fresh] = NoFields
               /\ kind'[Fresh] = "string"
               /\ Fresh \notin Range(list[l])
               /\ \A a \in Addr : own'[a] = own[a]
               /\ \A a \in Addr : a # Fresh => kind'[a] = kind[a]
    <2>1. HeapRoom /\ Fresh \in Addr /\ kind[Fresh] = "unused"
      BY <1>a, FreshType DEF FreeAndAlloc
    <2>2. own[Fresh] = NoFields
      BY <2>1 DEF Ownership, Shape
    <2>3. Fresh \notin Range(list[l])
      BY <1>0, <2>1, FreshFree DEF Holds, Owners, Spots
    <2> QED
      BY <1>a, <2>1, <2>2, <2>3 DEF FreeAndAlloc
  <1>2. \A a \in Addr : own'[a] = NoFields \/ (own'[a] = own[a] /\ kind'[a] = kind[a])
    BY <1>a DEF heapVars
  <1>3. Shape' /\ Once'
    <2>1. IsInjective(list'[l])
      <3>1. IsInjective(list[l]) /\ IsInjective(<<>>) /\ IsInjective(<<Fresh>>)
        BY <1>0, RangeEmpty, RangeOne DEF Ownership, Once
      <3>2. FreeAndAlloc({}, "string", Unranked, h) => IsInjective(Append(list[l], Fresh))
        BY <1>0, <1>a, <3>1, RangeAppend
      <3> QED
        BY <3>1, <3>2
    <2> QED
      BY <1>2, <2>1, ShapeKept DEF Ownership, Once
  <1>4. ASSUME NEW in \in Owners, NEW at \in Spots, NEW x \in Addr, Holds(in, at, x)'
        PROVE  \/ Came(in, at, x)
               \/ /\ in = NULL /\ at = l /\ x = Fresh
                  /\ kind[Fresh] = "unused" /\ kind'[Fresh] = KindAt(l)
    <2>1. \/ Holds(in, at, x)
          \/ in = NULL /\ at = l /\ x = Fresh /\ FreeAndAlloc({}, "string", Unranked, h)
      <3>1. CASE in = NULL /\ at = l
        <4>1. x \in Range(list'[l])
          BY <1>0, <1>4, <3>1, Apart, NullNotAddr DEF Holds
        <4>2. \/ x \in Range(list[l])
              \/ x = Fresh /\ FreeAndAlloc({}, "string", Unranked, h)
          <5>1. Range(<<>>) = {} /\ Range(<<Fresh>>) = {Fresh}
            BY RangeEmpty, RangeOne
          <5>2. FreeAndAlloc({}, "string", Unranked, h) =>
                  Range(Append(list[l], Fresh)) = Range(list[l]) \cup {Fresh}
            BY <1>0, <1>a, RangeAppend
          <5> QED
            BY <4>1, <5>1, <5>2
        <4> QED
          BY <1>0, <3>1, <4>2 DEF Holds
      <3>2. CASE ~(in = NULL /\ at = l)
        BY <1>4, <1>a, <3>2 DEF Holds, heapVars
      <3> QED
        BY <3>1, <3>2
    <2>2. ASSUME Holds(in, at, x) PROVE x = Fresh => ~FreeAndAlloc({}, "string", Unranked, h)
      BY <1>a, <2>2, HeldIsLive
    <2> QED
      BY <1>0, <1>a, <2>1, <2>2 DEF Came, heapVars
  <1>5. \A in \in Owners, at \in Spots, x \in Addr :
          Holds(in, at, x)' =>
            \/ Came(in, at, x)
            \/ /\ in = NULL /\ at = l /\ x = Fresh
               /\ kind[Fresh] = "unused" /\ kind'[Fresh] = KindAt(l)
    BY <1>4
  <1>6. Alone' /\ RightKind'
    BY <1>5, NothingMoves, SMTT(30)
  <1> QED
    BY <1>3, <1>6 DEF Ownership

LEMMA StringsOwn ==
  ASSUME Ownership, NEW l \in StringLists,
         AddString(l) \/ AddStringAppendFails \/ FileSetString(l) \/ FileSetStringFails(l)
  PROVE  Ownership'
  <1>1. PctrlTypeOK'
    BY AddStringType, AddStringAppendFailsType, FileSetStringType, FileSetStringFailsType
    DEF Ownership
  <1>2. list \in [Lists -> Seq(Addr)] /\ list' \in [Lists -> Seq(Addr)] /\ l \in Lists
    BY <1>1, Names DEF Ownership, PctrlTypeOK, CtrlTypeOK
  <1>3. CASE AddString(l)
    BY <1>1, <1>2, <1>3, CopyOwns DEF AddString
  <1>4. CASE AddStringAppendFails
    BY <1>1, <1>2, <1>4, CopyOwns DEF AddStringAppendFails
  <1>5. CASE FileSetString(l)
    BY <1>1, <1>2, <1>5, CopyOwns DEF FileSetString
  <1>6. CASE FileSetStringFails(l)
    BY <1>1, <1>2, <1>6, CopyOwns DEF FileSetStringFails
  <1> QED
    BY <1>3, <1>4, <1>5, <1>6

-----------------------------------------------------------------------------
(***************************************************************************)
(* The commits that fill the fields of an object.                          *)
(***************************************************************************)
\* The object of an open transaction is of its kind.
LEMMA OpenIsHeld ==
  ASSUME Ownership, NEW k \in Tx, temp[k] # NULL
  PROVE  /\ temp[k] \in Addr
         /\ Holds(NULL, k, temp[k])
         /\ kind[temp[k]] = k
  <1>1. temp[k] \in Addr
    BY DEF Ownership, PctrlTypeOK, CtrlTypeOK
  <1>2. Holds(NULL, k, temp[k])
    BY DEF Holds
  <1> QED
    BY <1>1, <1>2, KindOfPlace DEF Ownership, RightKind, Owners, Spots

\* What an array is filled with is what the list, or else the array, held.
LEMMA MovedRange ==
  ASSUME Ownership, NEW a \in Addr, NEW s \in FileLists,
         NEW r \in Arrangements(Collected(a, "resources")),
         NEW m \in Arrangements(Collected(a, "metaurls"))
  PROVE  /\ Range(Moved(a, s, r, m)) = Range(Collected(a, s))
         /\ IsInjective(Moved(a, s, r, m))
  <1>1. \A l \in FileLists : Collected(a, l) \in Seq(Addr) /\ IsInjective(Collected(a, l))
    BY Names, CollectedType DEF Ownership, Once, Collected
  <1>2. /\ Range(r) = Range(Collected(a, "resources")) /\ IsInjective(r)
        /\ Range(m) = Range(Collected(a, "metaurls")) /\ IsInjective(m)
    BY <1>1, Names, ArrangementsRange
  <1> QED
    BY <1>1, <1>2 DEF Moved

\* What committing a file does to its fields.
LEMMA CommitFileFields ==
  ASSUME Ownership, NEW fail \in CommitFailures, CommitFile(fail)
  PROVE  /\ \A a \in Addr \ {temp["file"]} : own'[a] = own[a]
         /\ \A s \in MovedBefore(fail) :
              /\ Range(own'[temp["file"]][s]) = Range(Collected(temp["file"], s))
              /\ IsInjective(own'[temp["file"]][s])
         /\ \A s \in Slots \ MovedBefore(fail) :
              own'[temp["file"]][s] \in {<<>>, own[temp["file"]][s]}
         /\ \A s \in Slots \ FileLists :
              own'[temp["file"]][s] = own[temp["file"]][s]
  <1> DEFINE f == temp["file"]
             MB == MovedBefore(fail)
  <1>1. f \in Addr /\ MB \subseteq FileLists /\ MB \subseteq Slots
    BY Names, OpenIsHeld, MovedBeforeType DEF CommitFile
  <1>2. PICK r \in Arrangements(Collected(f, "resources")),
             m \in Arrangements(Collected(f, "metaurls")) :
          own' = [own EXCEPT ![f] =
                    [s \in Slots |-> IF s \in MovedBefore(fail) THEN Moved(f, s, r, m)
                                     ELSE IF s = fail THEN <<>> ELSE own[f][s]]]
    BY DEF CommitFile
  <1>3. own \in [Addr -> [Slots -> Seq(Addr)]]
    BY DEF Ownership, PctrlTypeOK, HeapTypeOK
  <1>4. \A a \in Addr \ {f} : own'[a] = own[a]
    BY <1>2, <1>3
  <1>5. \A s \in MB : own'[f][s] = Moved(f, s, r, m)
    BY <1>1, <1>2, <1>3
  <1>6. \A s \in Slots \ MB : own'[f][s] \in {<<>>, own[f][s]}
    BY <1>1, <1>2, <1>3
  <1>7. \A s \in Slots \ FileLists : own'[f][s] = own[f][s]
    <2>1. fail \notin Slots \ FileLists
      BY Names DEF CommitFailures, Slots
    <2> QED
      BY <1>1, <1>2, <1>3, <2>1
  <1> QED
    BY <1>1, <1>4, <1>5, <1>6, <1>7, MovedRange

LEMMA CommitFileOwns ==
  ASSUME Ownership, NEW fail \in CommitFailures, CommitFile(fail)
  PROVE  Ownership'
  <1> DEFINE f == temp["file"]
             MB == MovedBefore(fail)
             done == fail = "none"
             to == [s \in Spots |-> IF s \in MB THEN f ELSE NULL]
             dest == [s \in Spots |-> IF s = "file" /\ done THEN "files" ELSE s]
  <1>0. /\ f \in Addr /\ f # NULL /\ kind[f] = "file" /\ Holds(NULL, "file", f)
        /\ MB \subseteq FileLists
    BY Names, OpenIsHeld, MovedBeforeType DEF CommitFile
  <1>n. /\ MB \subseteq Lists /\ MB \subseteq Slots
        /\ "files" \in Lists \ FileLists
        /\ "piece_hashes" \in Slots \ FileLists
        /\ "file" \notin Lists /\ "file" \in Tx /\ "files" \notin Tx
        /\ "metalink" \notin Lists \cup Tx
        /\ {"file", "files", "metalink"} \subseteq Spots
    BY <1>0, Names, Apart DEF Spots
  <1>1. PctrlTypeOK'
    BY CommitFileType DEF Ownership
  <1>3. /\ \A a \in Addr \ {f} : own'[a] = own[a]
        /\ \A s \in MB : /\ Range(own'[f][s]) = Range(Collected(f, s))
                         /\ IsInjective(own'[f][s])
        /\ \A s \in Slots \ MB : own'[f][s] \in {<<>>, own[f][s]}
    BY CommitFileFields
  <1>4. /\ kind' = kind /\ files' = files
        /\ \A k \in Tx \ {"file"} : temp'[k] = temp[k]
        /\ temp'["file"] = IF done THEN NULL ELSE f
        /\ \A l \in MB : list'[l] = <<>>
        /\ \A l \in Lists \ MB : l # "files" => list'[l] = list[l]
        /\ list'["files"] = IF done THEN Append(list["files"], f) ELSE list["files"]
    <2>1. temp \in [Tx -> Addr \cup {NULL}]
      BY DEF Ownership, PctrlTypeOK, CtrlTypeOK
    <2>2. /\ \A k \in Tx \ {"file"} : temp'[k] = temp[k]
          /\ temp'["file"] = IF done THEN NULL ELSE f
      BY <1>n, <2>1 DEF CommitFile
    <2>3. kind' = kind /\ files' = files
      BY DEF CommitFile
    <2>4. list' = [l \in Lists |->
                     IF l \in MB THEN <<>>
                     ELSE IF l = "files" /\ done THEN Append(list[l], f) ELSE list[l]]
      BY DEF CommitFile
    <2> HIDE DEF f, MB, done
    <2>5. "files" \in Lists \ MB
      BY <1>0, <1>n
    <2> QED
      BY <1>n, <2>2, <2>3, <2>4, <2>5
  <1>5. list["files"] \in Seq(Addr)
    BY <1>n DEF Ownership, PctrlTypeOK, CtrlTypeOK
  <1> HIDE DEF f, MB, done
  <1>6. Shape'
    <2>1. ASSUME NEW a \in Addr
          PROVE  /\ kind[a] \notin {"file", "chunk"} => own'[a] = NoFields
                 /\ kind[a] = "file" => own'[a]["piece_hashes"] = <<>>
                 /\ kind[a] = "chunk" => \A s \in Slots \ {"piece_hashes"} : own'[a][s] = <<>>
      <3>1. CASE a = f
        BY <1>0, <1>n, <1>3, <3>1 DEF Ownership, Shape
      <3>2. CASE a # f
        BY <1>3, <3>2 DEF Ownership, Shape
      <3> QED
        BY <3>1, <3>2
    <2> QED
      BY <1>4, <2>1 DEF Shape
  <1>7. Once'
    <2>1. f \notin Range(list["files"])
      BY <1>0, <1>n DEF Ownership, Alone, Holds, Owners
    <2>2. IsInjective(list["files"]) /\ IsInjective(Append(list["files"], f))
      BY <1>0, <1>5, <1>n, <2>1, RangeAppend DEF Ownership, Once
    <2>3. \A l \in Lists : IsInjective(list'[l])
      BY <1>4, <2>2, RangeEmpty DEF Ownership, Once
    <2>4. \A a \in Addr, s \in Slots : IsInjective(own'[a][s])
      BY <1>3, RangeEmpty DEF Ownership, Once
    <2> QED
      BY <1>4, <2>3, <2>4 DEF Ownership, Once
  <1>8. ASSUME NEW in \in Owners, NEW at \in Spots, NEW x \in Addr, Holds(in, at, x)'
        PROVE  \/ in # NULL /\ Came(in, at, x)
               \/ \E s \in Spots : Came(NULL, s, x) /\ to[s] = in /\ dest[s] = at
    <2>0. \A i \in Owners, s \in Spots : Holds(i, s, x) => Came(i, s, x)
      BY <1>4 DEF Came
    <2>n. NULL \in Owners /\ NULL \notin Addr
      BY NullNotAddr DEF Owners
    <2>1. CASE in = NULL /\ at = "files"
      <3>1. x \in Range(list'["files"])
        BY <1>8, <1>n, <2>1, <2>n DEF Holds
      <3>2. CASE x \in Range(list["files"])
        BY <1>0, <1>n, <2>0, <2>1, <2>n, <3>2 DEF Holds
      <3>3. CASE done /\ x = f
        <4>1. Came(NULL, "file", x) /\ "file" \in Spots /\ "file" \notin MB
          BY <1>0, <1>n, <2>0, <2>n, <3>3
        <4>2. to["file"] = NULL /\ dest["file"] = "files"
          BY <3>3, <4>1
        <4> QED
          BY <2>1, <4>1, <4>2
      <3> QED
        <4>1. Range(Append(list["files"], f)) = Range(list["files"]) \cup {f}
          BY <1>0, <1>5, RangeAppend
        <4> QED
          BY <1>4, <3>1, <3>2, <3>3, <4>1
    <2>2. CASE in = NULL /\ at # "files"
      <3>1. CASE at \in Lists /\ x \in Range(list'[at])
        <4>1. at \notin MB /\ Holds(NULL, at, x) /\ at # "file"
          BY <1>4, <1>n, <2>2, <3>1, RangeEmpty DEF Holds
        <4> QED
          BY <2>0, <2>2, <2>n, <4>1
      <3>2. CASE at \in Tx /\ x = temp'[at]
        <4>1. at \notin MB
          BY <1>n, <3>2, Apart
        <4>2. Holds(NULL, at, x) /\ ~(at = "file" /\ done)
          BY <1>0, <1>4, <2>n, <3>2 DEF Holds
        <4> QED
          BY <2>0, <2>2, <2>n, <4>1, <4>2
      <3>3. CASE at = "metalink" /\ x \in Range(files')
        <4>1. at \notin MB /\ Holds(NULL, at, x) /\ at # "file"
          BY <1>4, <1>n, <3>3 DEF Holds
        <4> QED
          BY <2>0, <2>2, <2>n, <4>1
      <3> QED
        BY <1>8, <2>2, <2>n, <3>1, <3>2, <3>3 DEF Holds
    <2>3. CASE in \in Addr
      <3>1. at \in Slots /\ x \in Range(own'[in][at])
        BY <1>8, <2>3, <2>n DEF Holds
      <3>2. CASE in # f
        BY <1>3, <2>0, <2>3, <2>n, <3>1, <3>2 DEF Holds
      <3>3. CASE in = f /\ at \notin MB
        BY <1>3, <2>0, <2>3, <2>n, <3>1, <3>3, RangeEmpty DEF Holds
      <3>4. CASE in = f /\ at \in MB
        <4>1. x \in Range(list[at]) \/ x \in Range(own[in][at])
          BY <1>3, <3>1, <3>4 DEF Collected
        <4>2. CASE x \in Range(own[in][at])
          BY <2>0, <2>3, <2>n, <3>1, <4>2 DEF Holds
        <4>3. CASE x \in Range(list[at])
          <5>1. Came(NULL, at, x) /\ at # "file"
            BY <1>n, <2>0, <2>n, <3>4, <4>3 DEF Holds
          <5> QED
            BY <3>4, <5>1
        <4> QED
          BY <4>1, <4>2, <4>3
      <3> QED
        BY <3>2, <3>3, <3>4
    <2> QED
      BY <2>1, <2>2, <2>3 DEF Owners
  <1>9. Alone' /\ RightKind'
    <2>1. \A s \in Spots : KindAt(dest[s]) = KindAt(s)
      BY <1>n, KindOfPlace
    <2>2. to \in [Spots -> Owners] /\ dest \in [Spots -> Spots]
      BY <1>0, <1>n DEF Owners
    <2> HIDE DEF to, dest
    <2> QED
      BY <1>8, <2>1, <2>2, PlacesMove
  <1> QED
    BY <1>1, <1>6, <1>7, <1>9 DEF Ownership

LEMMA CommitChunkOwns ==
  ASSUME Ownership, CommitChunk
  PROVE  Ownership'
  <1> DEFINE c == temp["chunk"]
             f == temp["file"]
             to == [s \in Spots |-> IF s = "piece_hashes" THEN c
                                    ELSE IF s = "chunk" THEN f ELSE NULL]
             dest == [s \in Spots |-> IF s = "chunk" THEN "chunk_checksum" ELSE s]
  <1>0. /\ c \in Addr /\ kind[c] = "chunk" /\ Holds(NULL, "chunk", c)
        /\ f \in Addr /\ kind[f] = "file"
    BY Names, OpenIsHeld DEF CommitChunk
  <1>n. /\ "piece_hashes" \in Lists /\ "piece_hashes" \in Slots
        /\ "chunk_checksum" \in Slots
        /\ "chunk" \in Tx \ Lists
        /\ "piece_hashes" \notin Tx
        /\ {"piece_hashes", "chunk", "chunk_checksum"} \subseteq Spots
    BY Names, Apart DEF Spots
  <1>1. PctrlTypeOK'
    BY CommitChunkType DEF Ownership
  <1>2. own \in [Addr -> [Slots -> Seq(Addr)]]
    BY DEF Ownership, PctrlTypeOK, HeapTypeOK
  <1>3. /\ \A a \in Addr \ {c, f} : own'[a] = own[a]
        /\ \A s \in Slots \ {"piece_hashes"} : own'[c][s] = own[c][s]
        /\ \A s \in Slots \ {"chunk_checksum"} : own'[f][s] = own[f][s]
        /\ own'[c]["piece_hashes"] = Collected(c, "piece_hashes")
        /\ own'[f]["chunk_checksum"] = <<c>>
    <2>1. c # f
      BY <1>0
    <2>2. own' = [own EXCEPT ![c] = [@ EXCEPT !["piece_hashes"] = Collected(c, "piece_hashes")],
                             ![f] = [@ EXCEPT !["chunk_checksum"] = <<c>>]]
      BY DEF CommitChunk
    <2> HIDE DEF c, f
    <2> QED
      BY <1>0, <1>2, <1>n, <2>1, <2>2
  <1>4. /\ kind' = kind /\ files' = files
        /\ \A k \in Tx \ {"chunk"} : temp'[k] = temp[k]
        /\ temp'["chunk"] = NULL
        /\ list'["piece_hashes"] = <<>>
        /\ \A l \in Lists \ {"piece_hashes"} : list'[l] = list[l]
    BY <1>n DEF CommitChunk, Ownership, PctrlTypeOK, CtrlTypeOK
  <1> HIDE DEF c, f
  <1>5. Shape'
    <2>1. ASSUME NEW a \in Addr
          PROVE  /\ kind[a] \notin {"file", "chunk"} => own'[a] = NoFields
                 /\ kind[a] = "file" => own'[a]["piece_hashes"] = <<>>
                 /\ kind[a] = "chunk" => \A s \in Slots \ {"piece_hashes"} : own'[a][s] = <<>>
      <3>1. CASE a = f
        BY <1>0, <1>3, <1>n, <3>1 DEF Ownership, Shape
      <3>2. CASE a = c
        BY <1>0, <1>3, <3>2 DEF Ownership, Shape
      <3>3. CASE a \notin {c, f}
        BY <1>3, <3>3 DEF Ownership, Shape
      <3> QED
        BY <3>1, <3>2, <3>3
    <2> QED
      BY <1>4, <2>1 DEF Shape
  <1>6. Once'
    <2>1. IsInjective(Collected(c, "piece_hashes"))
      BY <1>0, <1>n DEF Ownership, Once, Collected
    <2>2. \A l \in Lists : IsInjective(list'[l])
      BY <1>4, RangeEmpty DEF Ownership, Once
    <2>3. IsInjective(<<c>>)
      BY RangeOne
    <2>4. \A a \in Addr, s \in Slots : IsInjective(own'[a][s])
      BY <1>0, <1>3, <2>1, <2>3 DEF Ownership, Once
    <2> QED
      BY <1>4, <2>2, <2>4 DEF Ownership, Once
  <1>7. ASSUME NEW in \in Owners, NEW at \in Spots, NEW x \in Addr, Holds(in, at, x)'
        PROVE  \/ in # NULL /\ Came(in, at, x)
               \/ \E s \in Spots : Came(NULL, s, x) /\ to[s] = in /\ dest[s] = at
    <2>0. \A i \in Owners, s \in Spots : Holds(i, s, x) => Came(i, s, x)
      BY <1>4 DEF Came
    <2>n. NULL \in Owners /\ NULL \notin Addr
      BY NullNotAddr DEF Owners
    <2>1. CASE in = NULL
      <3>1. Holds(NULL, at, x) /\ at # "piece_hashes" /\ at # "chunk"
        BY <1>0, <1>4, <1>7, <1>n, <2>1, <2>n, RangeEmpty, Apart DEF Holds
      <3> QED
        BY <2>0, <2>1, <2>n, <3>1
    <2>2. CASE in \in Addr
      <3>1. at \in Slots /\ x \in Range(own'[in][at])
        BY <1>7, <2>2, <2>n DEF Holds
      <3>2. CASE own'[in][at] = own[in][at]
        BY <2>0, <2>2, <2>n, <3>1, <3>2 DEF Holds
      <3>3. CASE in = c /\ at = "piece_hashes"
        <4>1. x \in Range(list[at]) \/ x \in Range(own[in][at])
          BY <1>3, <3>1, <3>3 DEF Collected
        <4>2. CASE x \in Range(own[in][at])
          BY <2>0, <2>2, <2>n, <3>1, <4>2 DEF Holds
        <4>3. CASE x \in Range(list[at])
          <5>1. Came(NULL, at, x)
            BY <1>n, <2>0, <2>n, <3>3, <4>3 DEF Holds
          <5> QED
            BY <3>3, <5>1
        <4> QED
          BY <4>1, <4>2, <4>3
      <3>4. CASE in = f /\ at = "chunk_checksum"
        <4>1. x = c
          BY <1>3, <3>1, <3>4, RangeOne
        <4>2. Came(NULL, "chunk", x) /\ "chunk" \in Spots
          BY <1>0, <1>n, <2>0, <2>n, <4>1
        <4>3. to["chunk"] = f /\ dest["chunk"] = "chunk_checksum"
          BY <4>2
        <4> QED
          BY <3>4, <4>2, <4>3
      <3> QED
        BY <1>3, <2>2, <3>1, <3>2, <3>3, <3>4
    <2> QED
      BY <2>1, <2>2 DEF Owners
  <1>8. Alone' /\ RightKind'
    <2>1. \A s \in Spots : KindAt(dest[s]) = KindAt(s)
      BY <1>n, KindOfPlace
    <2>2. to \in [Spots -> Owners] /\ dest \in [Spots -> Spots]
      BY <1>0, <1>n DEF Owners
    <2> HIDE DEF to, dest
    <2> QED
      BY <1>7, <2>1, <2>2, PlacesMove
  <1> QED
    BY <1>1, <1>5, <1>6, <1>8 DEF Ownership

LEMMA CommitChunkFailsOwns ==
  ASSUME Ownership, CommitChunkFails
  PROVE  Ownership'
  <1> DEFINE c == temp["chunk"]
  <1>0. c \in Addr /\ kind[c] = "chunk" /\ "piece_hashes" \in Slots
    BY Names, OpenIsHeld DEF CommitChunkFails
  <1>1. PctrlTypeOK'
    BY CommitChunkFailsType DEF Ownership
  <1>2. /\ \A a \in Addr \ {c} : own'[a] = own[a]
        /\ \A s \in Slots \ {"piece_hashes"} : own'[c][s] = own[c][s]
        /\ own'[c]["piece_hashes"] = <<>>
    BY <1>0 DEF CommitChunkFails, Ownership, PctrlTypeOK, HeapTypeOK
  <1>3. UNCHANGED <<kind, list, temp, files>>
    BY DEF CommitChunkFails
  <1> HIDE DEF c
  <1>4. Shape'
    BY <1>0, <1>2, <1>3 DEF Ownership, Shape
  <1>5. Once'
    BY <1>0, <1>2, <1>3, RangeEmpty DEF Ownership, Once
  <1>6. ASSUME NEW in \in Owners, NEW at \in Spots, NEW x \in Addr, Holds(in, at, x)'
        PROVE  Came(in, at, x)
    BY <1>0, <1>2, <1>3, <1>6, RangeEmpty DEF Came, Holds
  <1>7. Alone' /\ RightKind'
    BY <1>6, NothingMoves
  <1> QED
    BY <1>1, <1>4, <1>5, <1>7 DEF Ownership

\* Freeing an array of the open chunk checksum or file leaves the rest held.
LEMMA ArrayIsNotFreed ==
  ASSUME Ownership, NEW a \in Addr, NEW s \in Slots,
         NEW in \in Owners, NEW at \in Spots, NEW x \in Addr, Holds(in, at, x),
         in \notin Trees(Range(own[a][s])), ~(in = a /\ at = s)
  PROVE  x \notin Trees(Range(own[a][s]))
  <1> DEFINE S == Range(own[a][s])
             R == {s}
  <1>1. S \in SUBSET Addr
    BY RangeInSet DEF Ownership, PctrlTypeOK, HeapTypeOK
  <1>2. R \in SUBSET Spots /\ a \in Owners
    BY DEF Spots, Owners
  <1>3. \A y \in S : \E r \in R : Holds(a, r, y)
    BY DEF Holds
  <1>4. in = a => at \notin R
    OBVIOUS
  <1> HIDE DEF S, R
  <1>5. in \notin Trees(S) => x \notin Trees(S)
    BY <1>1, <1>2, <1>3, <1>4, LeftIsNotFreed
  <1> QED
    BY <1>5 DEF S

\* The object itself is not in what its own fields hold.
LEMMA ArrayIsNotOwner ==
  ASSUME Ownership, NEW k \in {"file", "chunk"}, temp[k] # NULL, NEW s \in Slots
  PROVE  /\ temp[k] \notin Trees(Range(own[temp[k]][s]))
         /\ Trees(Range(own[temp[k]][s])) \subseteq Addr
  <1> DEFINE a == temp[k]
  <1>1. k \in Tx /\ a \in Addr /\ Holds(NULL, k, a)
    BY Names, OpenIsHeld
  <1>2. NULL \in Owners /\ k \in Spots /\ a \in Owners /\ s \in Spots
    BY <1>1 DEF Owners, Spots
  <1>3. Range(own[a][s]) \in SUBSET Addr
    BY <1>1, RangeInSet DEF Ownership, PctrlTypeOK, HeapTypeOK
  <1>4. Trees(Range(own[a][s])) \subseteq Addr
    BY <1>3, TreesAddr DEF Ownership
  <1>5. NULL \notin Trees(Range(own[a][s])) /\ NULL # a
    BY <1>1, <1>4, NullNotAddr
  <1> HIDE DEF a
  <1>6. a \notin Trees(Range(own[a][s]))
    BY <1>1, <1>2, <1>5, ArrayIsNotFreed
  <1> QED
    BY <1>4, <1>6 DEF a

LEMMA ChunkSetPieceHashesOwns ==
  ASSUME Ownership, ChunkSetPieceHashes
  PROVE  Ownership'
  <1> DEFINE c == temp["chunk"]
             old == Trees(Range(own[c]["piece_hashes"]))
  <1>0. /\ c \in Addr /\ kind[c] = "chunk" /\ "piece_hashes" \in Slots
        /\ Fresh \in Addr /\ kind[Fresh] = "unused" /\ own[Fresh] = NoFields
        /\ c \notin old /\ old \subseteq Addr /\ c # Fresh
    <2>1. c \in Addr /\ kind[c] = "chunk" /\ "piece_hashes" \in Slots
      BY Names, OpenIsHeld DEF ChunkSetPieceHashes
    <2>2. Fresh \in Addr /\ kind[Fresh] = "unused" /\ own[Fresh] = NoFields
      BY FreshType DEF ChunkSetPieceHashes, Ownership, Shape
    <2>3. c \notin old /\ old \subseteq Addr
      BY <2>1, ArrayIsNotOwner DEF ChunkSetPieceHashes
    <2> QED
      BY <2>1, <2>2, <2>3
  <1>1. PctrlTypeOK'
    BY ChunkSetPieceHashesType DEF Ownership
  <1>2. /\ \A a \in Addr \ {c} : own'[a] = IF a \in old THEN NoFields ELSE own[a]
        /\ \A s \in Slots \ {"piece_hashes"} : own'[c][s] = own[c][s]
        /\ own'[c]["piece_hashes"] = <<Fresh>>
    BY <1>0 DEF ChunkSetPieceHashes, Ownership, PctrlTypeOK, HeapTypeOK
  <1>3. /\ UNCHANGED <<list, temp, files>>
        /\ \A a \in Addr : kind'[a] = IF a = Fresh THEN "piece_hash"
                                      ELSE IF a \in old THEN "freed" ELSE kind[a]
    BY DEF ChunkSetPieceHashes
  <1>4. \A in \in Owners, at \in Spots, x \in Addr :
          Holds(in, at, x) /\ in \notin old /\ ~(in = c /\ at = "piece_hashes") => x \notin old
    BY <1>0, ArrayIsNotFreed
  <1>5. \A s \in Slots : NoFields[s] = <<>>
    BY DEF NoFields
  <1> HIDE DEF c, old
  <1>6. Shape'
    <2>1. ASSUME NEW a \in Addr
          PROVE  /\ kind'[a] \notin {"file", "chunk"} => own'[a] = NoFields
                 /\ kind'[a] = "file" => own'[a]["piece_hashes"] = <<>>
                 /\ kind'[a] = "chunk" => \A s \in Slots \ {"piece_hashes"} : own'[a][s] = <<>>
      <3>1. CASE a = c
        BY <1>0, <1>2, <1>3, <3>1 DEF Ownership, Shape
      <3>2. CASE a # c /\ a \in old
        BY <1>0, <1>2, <1>5, <3>2
      <3>3. CASE a # c /\ a \notin old
        BY <1>0, <1>2, <1>3, <1>5, <3>3 DEF Ownership, Shape
      <3> QED
        BY <3>1, <3>2, <3>3
    <2> QED
      BY <2>1 DEF Shape
  <1>7. Once'
    <2>1. IsInjective(<<Fresh>>)
      BY RangeOne
    <2>2. \A a \in Addr, s \in Slots : IsInjective(own'[a][s])
      BY <1>0, <1>2, <1>5, <2>1, RangeEmpty DEF Ownership, Once
    <2> QED
      BY <1>3, <2>2 DEF Ownership, Once
  <1>8. ASSUME NEW in \in Owners, NEW at \in Spots, NEW x \in Addr, Holds(in, at, x)'
        PROVE  \/ Came(in, at, x)
               \/ /\ in = c /\ at = "piece_hashes" /\ x = Fresh
                  /\ kind[Fresh] = "unused" /\ kind'[Fresh] = KindAt("piece_hashes")
    <2>1. \/ in = c /\ at = "piece_hashes" /\ x = Fresh
          \/ Holds(in, at, x) /\ in \notin old /\ ~(in = c /\ at = "piece_hashes")
      <3>1. CASE in = NULL
        BY <1>0, <1>3, <1>8, <3>1, NullNotAddr DEF Holds
      <3>2. CASE in = c /\ at = "piece_hashes"
        BY <1>0, <1>2, <1>8, <3>2, RangeOne, NullNotAddr DEF Holds
      <3>3. CASE in \in Addr /\ ~(in = c /\ at = "piece_hashes")
        BY <1>0, <1>2, <1>5, <1>8, <3>3, RangeEmpty, NullNotAddr DEF Holds
      <3> QED
        BY <3>1, <3>2, <3>3 DEF Owners
    <2>2. CASE in = c /\ at = "piece_hashes" /\ x = Fresh
      BY <1>0, <1>3, <2>2, KindOfPlace
    <2>3. CASE Holds(in, at, x) /\ in \notin old /\ ~(in = c /\ at = "piece_hashes")
      <3>1. x \notin old /\ x # Fresh
        BY <1>0, <1>4, <2>3, HeldIsLive
      <3> QED
        BY <1>3, <2>3, <3>1 DEF Came
    <2> QED
      BY <2>1, <2>2, <2>3
  <1>9. Alone' /\ RightKind'
    BY <1>8, NothingMoves
  <1> QED
    BY <1>1, <1>6, <1>7, <1>9 DEF Ownership

LEMMA CommitSignatureOwns ==
  ASSUME Ownership, CommitSignature
  PROVE  Ownership'
  <1> DEFINE f == temp["file"]
             g == temp["signature"]
             old == Trees(Range(own[f]["signature"]))
             to == [s \in Spots |-> IF s = "signature" THEN f ELSE NULL]
             dest == [s \in Spots |-> s]
  <1>0. /\ f \in Addr /\ kind[f] = "file" /\ "signature" \in Slots
        /\ g \in Addr /\ kind[g] = "signature" /\ Holds(NULL, "signature", g)
        /\ f \notin old /\ old \subseteq Addr /\ f # g
    <2>1. f \in Addr /\ kind[f] = "file" /\ "signature" \in Slots
      BY Names, OpenIsHeld DEF CommitSignature
    <2>2. g \in Addr /\ kind[g] = "signature" /\ Holds(NULL, "signature", g)
      BY Names, OpenIsHeld DEF CommitSignature
    <2>3. f \notin old /\ old \subseteq Addr
      BY <2>1, ArrayIsNotOwner DEF CommitSignature
    <2> QED
      BY <2>1, <2>2, <2>3
  <1>n. /\ NULL \in Owners /\ NULL \notin Addr
        /\ "signature" \in Spots /\ "signature" \in Tx
        /\ "signature" \notin Lists /\ "signature" # "metalink"
    BY Names, NullNotAddr, Apart DEF Owners, Spots
  <1>1. PctrlTypeOK'
    BY CommitSignatureType DEF Ownership
  <1>2. /\ \A a \in Addr \ {f} : own'[a] = IF a \in old THEN NoFields ELSE own[a]
        /\ \A s \in Slots \ {"signature"} : own'[f][s] = own[f][s]
        /\ own'[f]["signature"] = <<g>>
    BY <1>0 DEF CommitSignature, Ownership, PctrlTypeOK, HeapTypeOK
  <1>3. /\ UNCHANGED <<list, files>>
        /\ temp'["signature"] = NULL
        /\ \A k \in Tx \ {"signature"} : temp'[k] = temp[k]
        /\ \A a \in Addr : kind'[a] = IF a \in old THEN "freed" ELSE kind[a]
    BY <1>n DEF CommitSignature, Ownership, PctrlTypeOK, CtrlTypeOK
  <1>4. \A in \in Owners, at \in Spots, x \in Addr :
          Holds(in, at, x) /\ in \notin old /\ ~(in = f /\ at = "signature") => x \notin old
    BY <1>0, ArrayIsNotFreed
  <1>5. \A s \in Slots : NoFields[s] = <<>>
    BY DEF NoFields
  <1> HIDE DEF f, g, old
  <1>6. Shape'
    <2>1. ASSUME NEW a \in Addr
          PROVE  /\ kind'[a] \notin {"file", "chunk"} => own'[a] = NoFields
                 /\ kind'[a] = "file" => own'[a]["piece_hashes"] = <<>>
                 /\ kind'[a] = "chunk" => \A s \in Slots \ {"piece_hashes"} : own'[a][s] = <<>>
      <3>0. "piece_hashes" \in Slots \ {"signature"}
        BY Names
      <3>1. CASE a = f
        BY <1>0, <1>2, <1>3, <3>0, <3>1 DEF Ownership, Shape
      <3>2. CASE a # f /\ a \in old
        BY <1>0, <1>2, <1>5, <3>0, <3>2
      <3>3. CASE a # f /\ a \notin old
        BY <1>0, <1>2, <1>3, <3>3 DEF Ownership, Shape
      <3> QED
        BY <3>1, <3>2, <3>3
    <2> QED
      BY <2>1 DEF Shape
  <1>7. Once'
    <2>1. IsInjective(<<g>>)
      BY RangeOne
    <2>2. \A a \in Addr, s \in Slots : IsInjective(own'[a][s])
      BY <1>0, <1>2, <1>5, <2>1, RangeEmpty DEF Ownership, Once
    <2> QED
      BY <1>3, <2>2 DEF Ownership, Once
  <1>8. ASSUME NEW in \in Owners, NEW at \in Spots, NEW x \in Addr, Holds(in, at, x)'
        PROVE  \/ in # NULL /\ Came(in, at, x)
               \/ \E s \in Spots : Came(NULL, s, x) /\ to[s] = in /\ dest[s] = at
    <2>0. \A i \in Owners, s \in Spots :
            Holds(i, s, x) /\ i \notin old /\ ~(i = f /\ s = "signature") => Came(i, s, x)
      BY <1>3, <1>4 DEF Came
    <2>1. CASE in = NULL
      <3>1. Holds(NULL, at, x) /\ at # "signature"
        BY <1>3, <1>8, <1>n, <2>1 DEF Holds
      <3>2. Came(NULL, at, x)
        BY <1>0, <1>n, <2>0, <3>1
      <3> QED
        BY <2>1, <3>1, <3>2
    <2>2. CASE in = f /\ at = "signature"
      <3>1. x = g
        <4>1. f # NULL /\ Range(<<g>>) = {g}
          BY <1>0, <1>n, RangeOne
        <4>2. x \in Range(own'[f]["signature"])
          BY <1>8, <2>2, <4>1 DEF Holds
        <4> QED
          BY <1>2, <4>1, <4>2
      <3>2. Came(NULL, "signature", x)
        BY <1>0, <1>n, <2>0, <3>1
      <3> QED
        BY <1>n, <2>2, <3>2
    <2>3. CASE in \in Addr /\ ~(in = f /\ at = "signature")
      <3>1. at \in Slots /\ x \in Range(own'[in][at])
        BY <1>8, <1>n, <2>3 DEF Holds
      <3>2. in \notin old /\ x \in Range(own[in][at])
        BY <1>0, <1>2, <1>5, <2>3, <3>1, RangeEmpty
      <3> QED
        BY <1>n, <2>0, <2>3, <3>1, <3>2 DEF Holds
    <2> QED
      BY <2>1, <2>2, <2>3 DEF Owners
  <1>9. Alone' /\ RightKind'
    <2>1. \A s \in Spots : KindAt(dest[s]) = KindAt(s)
      OBVIOUS
    <2>2. to \in [Spots -> Owners] /\ dest \in [Spots -> Spots]
      BY <1>0, <1>n DEF Owners
    <2> HIDE DEF to, dest
    <2> QED
      BY <1>8, <2>1, <2>2, PlacesMove
  <1> QED
    BY <1>1, <1>6, <1>7, <1>9 DEF Ownership

-----------------------------------------------------------------------------
(***************************************************************************)
(* Handing the files over, and the end of a parse.                         *)
(***************************************************************************)
LEMMA AccumulateFilesOwns ==
  ASSUME Ownership, AccumulateFiles
  PROVE  Ownership'
  <1> DEFINE some == list["files"] # <<>>
             to == [s \in Spots |-> NULL]
             dest == [s \in Spots |-> IF s = "files" THEN "metalink" ELSE s]
  <1>n. /\ NULL \in Owners /\ NULL \notin Addr
        /\ "files" \in Lists /\ {"files", "metalink"} \subseteq Spots
        /\ "metalink" \notin Lists \cup Tx
        /\ Lists \cap Tx = {}
    BY Names, NullNotAddr, Apart DEF Owners, Spots
  <1>1. PctrlTypeOK'
    BY AccumulateFilesType DEF Ownership
  <1>2. /\ UNCHANGED <<kind, own, temp>>
        /\ files' = IF some THEN list["files"] ELSE files
        /\ list'["files"] = <<>>
        /\ \A l \in Lists \ {"files"} : list'[l] = list[l]
    BY <1>n DEF AccumulateFiles, heapVars, Ownership, PctrlTypeOK, CtrlTypeOK
  <1>3. Shape'
    BY <1>2 DEF Ownership, Shape
  <1>4. Once'
    BY <1>2, <1>n, RangeEmpty DEF Ownership, Once
  <1> HIDE DEF some
  <1>5. ASSUME NEW in \in Owners, NEW at \in Spots, NEW x \in Addr, Holds(in, at, x)'
        PROVE  \/ in # NULL /\ Came(in, at, x)
               \/ \E s \in Spots : Came(NULL, s, x) /\ to[s] = in /\ dest[s] = at
    <2>0. \A i \in Owners, s \in Spots : Holds(i, s, x) => Came(i, s, x)
      BY <1>2 DEF Came
    <2>1. CASE in = NULL /\ at = "metalink"
      <3>1. Holds(NULL, "metalink", x) \/ Holds(NULL, "files", x)
        BY <1>2, <1>5, <1>n, <2>1 DEF Holds
      <3>2. Came(NULL, "metalink", x) \/ Came(NULL, "files", x)
        BY <1>n, <2>0, <3>1
      <3> QED
        BY <1>n, <2>1, <3>2
    <2>2. CASE in = NULL /\ at # "metalink"
      <3>1. Holds(NULL, at, x) /\ at # "files"
        BY <1>2, <1>5, <1>n, <2>2, RangeEmpty DEF Holds
      <3> QED
        BY <1>n, <2>0, <2>2, <3>1
    <2>3. CASE in \in Addr
      BY <1>2, <1>5, <1>n, <2>0, <2>3 DEF Holds
    <2> QED
      BY <2>1, <2>2, <2>3 DEF Owners
  <1>6. Alone' /\ RightKind'
    <2>1. \A s \in Spots : KindAt(dest[s]) = KindAt(s)
      BY KindOfPlace
    <2>2. to \in [Spots -> Owners] /\ dest \in [Spots -> Spots]
      BY <1>n
    <2> HIDE DEF to, dest
    <2> QED
      BY <1>5, <2>1, <2>2, PlacesMove
  <1> QED
    BY <1>1, <1>3, <1>4, <1>6 DEF Ownership

LEMMA AccumulateFilesFailsOwns ==
  ASSUME Ownership, AccumulateFilesFails
  PROVE  Ownership'
  <1>1. PctrlTypeOK'
    BY AccumulateFilesType DEF Ownership
  <1>2. UNCHANGED <<kind, own, list, temp>> /\ files' = <<>>
    BY DEF AccumulateFilesFails, heapVars
  <1>3. Shape' /\ Once'
    BY <1>2, RangeEmpty DEF Ownership, Shape, Once
  <1>4. ASSUME NEW in \in Owners, NEW at \in Spots, NEW x \in Addr, Holds(in, at, x)'
        PROVE  Came(in, at, x)
    BY <1>2, <1>4, RangeEmpty DEF Came, Holds
  <1>5. Alone' /\ RightKind'
    BY <1>4, NothingMoves
  <1> QED
    BY <1>1, <1>3, <1>5 DEF Ownership

\* Freeing what the members R of the control block hold, and emptying them,
\* leaves the rest as it was.
LEMMA FreeingOwns ==
  ASSUME Ownership, PctrlTypeOK', NEW S \in SUBSET Addr, NEW R \in SUBSET Spots,
         \A y \in S : \E r \in R : Holds(NULL, r, y),
         Free(Trees(S)), Once',
         \A at \in Spots, x \in Addr :
           Holds(NULL, at, x)' => Holds(NULL, at, x) /\ at \notin R
  PROVE  Ownership'
  <1>0. NULL \in Owners /\ NULL \notin Addr /\ Trees(S) \subseteq Addr
    BY NullNotAddr, TreesAddr DEF Owners, Ownership
  <1>1. /\ \A a \in Addr : own'[a] = IF a \in Trees(S) THEN NoFields ELSE own[a]
        /\ \A a \in Addr : kind'[a] = IF a \in Trees(S) THEN "freed" ELSE kind[a]
    BY DEF Free
  <1>2. Shape'
    BY <1>1, ShapeKept
  <1>3. ASSUME NEW in \in Owners, NEW at \in Spots, NEW x \in Addr, Holds(in, at, x)'
        PROVE  Came(in, at, x)
    <2>1. Holds(in, at, x) /\ in \notin Trees(S) /\ (in = NULL => at \notin R)
      <3>1. CASE in = NULL
        BY <1>0, <1>3, <3>1
      <3>2. CASE in \in Addr
        BY <1>0, <1>1, <1>3, <3>2, RangeEmpty DEF Holds, NoFields
      <3> QED
        BY <3>1, <3>2 DEF Owners
    <2>2. x \notin Trees(S)
      BY <1>0, <2>1, LeftIsNotFreed
    <2> QED
      BY <1>1, <2>1, <2>2 DEF Came
  <1>4. Alone' /\ RightKind'
    BY <1>3, NothingMoves
  <1> QED
    BY <1>2, <1>4 DEF Ownership

LEMMA TreesUnion == ASSUME NEW S, NEW T PROVE Trees(S) \cup Trees(T) = Trees(S \cup T)
  BY DEF Trees

LEMMA DeleteSessionOwns ==
  ASSUME Ownership, NEW detach \in BOOLEAN, DeleteSession(detach)
  PROVE  Ownership'
  <1> DEFINE S0 == (UNION {Open(k) : k \in Tx})
                   \cup UNION {Range(list[l]) : l \in Lists \ StringLists}
             S == S0 \cup IF detach THEN {} ELSE Range(files)
             R == Lists \cup Tx \cup IF detach THEN {} ELSE {"metalink"}
  <1>1. PctrlTypeOK'
    BY DeleteSessionType DEF Ownership
  <1>2. S \in SUBSET Addr /\ \A y \in S : \E r \in R : Holds(NULL, r, y)
    <2>1. \A k \in Tx : Open(k) \subseteq Addr /\ \A y \in Open(k) : Holds(NULL, k, y)
      BY DEF Open, Holds, Ownership, PctrlTypeOK, CtrlTypeOK
    <2>2. \A l \in Lists : Range(list[l]) \subseteq Addr /\ \A y \in Range(list[l]) : Holds(NULL, l, y)
      BY RangeInSet DEF Holds, Ownership, PctrlTypeOK, CtrlTypeOK
    <2>3. Range(files) \subseteq Addr /\ \A y \in Range(files) : Holds(NULL, "metalink", y)
      BY RangeInSet DEF Holds, Ownership, PctrlTypeOK, CtrlTypeOK
    <2>4. S0 \subseteq Addr /\ \A y \in S0 : \E r \in Lists \cup Tx : Holds(NULL, r, y)
      BY <2>1, <2>2
    <2> HIDE DEF S0
    <2> QED
      BY <2>3, <2>4
  <1>3. Free(Trees(S))
    <2>1. CtrlOwned = Trees(S0)
      BY DEF CtrlOwned
    <2>2. Trees(S0) \cup Trees({}) = Trees(S0 \cup {}) /\ Trees({}) = {}
      BY DEF Trees
    <2>3. CASE detach
      <3>1. Free(CtrlOwned) /\ S = S0
        <4>1. CtrlOwned \cup {} = CtrlOwned /\ S = S0
          BY <2>3
        <4>2. Free(CtrlOwned \cup {})
          BY <2>3 DEF DeleteSession
        <4> QED
          BY <4>1, <4>2
      <3> QED
        BY <2>1, <3>1
    <2>4. CASE ~detach
      <3>1. Free(CtrlOwned \cup Trees(Range(files))) /\ S = S0 \cup Range(files)
        BY <2>4 DEF DeleteSession
      <3>2. CtrlOwned \cup Trees(Range(files)) = Trees(S)
        BY <2>1, <3>1, TreesUnion
      <3> QED
        BY <3>1, <3>2
    <2> QED
      BY <2>3, <2>4
  <1>4. Once'
    <2>1. \A l \in Lists : list'[l] = <<>>
      BY DEF DeleteSession
    <2>2. files' = files \/ files' = <<>>
      BY DEF DeleteSession
    <2>3. \A a \in Addr : own'[a] = NoFields \/ own'[a] = own[a]
      BY <1>3 DEF Free
    <2> QED
      BY <2>1, <2>2, <2>3, RangeEmpty DEF Ownership, Once, NoFields
  <1>5. ASSUME NEW at \in Spots, NEW x \in Addr, Holds(NULL, at, x)'
        PROVE  Holds(NULL, at, x) /\ at \notin R
    <2>1. at = "metalink" /\ x \in Range(files')
      BY <1>5, NullNotAddr, RangeEmpty DEF Holds, DeleteSession
    <2>2. detach /\ files' = files
      BY <2>1, RangeEmpty DEF DeleteSession
    <2> QED
      BY <2>1, <2>2, Apart DEF Holds
  <1>6. R \in SUBSET Spots
    BY DEF Spots
  <1> HIDE DEF S, R
  <1> QED
    BY <1>1, <1>2, <1>3, <1>4, <1>5, <1>6, FreeingOwns

LEMMA AppDeleteOwns ==
  ASSUME Ownership, AppDelete
  PROVE  Ownership'
  <1> DEFINE S == Range(files)
             R == {"metalink"}
  <1>1. PctrlTypeOK'
    BY AppDeleteType DEF Ownership
  <1>2. S \in SUBSET Addr /\ \A y \in S : \E r \in R : Holds(NULL, r, y)
    BY RangeInSet DEF Holds, Ownership, PctrlTypeOK, CtrlTypeOK
  <1>3. Free(Trees(S)) /\ files' = <<>> /\ UNCHANGED <<list, temp>>
    BY DEF AppDelete
  <1>4. Once'
    <2>1. \A a \in Addr : own'[a] = NoFields \/ own'[a] = own[a]
      BY <1>3 DEF Free
    <2> QED
      BY <1>3, <2>1, RangeEmpty DEF Ownership, Once, NoFields
  <1>5. ASSUME NEW at \in Spots, NEW x \in Addr, Holds(NULL, at, x)'
        PROVE  Holds(NULL, at, x) /\ at \notin R
    BY <1>3, <1>5, NullNotAddr, RangeEmpty, Apart DEF Holds
  <1>6. R \in SUBSET Spots
    BY DEF Spots
  <1> HIDE DEF S, R
  <1> QED
    BY <1>1, <1>2, <1>3, <1>4, <1>5, <1>6, FreeingOwns

-----------------------------------------------------------------------------
(***************************************************************************)
(* The theorems.                                                           *)
(***************************************************************************)
LEMMA OwnershipInit == PctrlInit => Ownership
  <1> SUFFICES ASSUME PctrlInit PROVE Ownership
    OBVIOUS
  <1>1. PctrlTypeOK
    BY PctrlInitType
  <1>2. /\ \A a \in Addr : kind[a] = "unused" /\ own[a] = NoFields
        /\ \A s \in Slots : NoFields[s] = <<>>
        /\ \A l \in Lists : list[l] = <<>>
        /\ \A k \in Tx : temp[k] = NULL
        /\ files = <<>>
    BY DEF PctrlInit, NoFields
  <1>3. Shape
    BY <1>2 DEF Shape
  <1>4. Once
    BY <1>2, RangeEmpty DEF Once
  <1>5. \A in \in Owners, at \in Spots, x \in Addr : ~Holds(in, at, x)
    BY <1>2, RangeEmpty, NullNotAddr DEF Holds
  <1> QED
    BY <1>1, <1>3, <1>4, <1>5 DEF Ownership, Alone, RightKind

LEMMA OwnershipUnchanged == ASSUME Ownership, UNCHANGED pctrlVars PROVE Ownership'
  <1>1. PctrlTypeOK' /\ UNCHANGED <<kind, own, list, temp, files>>
    BY PctrlUnchangedType DEF Ownership, pctrlVars
  <1>2. \A in, at, x : Holds(in, at, x)' <=> Holds(in, at, x)
    BY <1>1 DEF Holds
  <1>3. Shape' /\ Once'
    BY <1>1 DEF Ownership, Shape, Once
  <1>4. Alone' /\ RightKind'
    BY <1>1, <1>2 DEF Ownership, Alone, RightKind, Owners, Spots
  <1> QED
    BY <1>1, <1>3, <1>4 DEF Ownership

LEMMA OwnershipStep == ASSUME Ownership, [PctrlNext]_pctrlVars PROVE Ownership'
  <1>1. CASE UNCHANGED pctrlVars
    BY <1>1, OwnershipUnchanged
  <1>2. ASSUME NEW k \in Tx, NEW p \in Priorities(k), NewTransaction(k, p)
        PROVE  Ownership'
    BY <1>2, PrioritiesType, NewTransactionOwns
  <1>3. ASSUME NEW k \in Tx, NewTransactionFails(k)
        PROVE  Ownership'
    BY <1>3, NewTransactionFailsOwns
  <1>4. ASSUME NEW k \in Items, CommitItem(k)
        PROVE  Ownership'
    BY <1>4, CommitItemOwns
  <1>5. ASSUME NEW l \in StringLists, AddString(l) \/ FileSetString(l) \/ FileSetStringFails(l)
        PROVE  Ownership'
    BY <1>5, StringsOwn
  <1>6. CASE AddStringAppendFails
    BY <1>6, StringsOwn DEF StringLists
  <1>7. ASSUME NEW fail \in CommitFailures, CommitFile(fail)
        PROVE  Ownership'
    BY <1>7, CommitFileOwns
  <1>8. CASE CommitChunk \/ CommitChunkFails \/ ChunkSetPieceHashes
    BY <1>8, CommitChunkOwns, CommitChunkFailsOwns, ChunkSetPieceHashesOwns
  <1>9. CASE CommitSignature
    BY <1>9, CommitSignatureOwns
  <1>10. CASE AccumulateFiles \/ AccumulateFilesFails
    BY <1>10, AccumulateFilesOwns, AccumulateFilesFailsOwns
  <1>11. ASSUME NEW detach \in BOOLEAN, DeleteSession(detach)
         PROVE  Ownership'
    BY <1>11, DeleteSessionOwns
  <1>12. CASE AppDelete
    BY <1>12, AppDeleteOwns
  <1> QED
    BY <1>1, <1>2, <1>3, <1>4, <1>5, <1>6, <1>7, <1>8, <1>9, <1>10, <1>11, <1>12
    DEF PctrlNext

\* What is held, pointer by pointer, in terms of places.
LEMMA HeldIsHolds ==
  ASSUME PctrlTypeOK, NEW p \in Held
  PROVE  /\ p.in \in Owners /\ p.at \in Spots /\ p.obj \in Addr
         /\ Holds(p.in, p.at, p.obj)
         /\ p = [in |-> p.in, at |-> p.at, i |-> p.i, obj |-> p.obj]
         /\ p.in = NULL /\ p.at \in Lists =>
              p.i \in DOMAIN list[p.at] /\ list[p.at][p.i] = p.obj
         /\ p.in = NULL /\ p.at \in Tx => p.i = 1
         /\ p.in = NULL /\ p.at = "metalink" => p.i \in DOMAIN files /\ files[p.i] = p.obj
         /\ p.in # NULL => /\ p.in \in Addr /\ p.at \in Slots
                           /\ p.i \in DOMAIN own[p.in][p.at] /\ own[p.in][p.at][p.i] = p.obj
  <1>0. /\ list \in [Lists -> Seq(Addr)] /\ temp \in [Tx -> Addr \cup {NULL}]
        /\ files \in Seq(Addr) /\ own \in [Addr -> [Slots -> Seq(Addr)]]
        /\ NULL \notin Addr /\ NULL \in Owners /\ Addr \subseteq Owners
        /\ Lists \cap Tx = {} /\ "metalink" \notin Lists \cup Tx
        /\ Lists \cup Tx \cup Slots \cup {"metalink"} \subseteq Spots
    BY NullNotAddr, Apart DEF PctrlTypeOK, CtrlTypeOK, HeapTypeOK, Owners, Spots
  <1>1. \A t \in Seq(Addr) : \A i \in DOMAIN t : t[i] \in Range(t) /\ t[i] \in Addr
    BY RangeInSet DEF Range
  <1>2. ASSUME NEW l \in Lists, p \in Pointers(NULL, l, list[l])
        PROVE  /\ p.in = NULL /\ p.at = l
               /\ p = [in |-> p.in, at |-> p.at, i |-> p.i, obj |-> p.obj]
               /\ p.i \in DOMAIN list[l] /\ list[l][p.i] = p.obj
    BY <1>2 DEF Pointers
  <1>3. ASSUME NEW k \in Tx, temp[k] # NULL, p \in Pointers(NULL, k, <<temp[k]>>)
        PROVE  /\ p.in = NULL /\ p.at = k
               /\ p = [in |-> p.in, at |-> p.at, i |-> p.i, obj |-> p.obj]
               /\ p.i = 1 /\ p.obj = temp[k]
    BY <1>3 DEF Pointers
  <1>4. ASSUME p \in Pointers(NULL, "metalink", files)
        PROVE  /\ p.in = NULL /\ p.at = "metalink"
               /\ p = [in |-> p.in, at |-> p.at, i |-> p.i, obj |-> p.obj]
               /\ p.i \in DOMAIN files /\ files[p.i] = p.obj
    BY <1>4 DEF Pointers
  <1>5. ASSUME NEW a \in Addr, NEW s \in Slots, p \in Pointers(a, s, own[a][s])
        PROVE  /\ p.in = a /\ p.at = s
               /\ p = [in |-> p.in, at |-> p.at, i |-> p.i, obj |-> p.obj]
               /\ p.i \in DOMAIN own[a][s] /\ own[a][s][p.i] = p.obj
    BY <1>5 DEF Pointers
  <1>6. \/ \E l \in Lists : p \in Pointers(NULL, l, list[l])
        \/ \E k \in Tx : temp[k] # NULL /\ p \in Pointers(NULL, k, <<temp[k]>>)
        \/ p \in Pointers(NULL, "metalink", files)
        \/ \E a \in Addr, s \in Slots : p \in Pointers(a, s, own[a][s])
    BY DEF Held
  <1>7. CASE \E l \in Lists : p \in Pointers(NULL, l, list[l])
    BY <1>0, <1>1, <1>2, <1>7 DEF Holds
  <1>8. CASE \E k \in Tx : temp[k] # NULL /\ p \in Pointers(NULL, k, <<temp[k]>>)
    BY <1>0, <1>3, <1>8 DEF Holds
  <1>9. CASE p \in Pointers(NULL, "metalink", files)
    BY <1>0, <1>1, <1>4, <1>9 DEF Holds
  <1>10. CASE \E a \in Addr, s \in Slots : p \in Pointers(a, s, own[a][s])
    <2>1. PICK a \in Addr, s \in Slots : p \in Pointers(a, s, own[a][s])
      BY <1>10
    <2>2. /\ p.in = a /\ p.at = s
          /\ p = [in |-> p.in, at |-> p.at, i |-> p.i, obj |-> p.obj]
          /\ p.i \in DOMAIN own[a][s] /\ own[a][s][p.i] = p.obj
      BY <1>5, <2>1
    <2>3. own[a][s] \in Seq(Addr)
      BY <1>0
    <2>4. p.obj \in Range(own[a][s]) /\ p.obj \in Addr
      BY <1>1, <2>2, <2>3
    <2>5. a # NULL /\ a \in Owners /\ s \in Spots
      BY <1>0
    <2>6. Holds(a, s, p.obj)
      BY <2>4 DEF Holds
    <2> QED
      BY <2>2, <2>4, <2>5, <2>6
  <1> QED
    BY <1>6, <1>7, <1>8, <1>9, <1>10

LEMMA OwnershipMeans == ASSUME Ownership PROVE SingleOwner /\ NoDanglingNoConfusion
  <1>1. SingleOwner
    <2> SUFFICES ASSUME NEW p \in Held, NEW q \in Held, p.obj = q.obj PROVE p = q
      BY DEF SingleOwner
    <2>1. p.in = q.in /\ p.at = q.at
      BY HeldIsHolds DEF Ownership, Alone
    <2>2. p.i = q.i
      <3>0. PctrlTypeOK /\ Once
        BY DEF Ownership
      <3>1. CASE p.in = NULL /\ p.at \in Lists
        <4>1. /\ p.i \in DOMAIN list[p.at] /\ list[p.at][p.i] = p.obj
              /\ q.i \in DOMAIN list[p.at] /\ list[p.at][q.i] = p.obj
          BY <2>1, <3>0, <3>1, HeldIsHolds
        <4>2. IsInjective(list[p.at])
          BY <3>0, <3>1 DEF Once
        <4> QED
          BY <4>1, <4>2 DEF IsInjective
      <3>2. CASE p.in = NULL /\ p.at \in Tx
        BY <2>1, <3>0, <3>2, HeldIsHolds
      <3>3. CASE p.in = NULL /\ p.at = "metalink"
        <4>1. /\ p.i \in DOMAIN files /\ files[p.i] = p.obj
              /\ q.i \in DOMAIN files /\ files[q.i] = p.obj
          BY <2>1, <3>0, <3>3, HeldIsHolds
        <4>2. IsInjective(files)
          BY <3>0 DEF Once
        <4> QED
          BY <4>1, <4>2 DEF IsInjective
      <3>4. CASE p.in # NULL
        <4>1. /\ p.in \in Addr /\ p.at \in Slots
              /\ p.i \in DOMAIN own[p.in][p.at] /\ own[p.in][p.at][p.i] = p.obj
              /\ q.i \in DOMAIN own[p.in][p.at] /\ own[p.in][p.at][q.i] = p.obj
          BY <2>1, <3>0, <3>4, HeldIsHolds
        <4>2. IsInjective(own[p.in][p.at])
          BY <3>0, <4>1 DEF Once
        <4> QED
          BY <4>1, <4>2 DEF IsInjective
      <3>5. Holds(p.in, p.at, p.obj)
        BY HeldIsHolds DEF Ownership
      <3> QED
        BY <3>1, <3>2, <3>3, <3>4, <3>5, NullNotAddr DEF Holds
    <2> QED
      BY <2>1, <2>2, HeldIsHolds DEF Ownership
  <1>2. NoDanglingNoConfusion
    BY HeldIsHolds DEF Ownership, RightKind, NoDanglingNoConfusion
  <1> QED
    BY <1>1, <1>2

\* The functions of lib/metalink_pctrl.c keep the ownership invariant, in any
\* order and with any allocation failing.
THEOREM OwnershipHolds == PctrlSpec => []Ownership
  <1>1. Ownership /\ [PctrlNext]_pctrlVars => Ownership'
    BY OwnershipStep
  <1> QED
    BY <1>1, OwnershipInit, PTL DEF PctrlSpec

\* No object is ever held in two places: no destructor frees one twice.
THEOREM NoObjectHeldTwice == PctrlSpec => []SingleOwner
  <1>1. Ownership => SingleOwner
    BY OwnershipMeans
  <1> QED
    BY <1>1, OwnershipHolds, PTL

\* Nothing that is held was freed, or is of another kind than the destructor or
\* the cast at that place expects.
THEOREM NothingHeldIsFreed == PctrlSpec => []NoDanglingNoConfusion
  <1>1. Ownership => NoDanglingNoConfusion
    BY OwnershipMeans
  <1> QED
    BY <1>1, OwnershipHolds, PTL

-----------------------------------------------------------------------------
(***************************************************************************)
(* Committed files stay sorted.  They are no longer the open file, and     *)
(* what is neither free before a step nor freed by it keeps its fields,    *)
(* except the two objects that are open.                                   *)
(***************************************************************************)
Committed == Range(files) \cup Range(list["files"])

LEMMA CommittedIsHeld ==
  ASSUME Ownership, NEW f \in Committed
  PROVE  /\ f \in Addr /\ kind[f] = "file" /\ f # temp["file"] /\ f # temp["chunk"]
         /\ \A s \in SortedSlots : s \in Slots /\ own[f][s] \in Seq(Addr)
         /\ \A s \in SortedSlots : \A x \in Range(own[f][s]) :
              x \in Addr /\ kind[x] \notin {"unused", "freed"}
  <1>n. /\ "files" \in Lists /\ SortedSlots \subseteq Slots
        /\ {"file", "chunk"} \subseteq Tx
        /\ NULL \in Owners /\ NULL \notin Addr
        /\ {"files", "metalink", "file"} \cup Slots \subseteq Spots
        /\ Addr \subseteq Owners
    BY Names, NullNotAddr DEF SortedSlots, Owners, Spots
  <1>0. list["files"] \in Seq(Addr) /\ files \in Seq(Addr)
    BY <1>n DEF Ownership, PctrlTypeOK, CtrlTypeOK
  <1>1. f \in Addr /\ (Holds(NULL, "files", f) \/ Holds(NULL, "metalink", f))
    BY <1>0, <1>n, RangeInSet DEF Committed, Holds
  <1>2. kind[f] = "file"
    BY <1>1, <1>n, KindOfPlace DEF Ownership, RightKind
  <1>3. f # temp["file"]
    <2>1. f = temp["file"] => Holds(NULL, "file", f)
      BY <1>n DEF Holds
    <2> QED
      BY <1>1, <1>n, <2>1 DEF Ownership, Alone
  <1>4. f # temp["chunk"]
    BY <1>1, <1>2, <1>n, OpenIsHeld
  <1>5. \A s \in SortedSlots : own[f][s] \in Seq(Addr)
    BY <1>1, <1>n DEF Ownership, PctrlTypeOK, HeapTypeOK
  <1>6. ASSUME NEW s \in SortedSlots, NEW x \in Range(own[f][s])
        PROVE  x \in Addr /\ kind[x] \notin {"unused", "freed"}
    <2>1. x \in Addr
      BY <1>5, RangeInSet
    <2>2. Holds(f, s, x)
      BY <1>1, <1>n DEF Holds
    <2> QED
      BY <1>1, <1>n, <2>1, <2>2, HeldIsLive
  <1> QED
    BY <1>1, <1>2, <1>3, <1>4, <1>5, <1>6, <1>n

LEMMA SortedStays ==
  ASSUME Ownership, Ownership', CommittedFilesSorted,
         Committed' \subseteq Committed,
         \A a \in Addr : kind[a] # "unused" /\ kind'[a] # "freed" => prio'[a] = prio[a],
         \A f \in Committed, s \in SortedSlots :
           kind'[f] # "freed" => own'[f][s] = own[f][s]
  PROVE  CommittedFilesSorted'
  <1> SUFFICES ASSUME NEW f \in Committed', NEW s \in SortedSlots
               PROVE  Sorted(own[f][s])'
    BY DEF CommittedFilesSorted, Committed
  <1>1. kind'[f] = "file" /\ \A x \in Range(own'[f][s]) : kind'[x] # "freed"
    <2>n. /\ "files" \in Lists /\ s \in Slots
          /\ NULL \in Owners /\ f \in Addr /\ f \in Owners
          /\ {"files", "metalink"} \subseteq Spots /\ s \in Spots
          /\ KindAt(s) # "freed"
      BY Names, CommittedIsHeld, KindOfPlace DEF SortedSlots, Owners, Spots, Kinds, Tx
    <2>1. Holds(NULL, "files", f)' \/ Holds(NULL, "metalink", f)'
      BY <2>n DEF Committed, Holds
    <2>2. \A x \in Range(own'[f][s]) : x \in Addr /\ Holds(f, s, x)'
      <3>1. own'[f][s] \in Seq(Addr)
        BY <2>n DEF Ownership, PctrlTypeOK, HeapTypeOK
      <3> QED
        BY <2>n, <3>1, RangeInSet DEF Holds
    <2> QED
      BY <2>n, <2>1, <2>2, KindOfPlace DEF Ownership, RightKind
  <1>2. own'[f][s] = own[f][s] /\ \A x \in Range(own[f][s]) : x \in Addr /\ kind[x] # "unused"
    BY <1>1, CommittedIsHeld
  <1>3. Sorted(own[f][s])
    BY DEF CommittedFilesSorted, Committed
  <1>4. \A i \in DOMAIN own[f][s] : prio'[own[f][s][i]] = prio[own[f][s][i]]
    BY <1>1, <1>2 DEF Range
  <1> QED
    BY <1>2, <1>3, <1>4 DEF Sorted

LEMMA CommitFileSorts ==
  ASSUME Ownership, CommittedFilesSorted, NEW fail \in CommitFailures, CommitFile(fail)
  PROVE  CommittedFilesSorted'
  <1> DEFINE f == temp["file"]
  <1>n. /\ "files" \in Lists /\ "files" \notin FileLists /\ "file" \in Tx
        /\ SortedSlots \subseteq FileLists /\ FileLists \subseteq Slots
        /\ {"resources", "metaurls"} \subseteq FileLists
        /\ MovedBefore(fail) \subseteq FileLists
    BY Names, MovedBeforeType DEF SortedSlots
  <1>1. f \in Addr /\ own \in [Addr -> [Slots -> Seq(Addr)]] /\ list["files"] \in Seq(Addr)
    BY <1>n, OpenIsHeld DEF CommitFile, Ownership, PctrlTypeOK, HeapTypeOK, CtrlTypeOK
  <1>2. PICK r \in Arrangements(Collected(f, "resources")),
             m \in Arrangements(Collected(f, "metaurls")) :
          own' = [own EXCEPT ![f] =
                    [s \in Slots |-> IF s \in MovedBefore(fail) THEN Moved(f, s, r, m)
                                     ELSE IF s = fail THEN <<>> ELSE own[f][s]]]
    BY DEF CommitFile
  <1>3. prio' = prio /\ files' = files
    BY DEF CommitFile
  <1>4. list'["files"] = IF fail = "none" THEN Append(list["files"], f) ELSE list["files"]
    BY <1>n DEF CommitFile
  <1>5. Sorted(r) /\ Sorted(m)
    <2>1. /\ Collected(f, "resources") \in Seq(Addr)
          /\ Collected(f, "metaurls") \in Seq(Addr)
      <3>1. PctrlTypeOK
        BY DEF Ownership
      <3> QED
        BY <1>1, <1>n, <3>1, Names, CollectedType
    <2> QED
      BY <2>1, ArrangementsRange
  <1> HIDE DEF f
  <1>6. ASSUME NEW g \in Committed', NEW s \in SortedSlots
        PROVE  Sorted(own[g][s])'
    <2>1. \A t : Sorted(t)' <=> Sorted(t)
      BY <1>3 DEF Sorted
    <2>2. CASE g \in Committed
      <3>1. g \in Addr /\ g # f
        BY <2>2, CommittedIsHeld DEF f
      <3>2. own'[g] = own[g]
        BY <1>1, <1>2, <3>1
      <3>3. Sorted(own[g][s])
        BY <2>2 DEF CommittedFilesSorted, Committed
      <3> QED
        BY <1>3, <3>2, <3>3 DEF Sorted
    <2>3. CASE g \notin Committed
      <3>1. g = f /\ fail = "none"
        BY <1>1, <1>3, <1>4, <2>3, RangeAppend DEF Committed
      <3>2. s \in MovedBefore(fail)
        <4>1. /\ DOMAIN CommitOrder = 1..5
              /\ CommitOrder[3] = "resources" /\ CommitOrder[4] = "metaurls"
              /\ \A i \in 1..5 : CommitOrder[i] # "none"
          BY DEF CommitOrder
        <4>2. \A i \in 1..5 : CommitOrder[i] \in MovedBefore("none")
          BY <4>1 DEF MovedBefore
        <4> QED
          BY <3>1, <4>1, <4>2 DEF SortedSlots
      <3>3. own'[g][s] \in {r, m}
        BY <1>1, <1>2, <1>n, <3>1, <3>2 DEF Moved, SortedSlots
      <3> QED
        BY <1>3, <1>5, <3>3 DEF Sorted
    <2> QED
      BY <2>2, <2>3
  <1> QED
    BY <1>6 DEF CommittedFilesSorted, Committed

LEMMA SortedStep ==
  ASSUME Ownership, CommittedFilesSorted, [PctrlNext]_pctrlVars
  PROVE  CommittedFilesSorted'
  <1>o. Ownership'
    BY OwnershipStep
  <1>n. /\ "files" \in Lists /\ "files" \notin StringLists
        /\ "files" \notin Items /\ \A k \in Items : ListOf[k] # "files"
        /\ \A k \in Tx : "files" \notin Cleared(k)
        /\ SortedSlots \subseteq Slots
        /\ SortedSlots \cap {"signature", "chunk_checksum", "piece_hashes"} = {}
    <2>1. Items = {"resource", "metaurl", "checksum", "piece_hash"}
      BY DEF Items, ListOf
    <2> QED
      BY <2>1, Names, Apart DEF SortedSlots, ListOf
  <1>t. /\ own \in [Addr -> [Slots -> Seq(Addr)]] /\ list \in [Lists -> Seq(Addr)]
        /\ kind \in [Addr -> Kinds \cup {"unused", "freed"}]
    BY DEF Ownership, PctrlTypeOK, HeapTypeOK, CtrlTypeOK
  <1>c. \A f \in Committed : f \in Addr /\ kind[f] = "file" /\ f # temp["file"] /\ f # temp["chunk"]
    BY CommittedIsHeld
  <1>h. ASSUME NEW F, Free(F) \/ \E k, p, h : FreeAndAlloc(F, k, p, h)
        PROVE  /\ \A a \in Addr : kind[a] # "unused" /\ kind'[a] # "freed" => prio'[a] = prio[a]
               /\ \A f \in Committed, s \in SortedSlots :
                    kind'[f] # "freed" => own'[f][s] = own[f][s]
    <2>1. CASE Free(F)
      BY <1>c, <2>1 DEF Free
    <2>2. ASSUME NEW k, NEW p, NEW h, FreeAndAlloc(F, k, p, h)
          PROVE  /\ \A a \in Addr : kind[a] # "unused" /\ kind'[a] # "freed" => prio'[a] = prio[a]
                 /\ \A f \in Committed, s \in SortedSlots :
                      kind'[f] # "freed" => own'[f][s] = own[f][s]
      <3>1. Fresh \in Addr /\ kind[Fresh] = "unused"
        BY <2>2, FreshType DEF FreeAndAlloc
      <3> QED
        BY <1>c, <2>2, <3>1 DEF FreeAndAlloc
    <2> QED
      BY <1>h, <2>1, <2>2
  <1>1. CASE UNCHANGED pctrlVars
    BY <1>1 DEF pctrlVars, CommittedFilesSorted, Sorted
  <1>2. ASSUME NEW k \in Tx, NEW p \in Priorities(k), NewTransaction(k, p)
        PROVE  CommittedFilesSorted'
    <2>1. FreeAndAlloc(Dropped(k), k, p, Enclosing(k)) /\ Committed' \subseteq Committed
      BY <1>2, <1>n DEF NewTransaction, Committed
    <2> QED
      BY <1>h, <1>o, <2>1, SortedStays
  <1>3. ASSUME NEW k \in Tx, NewTransactionFails(k)
        PROVE  CommittedFilesSorted'
    <2>1. Free(Dropped(k)) /\ Committed' \subseteq Committed
      BY <1>3, <1>n DEF NewTransactionFails, Committed
    <2> QED
      BY <1>h, <1>o, <2>1, SortedStays
  <1>4. ASSUME NEW k \in Items, CommitItem(k)
        PROVE  CommittedFilesSorted'
    <2>1. UNCHANGED heapVars /\ Committed' \subseteq Committed
      BY <1>4, <1>n, <1>t DEF CommitItem, Committed
    <2> QED
      BY <1>o, <2>1, SortedStays DEF heapVars
  <1>5. ASSUME NEW l \in StringLists,
               AddString(l) \/ FileSetString(l) \/ FileSetStringFails(l) \/ AddStringAppendFails
        PROVE  CommittedFilesSorted'
    <2>1. FreeAndAlloc({}, "string", Unranked, temp["file"]) \/ UNCHANGED heapVars
      BY <1>5 DEF AddString, FileSetString, FileSetStringFails, AddStringAppendFails
    <2>2. Committed' \subseteq Committed
      BY <1>5, <1>n, <1>t
      DEF AddString, FileSetString, FileSetStringFails, AddStringAppendFails, Committed
    <2>3. CASE FreeAndAlloc({}, "string", Unranked, temp["file"])
      BY <1>h, <1>o, <2>2, <2>3, SortedStays
    <2>4. CASE UNCHANGED heapVars
      BY <1>o, <2>2, <2>4, SortedStays DEF heapVars
    <2> QED
      BY <2>1, <2>3, <2>4
  <1>6. ASSUME NEW fail \in CommitFailures, CommitFile(fail)
        PROVE  CommittedFilesSorted'
    BY <1>6, CommitFileSorts
  <1>7. CASE CommitChunk \/ CommitChunkFails
    <2>1. prio' = prio /\ files' = files /\ list'["files"] = list["files"]
      BY <1>7, <1>n, <1>t DEF CommitChunk, CommitChunkFails
    <2>2. temp["file"] \in Addr /\ temp["chunk"] \in Addr
      BY <1>7, Names, OpenIsHeld DEF CommitChunk, CommitChunkFails
    <2>3. \A f \in Committed : own'[f] = own[f]
      BY <1>7, <1>c, <1>t, <2>2 DEF CommitChunk, CommitChunkFails
    <2> QED
      BY <1>o, <2>1, <2>3, SortedStays DEF Committed
  <1>8. CASE ChunkSetPieceHashes
    <2> DEFINE c == temp["chunk"]
               old == Trees(Range(own[c]["piece_hashes"]))
    <2>1. prio' = prio /\ Committed' \subseteq Committed /\ c \in Addr /\ Fresh \in Addr
          /\ kind[Fresh] = "unused"
      BY <1>8, Names, OpenIsHeld, FreshType DEF ChunkSetPieceHashes, Committed
    <2>2. \A f \in Committed : kind'[f] # "freed" => f \notin old /\ f # c
      BY <1>8, <1>c, <2>1 DEF ChunkSetPieceHashes
    <2>3. \A f \in Committed : f \notin old /\ f # c => own'[f] = own[f]
      BY <1>8, <1>c, <1>t, <2>1 DEF ChunkSetPieceHashes
    <2> QED
      BY <1>o, <2>1, <2>2, <2>3, SortedStays
  <1>9. CASE CommitSignature
    <2> DEFINE e == temp["file"]
               old == Trees(Range(own[e]["signature"]))
    <2>1. prio' = prio /\ Committed' \subseteq Committed /\ e \in Addr
      BY <1>9, Names, OpenIsHeld DEF CommitSignature, Committed
    <2>2. \A f \in Committed : kind'[f] # "freed" => f \notin old /\ f # e
      BY <1>9, <1>c, <2>1 DEF CommitSignature
    <2>3. \A f \in Committed : f \notin old /\ f # e => own'[f] = own[f]
      BY <1>9, <1>c, <1>t, <2>1 DEF CommitSignature
    <2> QED
      BY <1>o, <2>1, <2>2, <2>3, SortedStays
  <1>10. CASE AccumulateFiles \/ AccumulateFilesFails
    <2>1. UNCHANGED heapVars /\ Committed' \subseteq Committed
      BY <1>10, <1>n, <1>t, RangeEmpty DEF AccumulateFiles, AccumulateFilesFails, Committed
    <2> QED
      BY <1>o, <2>1, SortedStays DEF heapVars
  <1>11. ASSUME NEW detach \in BOOLEAN, DeleteSession(detach)
         PROVE  CommittedFilesSorted'
    <2>1. \E F : Free(F)
      BY <1>11 DEF DeleteSession
    <2>2. Committed' \subseteq Committed
      BY <1>11, <1>n, RangeEmpty DEF DeleteSession, Committed
    <2> QED
      BY <1>h, <1>o, <2>1, <2>2, SortedStays
  <1>12. CASE AppDelete
    <2>1. \E F : Free(F)
      BY <1>12 DEF AppDelete
    <2>2. Committed' \subseteq Committed
      BY <1>12, RangeEmpty DEF AppDelete, Committed
    <2> QED
      BY <1>h, <1>o, <2>1, <2>2, SortedStays
  <1>13. CASE AddStringAppendFails
    BY <1>5, <1>13 DEF StringLists
  <1> QED
    BY <1>1, <1>2, <1>3, <1>4, <1>5, <1>6, <1>7, <1>8, <1>9, <1>10, <1>11, <1>12, <1>13
    DEF PctrlNext

LEMMA SortedInit == PctrlInit => CommittedFilesSorted
  BY Names, RangeEmpty DEF PctrlInit, CommittedFilesSorted

\* A committed file's resources and metaurls are in priority order, however often
\* its commit failed half-way before.
THEOREM CommittedStaySorted == PctrlSpec => []CommittedFilesSorted
  <1>1. Ownership /\ CommittedFilesSorted /\ [PctrlNext]_pctrlVars => CommittedFilesSorted'
    BY SortedStep
  <1> QED
    BY <1>1, SortedInit, OwnershipHolds, PTL DEF PctrlSpec

-----------------------------------------------------------------------------
(***************************************************************************)
(* Losing nothing.  Ownership says that no object is held twice; what      *)
(* follows is about objects that are held nowhere: allocated, but out of   *)
(* reach of every destructor.  Retains says of a step that it lets go of   *)
(* no object.  A caller has to see to it that the place an operation       *)
(* overwrites without freeing is empty; that is a hypothesis of each       *)
(* lemma, and the state machine of Pstm the caller that meets it.          *)
(***************************************************************************)
HasHolder(x) == \E in \in Owners, at \in Spots : Holds(in, at, x)

Astray == {x \in Live : ~HasHolder(x)}

Retains == \A x \in Astray' : x \in Astray /\ kind'[x] = kind[x]

LEMMA StillHeld ==
  ASSUME \A x \in Addr : kind'[x] \in Kinds =>
           \/ HasHolder(x)'
           \/ /\ kind'[x] = kind[x]
              /\ \A in \in Owners, at \in Spots : Holds(in, at, x) => HasHolder(x)'
  PROVE  Retains
  <1> SUFFICES ASSUME NEW x \in Astray' PROVE x \in Astray /\ kind'[x] = kind[x]
    BY DEF Retains
  <1>1. x \in Addr /\ kind'[x] \in Kinds /\ ~HasHolder(x)'
    BY DEF Astray, Live
  <1>2. kind'[x] = kind[x] /\ \A in \in Owners, at \in Spots : ~Holds(in, at, x)
    BY <1>1
  <1>3. ~HasHolder(x)
    BY <1>2 DEF HasHolder
  <1> QED
    BY <1>1, <1>2, <1>3 DEF Astray, Live

\* A place that holds x holds it.
LEMMA HolderIs ==
  ASSUME NEW in \in Owners, NEW at \in Spots, NEW x, Holds(in, at, x)'
  PROVE  HasHolder(x)'
  BY DEF HasHolder, Owners, Spots

\* The destructors free what a freed object holds.
LEMMA FreedWhole ==
  ASSUME Ownership, NEW S \in SUBSET Addr, NEW in \in Trees(S), NEW at \in Spots,
         NEW x, Holds(in, at, x)
  PROVE  x \in Trees(S)
  <1>1. in \in Addr /\ in # NULL
    BY TreesAddr, NullNotAddr DEF Ownership
  <1>2. x \in Fields(in)
    BY <1>1, FieldsHeld DEF Holds
  <1> QED
    BY <1>2, TreeClosed

\* What metalink_pctrl_new_<k>_transaction leaves allocated is held where it was,
\* if there is no string in a list that it empties.
LEMMA NewTransactionLeaves ==
  ASSUME Ownership, NEW k \in Tx, \A l \in Cleared(k) \cap StringLists : list[l] = <<>>,
         \A a \in Addr : own'[a] = IF a \in Dropped(k) THEN NoFields ELSE own[a],
         \A t \in Tx \ {k} : temp'[t] = temp[t],
         list' = [l \in Lists |-> IF l \in Cleared(k) THEN <<>> ELSE list[l]],
         files' = files,
         NEW in \in Owners, NEW at \in Spots, NEW x \in Addr, Holds(in, at, x),
         x \notin Dropped(k)
  PROVE  HasHolder(x)'
  <1>0. /\ DroppedRoots(k) \in SUBSET Addr
        /\ Dropped(k) = Trees(DroppedRoots(k))
        /\ DroppedRoots(k) \subseteq Dropped(k)
    BY DroppedRootsHeld, TreesAddr DEF Ownership
  <1>1. in \notin Dropped(k)
    BY <1>0, FreedWhole
  <1>2. CASE in \in Addr
    <2>1. Holds(in, at, x)'
      BY <1>1, <1>2, NullNotAddr DEF Holds
    <2> QED
      BY <2>1, HolderIs
  <1>3. CASE in = NULL
    <2>1. CASE at \in Tx
      <3>1. at # k
        BY <1>0, <1>3, <2>1, NullNotAddr, Apart DEF Holds, DroppedRoots, Open
      <3>2. Holds(in, at, x)'
        BY <1>3, <2>1, <3>1, NullNotAddr, Apart DEF Holds
      <3> QED
        BY <3>2, HolderIs
    <2>2. CASE at \in Lists
      <3>1. x \in Range(list[at])
        BY <1>3, <2>2, NullNotAddr, Apart DEF Holds
      <3>2. at \notin Cleared(k)
        BY <1>0, <3>1, RangeEmpty DEF DroppedRoots
      <3>3. Holds(in, at, x)'
        BY <1>3, <2>2, <3>1, <3>2 DEF Holds
      <3> QED
        BY <3>3, HolderIs
    <2>3. CASE at \notin Tx \cup Lists
      <3>1. Holds(in, at, x)'
        BY <1>3, <2>3, NullNotAddr DEF Holds
      <3> QED
        BY <3>1, HolderIs
    <2> QED
      BY <2>1, <2>2, <2>3
  <1> QED
    BY <1>2, <1>3 DEF Owners

LEMMA NewTransactionRetains ==
  ASSUME Ownership, NEW k \in Tx, NEW p, NewTransaction(k, p),
         \A l \in Cleared(k) \cap StringLists : list[l] = <<>>
  PROVE  Retains
  <1>0. Fresh \in Addr /\ NULL \in Owners /\ k \in Spots
    BY FreshType DEF NewTransaction, FreeAndAlloc, Owners, Spots
  <1>1. /\ temp' = [temp EXCEPT ![k] = Fresh]
        /\ list' = [l \in Lists |-> IF l \in Cleared(k) THEN <<>> ELSE list[l]]
        /\ files' = files
        /\ kind' = [a \in Addr |-> IF a = Fresh THEN k
                                   ELSE IF a \in Dropped(k) THEN "freed" ELSE kind[a]]
        /\ \A a \in Addr : own'[a] = IF a \in Dropped(k) THEN NoFields ELSE own[a]
    BY DEF NewTransaction, FreeAndAlloc
  <1>2. temp \in [Tx -> Addr \cup {NULL}]
    BY DEF Ownership, PctrlTypeOK, CtrlTypeOK
  <1>f. PICK new : new = Fresh
    OBVIOUS
  <1>3. Holds(NULL, k, new)'
    BY <1>1, <1>2, <1>f DEF Holds
  <1>4. HasHolder(new)'
    BY <1>0, <1>3, HolderIs
  <1>5. ASSUME NEW x \in Addr, kind'[x] \in Kinds, x # new
        PROVE  x \notin Dropped(k) /\ kind'[x] = kind[x]
    BY <1>1, <1>5, <1>f DEF Kinds, Tx
  <1>6. \A t \in Tx \ {k} : temp'[t] = temp[t]
    BY <1>1, <1>2
  <1>7. \A x \in Addr, in \in Owners, at \in Spots :
          x \notin Dropped(k) /\ Holds(in, at, x) => HasHolder(x)'
    BY <1>1, <1>6, NewTransactionLeaves
  <1> QED
    BY <1>4, <1>5, <1>7, StillHeld

LEMMA NewTransactionFailsRetains ==
  ASSUME Ownership, NEW k \in Tx, NewTransactionFails(k),
         \A l \in Cleared(k) \cap StringLists : list[l] = <<>>
  PROVE  Retains
  <1>1. /\ temp' = [temp EXCEPT ![k] = NULL]
        /\ list' = [l \in Lists |-> IF l \in Cleared(k) THEN <<>> ELSE list[l]]
        /\ files' = files
        /\ kind' = [a \in Addr |-> IF a \in Dropped(k) THEN "freed" ELSE kind[a]]
        /\ \A a \in Addr : own'[a] = IF a \in Dropped(k) THEN NoFields ELSE own[a]
    BY DEF NewTransactionFails, Free
  <1>2. temp \in [Tx -> Addr \cup {NULL}]
    BY DEF Ownership, PctrlTypeOK, CtrlTypeOK
  <1>3. ASSUME NEW x \in Addr, kind'[x] \in Kinds
        PROVE  x \notin Dropped(k) /\ kind'[x] = kind[x]
    BY <1>1, <1>3 DEF Kinds, Tx
  <1>4. \A t \in Tx \ {k} : temp'[t] = temp[t]
    BY <1>1, <1>2
  <1>5. \A x \in Addr, in \in Owners, at \in Spots :
          x \notin Dropped(k) /\ Holds(in, at, x) => HasHolder(x)'
    BY <1>1, <1>4, NewTransactionLeaves
  <1> QED
    BY <1>3, <1>5, StillHeld

LEMMA CommitItemRetains ==
  ASSUME Ownership, NEW k \in Items, CommitItem(k)
  PROVE  Retains
  <1> DEFINE l == ListOf[k]
  <1>0. /\ k \in Tx /\ l \in Lists /\ NULL \in Owners /\ l \in Spots
        /\ temp[k] \in Addr /\ list[l] \in Seq(Addr)
    BY Names DEF CommitItem, Ownership, PctrlTypeOK, CtrlTypeOK, Owners, Spots
  <1>1. /\ UNCHANGED <<kind, own, files>>
        /\ list' = [list EXCEPT ![l] = Append(list[l], temp[k])]
        /\ temp' = [temp EXCEPT ![k] = NULL]
    BY DEF CommitItem, heapVars
  <1>2. /\ \A m \in Lists \ {l} : list'[m] = list[m]
        /\ Range(list'[l]) = Range(list[l]) \cup {temp[k]}
        /\ \A t \in Tx \ {k} : temp'[t] = temp[t]
    <2>1. list'[l] = Append(list[l], temp[k])
      BY <1>0, <1>1 DEF Ownership, PctrlTypeOK, CtrlTypeOK
    <2> QED
      BY <1>0, <1>1, <2>1, RangeAppend DEF Ownership, PctrlTypeOK, CtrlTypeOK
  <1> HIDE DEF l
  <1>3. ASSUME NEW x \in Addr, NEW in \in Owners, NEW at \in Spots, Holds(in, at, x)
        PROVE  HasHolder(x)'
    <2>1. Holds(in, at, x)' \/ Holds(NULL, l, x)'
      BY <1>0, <1>1, <1>2, <1>3 DEF Holds
    <2> QED
      BY <1>0, <2>1, HolderIs
  <1> QED
    BY <1>1, <1>3, StillHeld

\* A copy that is lost is a string.
LEMMA StringRetains ==
  ASSUME Ownership, NEW l \in StringLists, AddString(l) \/ AddStringAppendFails
  PROVE  /\ AddString(l) => Retains
         /\ \A x \in Astray' : (x \in Astray /\ kind'[x] = kind[x]) \/ kind'[x] = "string"
  <1>0. /\ Fresh \in Addr /\ NULL \in Owners /\ l \in Spots /\ l \in Lists
        /\ list[l] \in Seq(Addr)
    BY FreshType, Names DEF AddString, AddStringAppendFails, FreeAndAlloc, Owners, Spots,
       Ownership, PctrlTypeOK, CtrlTypeOK
  <1>1. /\ UNCHANGED <<temp, files>>
        /\ kind' = [a \in Addr |-> IF a = Fresh THEN "string" ELSE kind[a]]
        /\ \A a \in Addr : own'[a] = own[a]
    BY DEF AddString, AddStringAppendFails, FreeAndAlloc
  <1>2. /\ \A m \in Lists \ {l} : list'[m] = list[m]
        /\ Range(list[l]) \subseteq Range(list'[l])
        /\ AddString(l) => Fresh \in Range(list'[l])
    <2>1. list'[l] = list[l] \/ list'[l] = Append(list[l], Fresh)
      BY <1>0 DEF AddString, AddStringAppendFails, Ownership, PctrlTypeOK, CtrlTypeOK
    <2>2. AddString(l) => list'[l] = Append(list[l], Fresh)
      BY <1>0 DEF AddString, Ownership, PctrlTypeOK, CtrlTypeOK
    <2>3. Range(Append(list[l], Fresh)) = Range(list[l]) \cup {Fresh}
      BY <1>0, RangeAppend
    <2>4. \A m \in Lists \ {l} : list'[m] = list[m]
      BY DEF AddString, AddStringAppendFails, Ownership, PctrlTypeOK, CtrlTypeOK
    <2> QED
      BY <2>1, <2>2, <2>3, <2>4
  <1>3. ASSUME NEW x \in Addr, NEW in \in Owners, NEW at \in Spots, Holds(in, at, x)
        PROVE  HasHolder(x)'
    <2>1. Holds(in, at, x)'
      BY <1>0, <1>1, <1>2, <1>3 DEF Holds
    <2> QED
      BY <2>1, HolderIs
  <1>f. PICK new : new = Fresh
    OBVIOUS
  <1>4. AddString(l) => HasHolder(new)'
    <2>1. AddString(l) => Holds(NULL, l, new)'
      BY <1>0, <1>2, <1>f DEF Holds
    <2> QED
      BY <1>0, <2>1, HolderIs
  <1> SUFFICES ASSUME NEW x \in Astray'
               PROVE  \/ x \in Astray /\ kind'[x] = kind[x]
                      \/ ~AddString(l) /\ kind'[x] = "string"
    BY DEF Retains
  <1>5. x \in Addr /\ kind'[x] \in Kinds /\ ~HasHolder(x)'
    BY DEF Astray, Live
  <1>6. CASE x = new
    BY <1>1, <1>4, <1>5, <1>6, <1>f
  <1>7. CASE x # new
    <2>1. kind'[x] = kind[x]
      BY <1>1, <1>5, <1>7, <1>f
    <2>2. ~HasHolder(x)
      BY <1>3, <1>5 DEF HasHolder
    <2> QED
      BY <1>5, <2>1, <2>2 DEF Astray, Live
  <1> QED
    BY <1>6, <1>7

\* The arrays a file takes over must be empty: they are overwritten.
LEMMA CommitFileRetains ==
  ASSUME Ownership, NEW fail \in CommitFailures, CommitFile(fail),
         \A s \in FileLists : own[temp["file"]][s] = <<>>
  PROVE  Retains
  <1> DEFINE f == temp["file"]
             MB == MovedBefore(fail)
             done == fail = "none"
  <1>0. f \in Addr /\ f # NULL /\ MB \subseteq FileLists /\ FileLists \subseteq Slots
    BY Names, OpenIsHeld, MovedBeforeType, NullNotAddr DEF CommitFile
  <1>n. /\ "files" \in Lists \ FileLists /\ FileLists \subseteq Lists
        /\ "file" \in Tx /\ {"file", "files"} \subseteq Spots
        /\ NULL \in Owners /\ NULL \notin Addr /\ f \in Owners /\ Slots \subseteq Spots
    BY <1>0, Names, NullNotAddr DEF Spots, Owners
  <1>1. /\ \A a \in Addr \ {f} : own'[a] = own[a]
        /\ \A s \in MB : Range(own'[f][s]) = Range(Collected(f, s))
        /\ \A s \in Slots \ FileLists : own'[f][s] = own[f][s]
    BY CommitFileFields
  <1>2. /\ kind' = kind /\ files' = files
        /\ temp' = IF done THEN [temp EXCEPT !["file"] = NULL] ELSE temp
        /\ list' = [l \in Lists |->
                      IF l \in MB THEN <<>>
                      ELSE IF l = "files" /\ done THEN Append(list[l], f) ELSE list[l]]
    BY DEF CommitFile
  <1>3. /\ \A l \in Lists \ MB : Range(list[l]) \subseteq Range(list'[l])
        /\ done => f \in Range(list'["files"])
        /\ \A k \in Tx : k # "file" \/ ~done => temp'[k] = temp[k]
    <2>1. Range(Append(list["files"], f)) = Range(list["files"]) \cup {f}
      BY <1>0, <1>n, RangeAppend DEF Ownership, PctrlTypeOK, CtrlTypeOK
    <2>2. list'["files"] = IF done THEN Append(list["files"], f) ELSE list["files"]
      BY <1>0, <1>2, <1>n
    <2>3. \A l \in Lists \ MB : l # "files" => list'[l] = list[l]
      BY <1>2
    <2>4. \A k \in Tx : k # "file" \/ ~done => temp'[k] = temp[k]
      BY <1>2 DEF Ownership, PctrlTypeOK, CtrlTypeOK
    <2> QED
      BY <2>1, <2>2, <2>3, <2>4
  <1>4. \A s \in FileLists : own[f][s] = <<>>
    OBVIOUS
  <1> HIDE DEF MB, done
  <1>5. ASSUME NEW x \in Addr, NEW in \in Owners, NEW at \in Spots, Holds(in, at, x)
        PROVE  \E i \in Owners, s \in Spots : Holds(i, s, x)'
    <2>f. PICK g : g = f
      OBVIOUS
    <2>1. CASE in = NULL /\ at \in Lists /\ x \in Range(list[at])
      <3>1. CASE at \in MB
        <4>1. x \in Range(own'[f][at])
          BY <1>1, <2>1, <3>1, RangeEmpty DEF Collected
        <4>2. Holds(g, at, x)'
          BY <1>0, <2>f, <3>1, <4>1 DEF Holds
        <4> QED
          BY <1>n, <2>f, <4>2
      <3>2. CASE at \notin MB
        <4>1. Holds(NULL, at, x)'
          BY <1>3, <2>1, <3>2 DEF Holds
        <4> QED
          BY <1>n, <4>1
      <3> QED
        BY <3>1, <3>2
    <2>2. CASE in = NULL /\ at \in Tx /\ x = temp[at]
      <3>1. CASE at = "file" /\ done
        <4>1. Holds(NULL, "files", x)'
          BY <1>3, <1>n, <2>2, <3>1 DEF Holds
        <4> QED
          BY <1>n, <4>1
      <3>2. CASE ~(at = "file" /\ done)
        <4>1. Holds(NULL, at, x)'
          BY <1>3, <2>2, <3>2 DEF Holds
        <4> QED
          BY <1>n, <4>1
      <3> QED
        BY <3>1, <3>2
    <2>3. CASE in = NULL /\ at = "metalink" /\ x \in Range(files)
      <3>1. Holds(NULL, at, x)'
        BY <1>2, <2>3 DEF Holds
      <3> QED
        BY <1>n, <3>1
    <2>4. CASE in \in Addr /\ at \in Slots /\ x \in Range(own[in][at])
      <3>1. own'[in][at] = own[in][at]
        <4>1. in = f => at \notin FileLists
          BY <1>4, <2>4, RangeEmpty
        <4> QED
          BY <1>1, <2>4, <4>1
      <3>2. Holds(in, at, x)'
        BY <2>4, <3>1 DEF Holds
      <3> QED
        BY <3>2
    <2> QED
      BY <1>5, <2>1, <2>2, <2>3, <2>4 DEF Holds
  <1>6. \A x \in Addr, in \in Owners, at \in Spots : Holds(in, at, x) => HasHolder(x)'
    BY <1>5 DEF HasHolder, Owners, Spots
  <1> QED
    BY <1>2, <1>6, StillHeld

\* So must the pointers a chunk checksum and its file take over.
LEMMA CommitChunkRetains ==
  ASSUME Ownership, CommitChunk,
         own[temp["chunk"]]["piece_hashes"] = <<>>,
         own[temp["file"]]["chunk_checksum"] = <<>>
  PROVE  Retains
  <1>c. PICK c : c = temp["chunk"]
    OBVIOUS
  <1>f. PICK f : f = temp["file"]
    OBVIOUS
  <1>0. c \in Addr /\ f \in Addr /\ c # f
    BY <1>c, <1>f, Names, OpenIsHeld DEF CommitChunk
  <1>n. /\ "piece_hashes" \in Lists /\ "piece_hashes" \in Slots
        /\ "chunk_checksum" \in Slots /\ "chunk" \in Tx
        /\ {"piece_hashes", "chunk_checksum"} \subseteq Spots
        /\ NULL \in Owners /\ NULL \notin Addr /\ c \in Owners /\ f \in Owners
    BY <1>0, Names, NullNotAddr DEF Spots, Owners
  <1>1. own \in [Addr -> [Slots -> Seq(Addr)]]
    BY DEF Ownership, PctrlTypeOK, HeapTypeOK
  <1>2. /\ \A a \in Addr \ {c, f} : own'[a] = own[a]
        /\ \A s \in Slots \ {"piece_hashes"} : own'[c][s] = own[c][s]
        /\ \A s \in Slots \ {"chunk_checksum"} : own'[f][s] = own[f][s]
        /\ own'[c]["piece_hashes"] = Collected(c, "piece_hashes")
        /\ own'[f]["chunk_checksum"] = <<c>>
    <2>1. own' = [own EXCEPT ![c] = [@ EXCEPT !["piece_hashes"] = Collected(c, "piece_hashes")],
                             ![f] = [@ EXCEPT !["chunk_checksum"] = <<c>>]]
      BY <1>c, <1>f DEF CommitChunk
    <2> QED
      BY <1>0, <1>1, <1>n, <2>1
  <1>3. /\ kind' = kind /\ files' = files
        /\ \A k \in Tx \ {"chunk"} : temp'[k] = temp[k]
        /\ \A l \in Lists \ {"piece_hashes"} : list'[l] = list[l]
    BY <1>n DEF CommitChunk, Ownership, PctrlTypeOK, CtrlTypeOK
  <1>4. ASSUME NEW x \in Addr, NEW in \in Owners, NEW at \in Spots, Holds(in, at, x)
        PROVE  \E i \in Owners, s \in Spots : Holds(i, s, x)'
    <2>1. CASE in = NULL /\ at \in Lists /\ x \in Range(list[at])
      <3>1. CASE at = "piece_hashes"
        <4>1. x \in Range(own'[c][at])
          BY <1>2, <2>1, <3>1, RangeEmpty DEF Collected
        <4>2. Holds(c, at, x)'
          BY <1>0, <1>n, <3>1, <4>1 DEF Holds
        <4> QED
          BY <1>n, <4>2
      <3>2. CASE at # "piece_hashes"
        <4>1. Holds(NULL, at, x)'
          BY <1>3, <2>1, <3>2 DEF Holds
        <4> QED
          BY <1>n, <4>1
      <3> QED
        BY <3>1, <3>2
    <2>2. CASE in = NULL /\ at \in Tx /\ x = temp[at]
      <3>1. CASE at = "chunk"
        <4>1. Holds(f, "chunk_checksum", x)'
          BY <1>0, <1>2, <1>c, <1>n, <2>2, <3>1, RangeOne DEF Holds
        <4> QED
          BY <1>n, <4>1
      <3>2. CASE at # "chunk"
        <4>1. Holds(NULL, at, x)'
          BY <1>3, <2>2, <3>2 DEF Holds
        <4> QED
          BY <1>n, <4>1
      <3> QED
        BY <3>1, <3>2
    <2>3. CASE in = NULL /\ at = "metalink" /\ x \in Range(files)
      <3>1. Holds(NULL, at, x)'
        BY <1>3, <2>3 DEF Holds
      <3> QED
        BY <1>n, <3>1
    <2>4. CASE in \in Addr /\ at \in Slots /\ x \in Range(own[in][at])
      <3>1. own'[in][at] = own[in][at]
        <4>1. ~(in = c /\ at = "piece_hashes") /\ ~(in = f /\ at = "chunk_checksum")
          BY <1>c, <1>f, <2>4, RangeEmpty
        <4> QED
          BY <1>2, <2>4, <4>1
      <3>2. Holds(in, at, x)'
        BY <2>4, <3>1 DEF Holds
      <3> QED
        BY <3>2
    <2> QED
      BY <1>4, <2>1, <2>2, <2>3, <2>4 DEF Holds
  <1>5. \A x \in Addr, in \in Owners, at \in Spots : Holds(in, at, x) => HasHolder(x)'
    BY <1>4 DEF HasHolder, Owners, Spots
  <1> QED
    BY <1>3, <1>5, StillHeld

LEMMA SameRetains ==
  ASSUME UNCHANGED <<kind, own, list, temp, files>> PROVE Retains
  BY DEF Retains, Astray, Live, HasHolder, Holds, Owners, Spots

LEMMA CommitChunkFailsRetains ==
  ASSUME Ownership, CommitChunkFails, own[temp["chunk"]]["piece_hashes"] = <<>>
  PROVE  Retains
  <1>1. own' = own
    BY Names DEF CommitChunkFails, Ownership, PctrlTypeOK, HeapTypeOK, CtrlTypeOK
  <1> QED
    BY <1>1, SameRetains DEF CommitChunkFails

\* The signature that is replaced is freed, with all it holds.
LEMMA CommitSignatureRetains ==
  ASSUME Ownership, CommitSignature
  PROVE  Retains
  <1>f. PICK f : f = temp["file"]
    OBVIOUS
  <1>g. PICK g : g = temp["signature"]
    OBVIOUS
  <1>o. PICK S : S = Range(own[f]["signature"])
    OBVIOUS
  <1>0. /\ f \in Addr /\ g \in Addr /\ "signature" \in Slots /\ "signature" \in Tx
        /\ "signature" \in Spots /\ "signature" \notin Lists /\ "signature" # "metalink"
        /\ NULL \in Owners /\ NULL \notin Addr /\ f \in Owners
        /\ S \in SUBSET Addr
    <2>1. f \in Addr /\ g \in Addr /\ "signature" \in Slots
      BY <1>f, <1>g, Names, OpenIsHeld DEF CommitSignature
    <2>2. S \in SUBSET Addr
      BY <1>o, <2>1, RangeInSet DEF Ownership, PctrlTypeOK, HeapTypeOK
    <2> QED
      BY <2>1, <2>2, Names, NullNotAddr, Apart DEF Owners, Spots
  <1>1. /\ \A a \in Addr : a # f /\ a \notin Trees(S) => own'[a] = own[a]
        /\ f \notin Trees(S) => \A s \in Slots \ {"signature"} : own'[f][s] = own[f][s]
        /\ own'[f]["signature"] = <<g>>
        /\ \A a \in Addr : kind'[a] = IF a \in Trees(S) THEN "freed" ELSE kind[a]
        /\ UNCHANGED <<list, files>>
        /\ \A k \in Tx \ {"signature"} : temp'[k] = temp[k]
    <2>1. /\ own' = [[a \in Addr |-> IF a \in Trees(S) THEN NoFields ELSE own[a]]
                      EXCEPT ![f] = [@ EXCEPT !["signature"] = <<g>>]]
          /\ \A a \in Addr : kind'[a] = IF a \in Trees(S) THEN "freed" ELSE kind[a]
          /\ UNCHANGED <<list, files>>
          /\ temp' = [temp EXCEPT !["signature"] = NULL]
      BY <1>f, <1>g, <1>o DEF CommitSignature
    <2>2. NoFields \in [Slots -> Seq(Addr)]
      BY NoFieldsType
    <2>3. /\ own \in [Addr -> [Slots -> Seq(Addr)]]
          /\ temp \in [Tx -> Addr \cup {NULL}]
      BY DEF Ownership, PctrlTypeOK, HeapTypeOK, CtrlTypeOK
    <2> QED
      BY <1>0, <2>1, <2>2, <2>3
  <1>2. S \subseteq Trees(S)
    BY <1>0, TreesAddr DEF Ownership
  <1>3. ASSUME NEW x \in Addr \ Trees(S), NEW in \in Owners, NEW at \in Spots, Holds(in, at, x)
        PROVE  \E i \in Owners, s \in Spots : Holds(i, s, x)'
    <2>0. in \notin Trees(S)
      BY <1>0, <1>3, FreedWhole
    <2>1. CASE in = NULL /\ at = "signature"
      <3>1. x = g
        BY <1>0, <1>3, <1>g, <2>1 DEF Holds
      <3>2. Holds(f, "signature", x)'
        BY <1>0, <1>1, <3>1, RangeOne DEF Holds
      <3> QED
        BY <1>0, <3>2
    <2>2. CASE in = NULL /\ at # "signature"
      <3>1. Holds(in, at, x)'
        BY <1>0, <1>1, <1>3, <2>2 DEF Holds
      <3> QED
        BY <3>1
    <2>3. CASE in \in Addr
      <3>1. at \in Slots /\ x \in Range(own[in][at])
        BY <1>0, <1>3, <2>3 DEF Holds
      <3>2. ~(in = f /\ at = "signature")
        BY <1>2, <1>3, <1>o, <3>1
      <3>3. own'[in][at] = own[in][at]
        BY <1>1, <2>0, <2>3, <3>1, <3>2
      <3>4. Holds(in, at, x)'
        BY <2>3, <3>1, <3>3 DEF Holds
      <3> QED
        BY <3>4
    <2> QED
      BY <2>1, <2>2, <2>3 DEF Owners
  <1>4. \A x \in Addr \ Trees(S), in \in Owners, at \in Spots : Holds(in, at, x) => HasHolder(x)'
    BY <1>3 DEF HasHolder, Owners, Spots
  <1>5. \A x \in Addr : kind'[x] \in Kinds => x \notin Trees(S) /\ kind'[x] = kind[x]
    BY <1>1 DEF Kinds, Tx
  <1> QED
    BY <1>4, <1>5, StillHeld

\* Nothing may have been handed over before: the array is overwritten.
LEMMA AccumulateFilesRetains ==
  ASSUME Ownership, AccumulateFiles \/ AccumulateFilesFails, files = <<>>
  PROVE  Retains
  <1>1. CASE AccumulateFiles
    <2>n. NULL \in Owners /\ NULL \notin Addr /\ "metalink" \in Spots /\ "files" \in Lists
      BY Names, NullNotAddr DEF Owners, Spots
    <2>1. /\ UNCHANGED <<kind, own, temp>>
          /\ list["files"] # <<>> => files' = list["files"]
          /\ \A l \in Lists \ {"files"} : list'[l] = list[l]
      BY <1>1, <2>n DEF AccumulateFiles, heapVars, Ownership, PctrlTypeOK, CtrlTypeOK
    <2>2. ASSUME NEW x \in Addr, NEW in \in Owners, NEW at \in Spots, Holds(in, at, x)
          PROVE  \E i \in Owners, s \in Spots : Holds(i, s, x)'
      <3>1. Holds(in, at, x)' \/ Holds(NULL, "metalink", x)'
        BY <2>1, <2>2, RangeEmpty DEF Holds
      <3> QED
        BY <2>n, <3>1
    <2>3. \A x \in Addr, in \in Owners, at \in Spots : Holds(in, at, x) => HasHolder(x)'
      BY <2>2 DEF HasHolder, Owners, Spots
    <2> QED
      BY <2>1, <2>3, StillHeld
  <1>2. CASE AccumulateFilesFails
    BY <1>2, SameRetains DEF AccumulateFilesFails, heapVars
  <1> QED
    BY <1>1, <1>2

\* The objects that the members of the control block hold, the strings in
\* languages and oses apart: what the two destructors start from.
Rooted ==
  (UNION {Open(k) : k \in Tx}) \cup (UNION {Range(list[l]) : l \in Lists \ StringLists})

\* Every object is within their reach, lies in languages or oses, or is astray.
LEMMA Reached ==
  ASSUME Ownership, \A y \in Astray : kind[y] = "string", NEW x \in Live
  PROVE  \/ x \in Trees(Rooted) \/ x \in Trees(Range(files))
         \/ x \in Astray \/ \E l \in StringLists : x \in Range(list[l])
  <1> DEFINE Reach(y) == y \in Trees(Rooted) \/ y \in Trees(Range(files))
  <1>0. /\ Rooted \in SUBSET Addr /\ Range(files) \in SUBSET Addr
        /\ Rooted \subseteq Trees(Rooted) /\ Range(files) \subseteq Trees(Range(files))
    <2>1. Rooted \in SUBSET Addr
      BY RangeInSet DEF Rooted, Open, Ownership, PctrlTypeOK, CtrlTypeOK
    <2>2. Range(files) \in SUBSET Addr
      BY RangeInSet DEF Ownership, PctrlTypeOK, CtrlTypeOK
    <2> QED
      BY <2>1, <2>2, TreesAddr DEF Ownership
  <1>1. ASSUME NEW y \in Addr, NEW at \in Spots, Holds(NULL, at, y)
        PROVE  Reach(y) \/ \E l \in StringLists : at = l /\ y \in Range(list[l])
    <2>1. CASE at \in Lists /\ y \in Range(list[at])
      BY <1>0, <2>1 DEF Rooted
    <2>2. CASE at \in Tx /\ y = temp[at]
      BY <1>0, <2>2, NullNotAddr DEF Rooted, Open
    <2>3. CASE y \in Range(files)
      BY <1>0, <2>3
    <2> QED
      BY <1>1, <2>1, <2>2, <2>3, NullNotAddr DEF Holds
  <1>2. ASSUME NEW y \in Addr, NEW z, z \in Fields(y), Reach(y) PROVE Reach(z)
    BY <1>0, <1>2, TreeClosed
  <1> HIDE DEF Reach
  <1>3. ASSUME NEW y \in Addr, kind[y] = "file" PROVE Reach(y)
    <2>1. PICK in \in Owners, at \in Spots : Holds(in, at, y)
      BY <1>3 DEF Astray, Live, HasHolder, Kinds, Tx
    <2>2. KindAt(at) = "file"
      BY <1>3, <2>1 DEF Ownership, RightKind, Owners, Spots
    <2>3. in = NULL /\ at \notin StringLists
      BY <2>1, <2>2, KindOfPlace DEF Holds, Owners
    <2> QED
      BY <1>1, <2>1, <2>3
  <1>4. ASSUME NEW y \in Addr, kind[y] = "chunk" PROVE Reach(y)
    <2>1. PICK in \in Owners, at \in Spots : Holds(in, at, y)
      BY <1>4 DEF Astray, Live, HasHolder, Kinds, Tx
    <2>2. KindAt(at) = "chunk"
      BY <1>4, <2>1 DEF Ownership, RightKind, Owners, Spots
    <2>3. CASE in = NULL
      BY <1>1, <2>1, <2>2, <2>3, KindOfPlace DEF Kinds
    <2>4. CASE in \in Addr
      <3>1. at \in Slots /\ at = "chunk_checksum" /\ y \in Range(own[in][at])
        BY <2>1, <2>2, <2>4, NullNotAddr, KindOfPlace DEF Holds
      <3>2. own[in]["chunk_checksum"] # <<>> /\ y \in Fields(in)
        BY <3>1, RangeEmpty DEF Fields
      <3>3. kind[in] = "file"
        BY <2>4, <3>1, <3>2 DEF Ownership, Shape, NoFields
      <3> QED
        BY <1>2, <1>3, <2>4, <3>2, <3>3
    <2> QED
      BY <2>3, <2>4 DEF Owners
  <1>5. CASE HasHolder(x)
    <2>1. PICK in \in Owners, at \in Spots : Holds(in, at, x)
      BY <1>5 DEF HasHolder
    <2>2. CASE in = NULL
      BY <1>1, <2>1, <2>2 DEF Live, Reach
    <2>3. CASE in \in Addr
      <3>1. at \in Slots /\ x \in Range(own[in][at])
        BY <2>1, <2>3, NullNotAddr DEF Holds
      <3>2. own[in] # NoFields /\ x \in Fields(in)
        BY <3>1, RangeEmpty DEF Fields, NoFields
      <3>3. kind[in] \in {"file", "chunk"}
        BY <2>3, <3>2 DEF Ownership, Shape
      <3> QED
        BY <1>2, <1>3, <1>4, <2>3, <3>2, <3>3 DEF Reach
    <2> QED
      BY <2>2, <2>3 DEF Owners
  <1>6. CASE ~HasHolder(x)
    BY <1>6 DEF Astray
  <1> QED
    BY <1>5, <1>6

\* What is not freed stays in the tree it is in.
LEMMA TreesStay ==
  ASSUME Ownership, NEW S \in SUBSET Addr, NEW T \in SUBSET Addr,
         \A a \in Addr \ Trees(S) : own'[a] = own[a],
         NEW x \in Trees(T), x \notin Trees(S)
  PROVE  x \in Trees(T)'
  <1>1. PICK a \in T : x \in Tree(a)
    BY DEF Trees
  <1>2. ASSUME NEW b \in Addr, NEW y \in Fields(b), y \notin Trees(S)
        PROVE  b \notin Trees(S) /\ y \in Fields(b)' /\ y \in Addr
    <2>1. b \notin Trees(S)
      BY <1>2, TreeClosed
    <2>2. y \in Fields(b)'
      BY <1>2, <2>1 DEF Fields
    <2> QED
      BY <1>2, <2>1, <2>2, FieldsAddr DEF Ownership
  <1>3. x \in Tree(a)'
    <2>1. CASE x = a
      BY <2>1 DEF Tree
    <2>2. CASE x \in Fields(a)
      BY <1>2, <2>2 DEF Tree
    <2>3. ASSUME NEW b \in Fields(a), x \in Fields(b) PROVE x \in Tree(a)'
      <3>1. b \in Addr
        BY FieldsAddr DEF Ownership
      <3>2. b \notin Trees(S) /\ x \in Fields(b)'
        BY <1>2, <2>3, <3>1
      <3>3. b \in Fields(a)'
        BY <1>2, <3>2
      <3> QED
        BY <3>2, <3>3 DEF Tree
    <2> QED
      BY <1>1, <2>1, <2>2, <2>3 DEF Tree
  <1> QED
    BY <1>3 DEF Trees

\* What delete_metalink_pctrl leaves allocated beside the result.
LEMMA DeleteSessionLeaves ==
  ASSUME Ownership, NEW detach \in BOOLEAN, DeleteSession(detach),
         \A y \in Astray : kind[y] = "string",
         NEW x \in Addr, kind'[x] \in Kinds, ~(detach /\ x \in Trees(Range(files))')
  PROVE  /\ kind'[x] = kind[x]
         /\ x \in Astray \/ \E l \in StringLists : x \in Range(list[l])
  <1>0. Rooted \in SUBSET Addr /\ Range(files) \in SUBSET Addr
    <2>1. Rooted \in SUBSET Addr
      BY RangeInSet DEF Rooted, Open, Ownership, PctrlTypeOK, CtrlTypeOK
    <2>2. Range(files) \in SUBSET Addr
      BY RangeInSet DEF Ownership, PctrlTypeOK, CtrlTypeOK
    <2> QED
      BY <2>1, <2>2
  <1>1. CtrlOwned = Trees(Rooted)
    BY DEF CtrlOwned, Rooted
  <1>2. /\ \A a \in Addr : a \in Trees(Rooted) => kind'[a] = "freed"
        /\ ~detach => \A a \in Addr : a \in Trees(Range(files)) => kind'[a] = "freed"
        /\ \A a \in Addr : kind'[a] \in {"freed", kind[a]}
        /\ detach => \A a \in Addr \ Trees(Rooted) : own'[a] = own[a]
        /\ detach => files' = files
    BY <1>1 DEF DeleteSession, Free
  <1>3. x \notin Trees(Rooted) /\ kind'[x] = kind[x] /\ x \in Live
    BY <1>2 DEF Kinds, Tx, Live
  <1>4. x \notin Trees(Range(files))
    <2>1. SUFFICES ASSUME x \in Trees(Range(files)) PROVE FALSE
      OBVIOUS
    <2>2. detach
      BY <1>2, <2>1 DEF Kinds, Tx
    <2>3. PICK S : S = Rooted
      OBVIOUS
    <2>4. PICK T : T = Range(files)
      OBVIOUS
    <2>5. x \in Trees(T)'
      BY <1>0, <1>2, <1>3, <2>1, <2>2, <2>3, <2>4, TreesStay
    <2>6. Range(files)' = T
      BY <1>2, <2>2, <2>4
    <2> QED
      BY <2>2, <2>5, <2>6 DEF Trees
  <1> QED
    BY <1>3, <1>4, Reached

=============================================================================
