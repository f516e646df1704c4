------------------------------- MODULE Pctrl -------------------------------
(***************************************************************************)
(* The transaction layer of libmetalink, lib/metalink_pctrl.c, together    *)
(* with the destructors of lib/metalink_types.c.                           *)
(*                                                                         *)
(* metalink_pctrl_t collects what the element handlers find.  An object    *)
(* (file, resource, checksum ...) is opened with                           *)
(* metalink_pctrl_new_*_transaction, filled by setters and moved by        *)
(* metalink_pctrl_commit_*_transaction into a list; committing a file      *)
(* turns the lists into NULL-terminated arrays of that file.               *)
(*                                                                         *)
(* The model keeps the pointers: every allocated object is an address,     *)
(* and the variables say which addresses each list, each open transaction  *)
(* and each array holds.  The contents of an object are dropped, except    *)
(* the priority commit_file sorts by.                                      *)
(***************************************************************************)
EXTENDS Integers, Sequences, Functions

CONSTANTS
  Addr,           \* addresses the allocator hands out; one is never reused
  NULL,
  Prio,           \* priorities of resources and metaurls
  MallocMayFail   \* whether malloc, calloc and strdup may return NULL

ASSUME PctrlAssumption ==
  /\ NULL \notin Addr
  /\ Prio \subseteq Int
  /\ Prio # {}
  /\ MallocMayFail \in BOOLEAN

VARIABLES
  kind,    \* what each address is: a kind of object, "unused" or "freed"
  own,     \* own[a][s]: the addresses that field s of object a points to
  prio,    \* priority of a resource or metaurl
  home,    \* ghost: the file (or chunk checksum) open when a was created
  list,    \* the metalink_list_t members of metalink_pctrl_t
  temp,    \* its temp_* members: the open transactions
  files,   \* ctrl->metalink->files
  holder   \* who owns ctrl->metalink: "ctrl", "app" (detached) or "none"

heapVars == <<kind, own, prio, home>>
pctrlVars == <<kind, own, prio, home, list, temp, files, holder>>

(***************************************************************************)
(* Objects, transactions and lists.                                        *)
(***************************************************************************)
Tx == {"file", "resource", "metaurl", "checksum", "chunk", "piece_hash",
       "signature"}

Kinds == Tx \cup {"string"}

\* The lists whose entries a file takes over, in the order commit_file does.
CommitOrder ==
  <<"languages", "oses", "resources", "metaurls", "checksums">>

FileLists == Range(CommitOrder)

StringLists == {"languages", "oses"}

Lists == FileLists \cup {"files", "piece_hashes"}

\* The pointer fields of metalink_file_t and metalink_chunk_checksum_t.
Slots == FileLists \cup {"chunk_checksum", "signature", "piece_hashes"}

\* The list a committed transaction is appended to.
ListOf == [resource   |-> "resources", metaurl |-> "metaurls",
           checksum   |-> "checksums", piece_hash |-> "piece_hashes"]

Items == DOMAIN ListOf

NoFields == [s \in Slots |-> <<>>]

-----------------------------------------------------------------------------
(***************************************************************************)
(* The heap.                                                               *)
(***************************************************************************)
Live == {a \in Addr : kind[a] \in Kinds}

HeapRoom == \E a \in Addr : kind[a] = "unused"

Fresh == CHOOSE a \in Addr : kind[a] = "unused"

Fields(a) == UNION {Range(own[a][s]) : s \in Slots}

\* What metalink_<kind>_delete(a) frees; a file owns a chunk checksum, which
\* owns piece hashes, and nothing nests deeper.
Tree(a) == {a} \cup Fields(a) \cup UNION {Fields(b) : b \in Fields(a)}

Trees(S) == UNION {Tree(a) : a \in S}

Open(k) == IF temp[k] = NULL THEN {} ELSE {temp[k]}

\* The priority of what has none.
Unranked == CHOOSE p \in Prio : TRUE

\* The heap after the addresses of F are freed; nothing is left of them.
Free(F) ==
  /\ kind' = [a \in Addr |-> IF a \in F THEN "freed" ELSE kind[a]]
  /\ own'  = [a \in Addr |-> IF a \in F THEN NoFields ELSE own[a]]
  /\ prio' = [a \in Addr |-> IF a \in F THEN Unranked ELSE prio[a]]
  /\ home' = [a \in Addr |-> IF a \in F THEN NULL ELSE home[a]]

\* ... and one object of kind k is allocated with priority p inside h.
FreeAndAlloc(F, k, p, h) ==
  /\ HeapRoom
  /\ kind' = [a \in Addr |-> IF a = Fresh THEN k
                             ELSE IF a \in F THEN "freed" ELSE kind[a]]
  /\ own'  = [a \in Addr |-> IF a \in F THEN NoFields ELSE own[a]]
  /\ prio' = [a \in Addr |-> IF a = Fresh THEN p
                             ELSE IF a \in F THEN Unranked ELSE prio[a]]
  /\ home' = [a \in Addr |-> IF a = Fresh THEN h
                             ELSE IF a \in F THEN NULL ELSE home[a]]

-----------------------------------------------------------------------------
(***************************************************************************)
(* metalink_pctrl_new_<k>_transaction: drops the transaction of that kind  *)
(* still open; a new file also drops what was collected for the last one   *)
(* (the strings of languages and oses are forgotten, not freed), a new     *)
(* chunk checksum the collected piece hashes.                              *)
(***************************************************************************)
Cleared(k) ==
  CASE k = "file"  -> FileLists
    [] k = "chunk" -> {"piece_hashes"}
    [] OTHER       -> {}

Dropped(k) ==
  Trees(Open(k) \cup UNION {Range(list[l]) : l \in Cleared(k) \ StringLists})

\* Only resources and metaurls are ranked.
Priorities(k) == IF k \in {"resource", "metaurl"} THEN Prio ELSE {Unranked}

Enclosing(k) ==
  CASE k = "file"       -> NULL
    [] k = "piece_hash" -> temp["chunk"]
    [] OTHER            -> temp["file"]

\* Mutation: the lists emptied for a new object keep their entries.
NewTransactionKeepsLists(k, p) ==
  /\ FreeAndAlloc(Dropped(k), k, p, Enclosing(k))
  /\ temp' = [temp EXCEPT ![k] = Fresh]
  /\ UNCHANGED <<list, files, holder>>

\* Mutation: a transaction that was abandoned is taken up again.
NewTransactionReuses(k, p) ==
  \/ /\ temp[k] = NULL
     /\ FreeAndAlloc(Dropped(k), k, p, Enclosing(k))
     /\ temp' = [temp EXCEPT ![k] = Fresh]
     /\ list' = [l \in Lists |-> IF l \in Cleared(k) THEN <<>> ELSE list[l]]
     /\ UNCHANGED <<files, holder>>
  \/ temp[k] # NULL /\ UNCHANGED pctrlVars

NewTransaction(k, p) ==
  /\ FreeAndAlloc(Dropped(k), k, p, Enclosing(k))
  /\ temp' = [temp EXCEPT ![k] = Fresh]
  /\ list' = [l \in Lists |-> IF l \in Cleared(k) THEN <<>> ELSE list[l]]
  /\ UNCHANGED <<files, holder>>

NewTransactionFails(k) ==
  /\ MallocMayFail
  /\ Free(Dropped(k))
  /\ temp' = [temp EXCEPT ![k] = NULL]
  /\ list' = [l \in Lists |-> IF l \in Cleared(k) THEN <<>> ELSE list[l]]
  /\ UNCHANGED <<files, holder>>

\* Mutation: the transaction stays open after its object joined the list.
CommitItemKeepsOpen(k) ==
  /\ temp[k] # NULL
  /\ list' = [list EXCEPT ![ListOf[k]] = Append(@, temp[k])]
  /\ UNCHANGED <<heapVars, temp, files, holder>>

\* Mutation: nothing checks that there is a transaction to commit.
CommitItemUnchecked(k) ==
  /\ list' = [list EXCEPT ![ListOf[k]] = Append(@, temp[k])]
  /\ temp' = [temp EXCEPT ![k] = NULL]
  /\ UNCHANGED <<heapVars, files, holder>>

(***************************************************************************)
(* metalink_pctrl_commit_<k>_transaction for the kinds kept in a list.     *)
(* When the append fails the transaction stays open: no state changes.     *)
(***************************************************************************)
CommitItem(k) ==
  /\ temp[k] # NULL
  /\ list' = [list EXCEPT ![ListOf[k]] = Append(@, temp[k])]
  /\ temp' = [temp EXCEPT ![k] = NULL]
  /\ UNCHANGED <<heapVars, files, holder>>

\* metalink_pctrl_add_language and _add_os
AddString(l) ==
  /\ FreeAndAlloc({}, "string", Unranked, temp["file"])
  /\ list' = [list EXCEPT ![l] = Append(@, Fresh)]
  /\ UNCHANGED <<temp, files, holder>>

\* ... when strdup succeeds and the append does not: the copy is lost.
AddStringAppendFails ==
  /\ MallocMayFail
  /\ FreeAndAlloc({}, "string", Unranked, temp["file"])
  /\ UNCHANGED <<list, temp, files, holder>>

\* metalink_pctrl_file_set_language and _set_os make the list anew; the strings
\* of the old one are forgotten, not freed.
FileSetString(l) ==
  /\ FreeAndAlloc({}, "string", Unranked, temp["file"])
  /\ list' = [list EXCEPT ![l] = <<Fresh>>]
  /\ UNCHANGED <<temp, files, holder>>

\* ... when the append fails, which loses the copy, or strdup does.
FileSetStringFails(l) ==
  /\ MallocMayFail
  /\ FreeAndAlloc({}, "string", Unranked, temp["file"]) \/ UNCHANGED heapVars
  /\ list' = [list EXCEPT ![l] = <<>>]
  /\ UNCHANGED <<temp, files, holder>>

-----------------------------------------------------------------------------
(***************************************************************************)
(* metalink_pctrl_commit_file_transaction moves the lists into the arrays  *)
(* of the file one after the other, allocating an array for each list that *)
(* is not empty; qsort then orders resources and metaurls by priority, and *)
(* entries of equal priority in any order.  `fail` names the allocation    *)
(* that fails: a list's array, the append to ctrl->files, or none.  What   *)
(* was moved before stays moved, and the file transaction stays open.      *)
(***************************************************************************)
SortedSlots == {"resources", "metaurls"}

Collected(a, s) == IF list[s] = <<>> THEN own[a][s] ELSE list[s]

Sorted(t) == \A i, j \in DOMAIN t : i < j => prio[t[i]] <= prio[t[j]]

\* Mutation: the arrays are left in document order.
ArrangementsUnsorted(t) == {t}

Arrangements(t) ==
  {u \in {[i \in DOMAIN t |-> t[q[i]]] : q \in Bijection(DOMAIN t, DOMAIN t)} :
     Sorted(u)}

\* Mutation: checksums are not moved into the file.
MovedBeforeForgetsChecksums(fail) ==
  {CommitOrder[i] : i \in {n \in 1..4 : \A m \in 1..n : CommitOrder[m] # fail}}

MovedBefore(fail) ==
  {CommitOrder[i] : i \in {n \in DOMAIN CommitOrder :
                             \A m \in 1..n : CommitOrder[m] # fail}}

Moved(a, s, r, m) ==
  CASE s = "resources" -> r
    [] s = "metaurls"  -> m
    [] OTHER           -> Collected(a, s)

CommitFile(fail) ==
  LET f == temp["file"] IN
  /\ f # NULL
  /\ fail # "none" => MallocMayFail
  /\ fail \in FileLists => list[fail] # <<>>
  /\ \E r \in Arrangements(Collected(f, "resources")),
        m \in Arrangements(Collected(f, "metaurls")) :
       own' = [own EXCEPT ![f] =
                 [s \in Slots |-> IF s \in MovedBefore(fail) THEN Moved(f, s, r, m)
                                  ELSE IF s = fail THEN <<>> ELSE own[f][s]]]
  /\ list' = [l \in Lists |->
                IF l \in MovedBefore(fail) THEN <<>>
                ELSE IF l = "files" /\ fail = "none" THEN Append(list[l], f)
                ELSE list[l]]
  /\ temp' = IF fail = "none" THEN [temp EXCEPT !["file"] = NULL] ELSE temp
  /\ UNCHANGED <<kind, prio, home, files, holder>>

CommitFailures == FileLists \cup {"append", "none"}

\* metalink_pctrl_commit_chunk_checksum_transaction: the field of the file is
\* overwritten, a chunk checksum it pointed to is neither freed nor kept.
CommitChunk ==
  LET c == temp["chunk"]
      f == temp["file"]
  IN
  /\ c # NULL
  /\ f # NULL
  /\ own' = [own EXCEPT ![c] = [@ EXCEPT !["piece_hashes"] =
                                  Collected(c, "piece_hashes")],
                        ![f] = [@ EXCEPT !["chunk_checksum"] = <<c>>]]
  /\ list' = [list EXCEPT !["piece_hashes"] = <<>>]
  /\ temp' = [temp EXCEPT !["chunk"] = NULL]
  /\ UNCHANGED <<kind, prio, home, files, holder>>

\* ... when the array of piece hashes cannot be allocated.
CommitChunkFails ==
  /\ MallocMayFail
  /\ temp["chunk"] # NULL
  /\ temp["file"] # NULL
  /\ list["piece_hashes"] # <<>>
  /\ own' = [own EXCEPT ![temp["chunk"]] = [@ EXCEPT !["piece_hashes"] = <<>>]]
  /\ UNCHANGED <<kind, prio, home, list, temp, files, holder>>

\* metalink_pctrl_chunk_checksum_set_piece_hashes frees the piece hashes the open
\* chunk checksum has and takes over the caller's, here an array of one.
ChunkSetPieceHashes ==
  LET c   == temp["chunk"]
      old == Trees(Range(own[c]["piece_hashes"]))
  IN
  /\ c # NULL
  /\ HeapRoom
  /\ kind' = [a \in Addr |-> IF a = Fresh THEN "piece_hash"
                            ELSE IF a \in old THEN "freed" ELSE kind[a]]
  /\ own' = [[a \in Addr |-> IF a \in old THEN NoFields ELSE own[a]]
               EXCEPT ![c] = [@ EXCEPT !["piece_hashes"] = <<Fresh>>]]
  /\ home' = [home EXCEPT ![Fresh] = c]
  /\ UNCHANGED <<prio, list, temp, files, holder>>

\* Mutation: the signature the file had is freed, and stays its signature.
CommitSignatureKeepsOld ==
  LET old == Trees(Range(own[temp["file"]]["signature"])) IN
  /\ temp["signature"] # NULL
  /\ temp["file"] # NULL
  /\ kind' = [a \in Addr |-> IF a \in old THEN "freed" ELSE kind[a]]
  /\ own' = IF old # {} THEN own
            ELSE [own EXCEPT ![temp["file"]] =
                    [@ EXCEPT !["signature"] = <<temp["signature"]>>]]
  /\ temp' = [temp EXCEPT !["signature"] = NULL]
  /\ UNCHANGED <<prio, home, list, files, holder>>

\* metalink_pctrl_commit_signature_transaction: the file's last one wins.
CommitSignature ==
  LET f   == temp["file"]
      old == Trees(Range(own[f]["signature"]))
  IN
  /\ temp["signature"] # NULL
  /\ f # NULL
  /\ kind' = [a \in Addr |-> IF a \in old THEN "freed" ELSE kind[a]]
  /\ own' = [[a \in Addr |-> IF a \in old THEN NoFields ELSE own[a]]
               EXCEPT ![f] = [@ EXCEPT !["signature"] = <<temp["signature"]>>]]
  /\ temp' = [temp EXCEPT !["signature"] = NULL]
  /\ UNCHANGED <<prio, home, list, files, holder>>

\* metalink_pctrl_metalink_accumulate_files: ctrl->metalink->files is
\* overwritten whenever there is a file to hand over.
AccumulateFiles ==
  /\ files' = IF list["files"] = <<>> THEN files ELSE list["files"]
  /\ list' = [list EXCEPT !["files"] = <<>>]
  /\ UNCHANGED <<heapVars, temp, holder>>

AccumulateFilesFails ==
  /\ MallocMayFail
  /\ list["files"] # <<>>
  /\ files' = <<>>
  /\ UNCHANGED <<heapVars, list, temp, holder>>

-----------------------------------------------------------------------------
(***************************************************************************)
(* The end of a parse.  DeleteSession is delete_metalink_pctrl, which      *)
(* frees the entries of every list but languages and oses, every open      *)
(* transaction and the metalink if it was not detached; with `detach` it   *)
(* was, just before.  AppDelete is the application's metalink_delete.      *)
(***************************************************************************)
\* Mutation: the open transactions are not deleted.
CtrlOwnedForgetsOpen ==
  Trees(UNION {Range(list[l]) : l \in Lists \ StringLists})

CtrlOwned ==
  Trees((UNION {Open(k) : k \in Tx})
        \cup UNION {Range(list[l]) : l \in Lists \ StringLists})

DeleteSession(detach) ==
  /\ holder = "ctrl"
  /\ Free(CtrlOwned \cup IF detach THEN {} ELSE Trees(Range(files)))
  /\ list' = [l \in Lists |-> <<>>]
  /\ temp' = [k \in Tx |-> NULL]
  /\ files' = IF detach THEN files ELSE <<>>
  /\ holder' = IF detach THEN "app" ELSE "none"

AppDelete ==
  /\ holder = "app"
  /\ Free(Trees(Range(files)))
  /\ files' = <<>>
  /\ holder' = "none"
  /\ UNCHANGED <<list, temp>>

-----------------------------------------------------------------------------
(***************************************************************************)
(* The component on its own: its functions called in any order.            *)
(***************************************************************************)
PctrlInit ==
  /\ kind = [a \in Addr |-> "unused"]
  /\ own = [a \in Addr |-> NoFields]
  /\ prio = [a \in Addr |-> Unranked]
  /\ home = [a \in Addr |-> NULL]
  /\ list = [l \in Lists |-> <<>>]
  /\ temp = [k \in Tx |-> NULL]
  /\ files = <<>>
  /\ holder = "ctrl"

PctrlNext ==
  \/ /\ holder = "ctrl"
     /\ \/ \E k \in Tx : \E p \in Priorities(k) : NewTransaction(k, p)
        \/ \E k \in Tx : NewTransactionFails(k)
        \/ \E k \in Items : CommitItem(k)
        \/ \E l \in StringLists : AddString(l)
        \/ AddStringAppendFails
        \/ \E l \in StringLists : FileSetString(l) \/ FileSetStringFails(l)
        \/ \E fail \in CommitFailures : CommitFile(fail)
        \/ CommitChunk
        \/ CommitChunkFails
        \/ ChunkSetPieceHashes
        \/ CommitSignature
        \/ AccumulateFiles
        \/ AccumulateFilesFails
  \/ \E detach \in BOOLEAN : DeleteSession(detach)
  \/ AppDelete

PctrlSpec == PctrlInit /\ [][PctrlNext]_pctrlVars

-----------------------------------------------------------------------------
(***************************************************************************)
(* Properties.                                                             *)
(***************************************************************************)
HeapTypeOK ==
  /\ kind \in [Addr -> Kinds \cup {"unused", "freed"}]
  /\ own \in [Addr -> [Slots -> Seq(Addr)]]
  /\ prio \in [Addr -> Prio]
  /\ home \in [Addr -> Addr \cup {NULL}]

CtrlTypeOK ==
  /\ list \in [Lists -> Seq(Addr)]
  /\ temp \in [Tx -> Addr \cup {NULL}]
  /\ files \in Seq(Addr)
  /\ holder \in {"ctrl", "app", "none"}

\* The variables hold what the C declarations allow; a list or an array holds
\* no NULL, which would end it early.
PctrlTypeOK == HeapTypeOK /\ CtrlTypeOK

(***************************************************************************)
(* The pointers: object obj is element i of at, a member of the control    *)
(* block or the files of the metalink if in is NULL, else a field of the   *)
(* object in.  Only files and chunk checksums have fields.                 *)
(***************************************************************************)
Pointers(in, at, objs) ==
  {[in |-> in, at |-> at, i |-> i, obj |-> objs[i]] : i \in DOMAIN objs}

Held ==
  (UNION {Pointers(NULL, l, list[l]) : l \in Lists})
  \cup (UNION {Pointers(NULL, k, <<temp[k]>>) : k \in {t \in Tx : temp[t] # NULL}})
  \cup Pointers(NULL, "metalink", files)
  \cup (UNION {UNION {Pointers(a, s, own[a][s]) : s \in Slots} :
                 a \in {b \in Addr : kind[b] \in {"file", "chunk"}}})

\* The kind of object each list, field and transaction points to.
KindAt(x) ==
  CASE x \in Tx                         -> x
    [] x \in StringLists                -> "string"
    [] x \in {"files", "metalink"}      -> "file"
    [] x = "chunk_checksum"             -> "chunk"
    [] OTHER -> CHOOSE k \in Items : ListOf[k] = x

\* Ownership: no object is held in two places, or twice in one, so nothing is
\* freed twice by the destructors, each of which frees all it can reach.  The
\* code moves pointers between lists, arrays and transactions without counts.
SingleOwner == \A p, q \in Held : p.obj = q.obj => p = q

\* No list, array or open transaction holds a freed object, or one of another
\* kind than its destructor is called for: metalink_list_t stores void
\* pointers, which the for_each calls cast back without a check.
NoDanglingNoConfusion == \A p \in Held : kind[p.obj] = KindAt(p.at)

\* The resources and metaurls of every committed file are in priority order,
\* however often the commit failed half-way and was repeated.
CommittedFilesSorted ==
  \A f \in Range(files) \cup Range(list["files"]) :
    \A s \in SortedSlots : Sorted(own[f][s])

=============================================================================
