------------------------------ MODULE ConfigDoc ------------------------------
(***************************************************************************)
(* One document that a store of the console keeps in memory, in a JSON     *)
(* file and in one row of PostgreSQL (backend/db.go and the stores that    *)
(* use it).  A save writes the file and then the row; either may fail, and *)
(* only a failed file is reported.  At boot reconcileConfigDocs copies a   *)
(* file that is newer than the row into the row, and the store then loads  *)
(* the row if it can read one, else the file.                              *)
(*                                                                         *)
(* A store saves in one of three ways: file and row under the lock that    *)
(* guards the memory (LockedWrite); the file only, under that lock         *)
(* (FileOnlyWrite); or a copy taken under the lock and written after it    *)
(* was released (BeginPersist, then PersistCopy, PersistFile, PersistRow). *)
(* A write of one copy is atomic here: the .tmp file and the rename.       *)
(***************************************************************************)
EXTENDS Naturals

CONSTANTS
    Docs,       \* the documents the memory can hold
    NoDoc,      \* no file, or no row
    Savers      \* goroutines that may be in persist() at the same time

VARIABLES
    mem,        \* the store's memory
    file,       \* the JSON file
    row,        \* the row in PostgreSQL
    newer,      \* the file's mtime is after the row's updated_at
    saves,      \* persist() calls in progress
    adrift,     \* history: a change is in the memory or in the file only
    overlapped  \* history: two saves overlapped, and none has since had the
                \* copies to itself

docVars == <<mem, file, row, newer, saves, adrift, overlapped>>

Idle == [at |-> "idle", doc |-> NoDoc, alone |-> TRUE]
Save == [at : {"idle", "copy"}, doc : {NoDoc}, alone : {TRUE}]
            \cup [at : {"file", "row"}, doc : Docs, alone : BOOLEAN]

TypeOK ==
    /\ mem \in Docs
    /\ file \in Docs \cup {NoDoc}
    /\ row \in Docs \cup {NoDoc}
    /\ newer \in BOOLEAN
    /\ saves \in [Savers -> Save]
    /\ adrift \in BOOLEAN
    /\ overlapped \in BOOLEAN

(* Calls of persist() that have copied the memory and are still writing.   *)
Writing == {w \in Savers : saves[w].at \in {"file", "row"}}
Quiet == \A w \in Savers : saves[w].at = "idle"

(* The calls in progress after somebody else's write: none of them alone.  *)
Disturbed == [w \in Savers |->
    IF w \in Writing THEN [saves[w] EXCEPT !.alone = FALSE] ELSE saves[w]]

------------------------------------------------------------------------------
(* os.WriteFile and os.Rename, and then saveConfigDoc: the row is tried    *)
(* only after the file, and its failure is only logged.                    *)
Put(doc, fileOk, rowOk) ==
    /\ file' = IF fileOk THEN doc ELSE file
    /\ row' = IF fileOk /\ rowOk THEN doc ELSE row
    /\ newer' = IF fileOk THEN ~rowOk ELSE newer
    /\ adrift' = ~fileOk

(* A change of the memory to doc, saved under the lock.  If the write      *)
(* fails the memory keeps the change.                                      *)
LockedWrite(doc) ==
    /\ mem' = doc
    /\ saves' = Disturbed
    /\ \E fileOk, rowOk \in BOOLEAN :
         /\ Put(doc, fileOk, rowOk)
         /\ overlapped' = (Writing # {} \/ (overlapped /\ ~fileOk))

(* The same for the stores' methods that write the file only.              *)
FileOnlyWrite(doc) ==
    /\ mem' = doc
    /\ saves' = Disturbed
    /\ \E fileOk \in BOOLEAN :
         /\ Put(doc, fileOk, FALSE)
         /\ overlapped' = (Writing # {} \/ (overlapped /\ ~fileOk))

(* A change whose save follows after the lock is released.                 *)
BeginPersist(w, doc) ==
    /\ saves[w].at = "idle"
    /\ mem' = doc
    /\ saves' = [saves EXCEPT ![w].at = "copy"]
    /\ UNCHANGED <<file, row, newer, adrift, overlapped>>

(* persist(): the copy is taken under the read lock ...                    *)
PersistCopy(w) ==
    /\ saves[w].at = "copy"
    /\ saves' = [saves EXCEPT ![w] = [at |-> "file", doc |-> mem, alone |-> Writing = {}]]
    /\ UNCHANGED <<mem, file, row, newer, adrift, overlapped>>

(* A mutant: the row is written although the file was not. *)
MutRowAnyway(w) ==
    /\ saves[w].at = "file"
    /\ \E ok \in BOOLEAN : Put(saves[w].doc, ok, FALSE)
    /\ saves' = [Disturbed EXCEPT ![w] = [saves[w] EXCEPT !.at = "row"]]
    /\ overlapped' = (overlapped \/ Writing # {w})
    /\ UNCHANGED mem

(* ... and written without it: the file, and if that succeeded the row.    *)
PersistFile(w) ==
    /\ saves[w].at = "file"
    /\ \E ok \in BOOLEAN :
         /\ Put(saves[w].doc, ok, FALSE)
         /\ saves' = [Disturbed EXCEPT ![w] = IF ok THEN [saves[w] EXCEPT !.at = "row"] ELSE Idle]
    /\ overlapped' = (overlapped \/ Writing # {w})
    /\ UNCHANGED mem

PersistRow(w) ==
    /\ saves[w].at = "row"
    /\ \/ row' = saves[w].doc /\ newer' = FALSE
       \/ UNCHANGED <<row, newer>>
    /\ saves' = [Disturbed EXCEPT ![w] = Idle]
    /\ overlapped' = (~saves[w].alone \/ Writing # {w})
    /\ UNCHANGED <<mem, file, adrift>>

(* A command of another process edits the file.                            *)
ExternalEdit(doc) ==
    /\ file # NoDoc
    /\ file' = doc /\ newer' = TRUE /\ adrift' = TRUE
    /\ saves' = Disturbed
    /\ overlapped' = (Writing # {})
    /\ UNCHANGED <<mem, row>>

------------------------------------------------------------------------------
(* The row after reconcileConfigDocs: a newer file replaces it if the      *)
(* statement succeeds ("ok"), or it is left ("failed").  A file also       *)
(* replaces it when the age of the row could not be read ("blind").        *)
Reconciled(how) ==
    IF file # NoDoc /\ (how = "blind" \/ (how = "ok" /\ (newer \/ row = NoDoc)))
    THEN file ELSE row

FromRow(attached, how, readable) == attached /\ readable /\ Reconciled(how) # NoDoc
Loaded(attached, how, readable) ==
    IF FromRow(attached, how, readable) THEN Reconciled(how) ELSE file

(* A crash drops the memory and the saves in progress; the next process    *)
(* may be without its database for good (attached = FALSE).  What the      *)
(* store makes of the document it loads, adopted, is written if it is not  *)
(* that document, or if the row did not give it.                           *)
Boot(attached, how, readable, adopted) ==
    LET stored == IF attached THEN Reconciled(how) ELSE row
        fromRow == FromRow(attached, how, readable)
    IN  /\ mem' = adopted
        /\ saves' = [w \in Savers |-> Idle]
        /\ \/ /\ adopted # Loaded(attached, how, readable) \/ (attached /\ ~fromRow)
              /\ file' = adopted /\ adrift' = FALSE /\ overlapped' = FALSE
              /\ \/ row' = stored /\ newer' = TRUE
                 \/ attached /\ row' = adopted /\ newer' = FALSE
           \/ /\ file' = file /\ row' = stored
              /\ newer' = (newer /\ ~(attached /\ how # "failed"))
              /\ adrift' = (adopted # file) /\ overlapped' = overlapped

Restart ==
    \E attached, readable \in BOOLEAN, how \in {"ok", "failed", "blind"}, doc \in Docs :
        Boot(attached, how, readable, doc)

------------------------------------------------------------------------------
Init ==
    /\ mem \in Docs /\ file = mem /\ row = mem
    /\ newer = FALSE /\ adrift = FALSE /\ overlapped = FALSE
    /\ saves = [w \in Savers |-> Idle]

Next ==
    \/ \E doc \in Docs : LockedWrite(doc) \/ FileOnlyWrite(doc) \/ ExternalEdit(doc)
    \/ \E w \in Savers :
         \/ \E doc \in Docs : BeginPersist(w, doc)
         \/ PersistCopy(w) \/ PersistFile(w) \/ PersistRow(w)
    \/ Restart

Spec == Init /\ [][Next]_docVars

------------------------------------------------------------------------------
(* Once no save is in progress, and unless saves overlapped or a change is *)
(* known to be in one place only, what was answered is in the file.        *)
FileIsMemory == Quiet /\ ~overlapped /\ ~adrift => file = mem

(* A row that differs from the file is the older of the two, so that a     *)
(* boot which can mend the row, or does without it, loads the file: with   *)
(* FileIsMemory, no answered change is undone by a restart.                *)
BootFindsFile ==
    Quiet /\ ~overlapped =>
        \A attached, readable \in BOOLEAN, how \in {"ok", "blind"} :
            Loaded(attached, how, readable) = file
==============================================================================
