------------------------- MODULE AttachmentsProofs -------------------------
(***************************************************************************)
(* Proofs about Attachments, for any number of tasks, names and requests.  *)
(***************************************************************************)
EXTENDS Attachments, TLAPS

(* Only rows that were inserted are deleted.                               *)
KnownRows == \A d \in Deletions : \A u \in deletion[d].rows : row[u] # "absent"

(* Between the removal of the files and the commit, none of them is there: *)
(* the uploads that may still write are those that have no row.            *)
UnlinkedIsGone ==
  \A d \in Deletions : deletion[d].pc = "unlinked" =>
    \A u \in deletion[d].rows : file[Path(u)] # u

(* ServesOwnBytes, from the moment the file is written.                    *)
OwnBytes ==
  \A u \in Uploads : upload[u].pc \in {"written", "done"} /\ row[u] # "deleted" =>
    file[Path(u)] = u \/ BeingDeleted(u) \/ SharesPath(u)

Inv == TypeOK /\ KnownRows /\ DeletedIsGone /\ UnlinkedIsGone /\ OwnBytes

-----------------------------------------------------------------------------
(* One upload moves: the others keep their place and their path.           *)
LEMMA UploadStep ==
  ASSUME TypeOK, NEW u \in Uploads, NEW pc \in UploadPC,
         upload' = [upload EXCEPT ![u].pc = pc]
  PROVE  /\ upload' \in [Uploads -> Upload]
         /\ \A v \in Uploads : /\ Path(v)' = Path(v)
                               /\ upload'[v].task = upload[v].task
                               /\ v # u => upload'[v] = upload[v]
         /\ upload'[u].pc = pc
<1>1. upload \in [Uploads -> Upload]
  BY DEF TypeOK
<1>2. [upload[u] EXCEPT !.pc = pc] \in Upload
  BY <1>1 DEF Upload
<1> QED
  BY <1>1, <1>2 DEF Upload, Path

(* One deletion moves: the others stay where they are.                     *)
LEMMA DeletionStep ==
  ASSUME TypeOK, NEW d \in Deletions, NEW pc \in DeletionPC,
         deletion' = [deletion EXCEPT ![d].pc = pc]
  PROVE  /\ deletion' \in [Deletions -> Deletion]
         /\ \A e \in Deletions : /\ deletion'[e].rows = deletion[e].rows
                                 /\ e # d => deletion'[e] = deletion[e]
         /\ deletion'[d].pc = pc
<1>1. deletion \in [Deletions -> Deletion]
  BY DEF TypeOK
<1>2. [deletion[d] EXCEPT !.pc = pc] \in Deletion
  BY <1>1 DEF Deletion
<1> QED
  BY <1>1, <1>2 DEF Deletion

(* Once a file of the same path has been written, the path stays shared.   *)
LEMMA SharesStays ==
  ASSUME NEW u \in Uploads, SharesPath(u),
         \A v \in Uploads : upload[v].pc \in {"written", "torn", "done"} =>
           upload'[v].pc \in {"written", "torn", "done"},
         \A v \in Uploads : Path(v)' = Path(v)
  PROVE  SharesPath(u)'
BY DEF SharesPath

(* Initially no request has begun.                                         *)
LEMMA InitInv == Init => Inv
BY DEF Init, Inv, TypeOK, KnownRows, DeletedIsGone, UnlinkedIsGone, OwnBytes,
       Upload, Deletion, UploadPC, DeletionPC

-----------------------------------------------------------------------------
(* An upload that reads its task has no row yet and has written nothing.   *)
LEMMA LoadTaskInv ==
  ASSUME Inv, NEW u \in Uploads, NEW t \in Tasks, NEW n \in Names, LoadTask(u, t, n)
  PROVE  Inv'
<1> USE DEF LoadTask
<1>1. TypeOK
  BY DEF Inv
<1>2. row[u] = "absent"
  BY <1>1 DEF TypeOK
<1>3. \A v \in Uploads : /\ v # u => upload'[v] = upload[v] /\ Path(v)' = Path(v)
                         /\ upload'[v].pc = IF v = u THEN "loaded" ELSE upload[v].pc
  BY <1>1 DEF TypeOK, Upload, Path
<1>4. TypeOK'
  <2>1. upload' \in [Uploads -> Upload]
    BY <1>1 DEF TypeOK, Upload, UploadPC
  <2>2. Path(u)' \in Tasks \X Names
    BY <1>1 DEF TypeOK, Path
  <2> QED
    BY <1>1, <1>3, <2>1, <2>2 DEF TypeOK
<1>5. KnownRows'
  BY DEF Inv, KnownRows
<1>6. DeletedIsGone' /\ UnlinkedIsGone'
  BY <1>1, <1>2, <1>3 DEF Inv, TypeOK, Deletion, KnownRows, DeletedIsGone, UnlinkedIsGone
<1>7. OwnBytes'
  <2> SUFFICES ASSUME NEW v \in Uploads, v # u, upload[v].pc \in {"written", "done"},
                      row[v] # "deleted"
               PROVE  file[Path(v)] = v \/ BeingDeleted(v) \/ SharesPath(v)'
    BY <1>3 DEF OwnBytes, BeingDeleted
  <2>1. file[Path(v)] = v \/ BeingDeleted(v) \/ SharesPath(v)
    BY DEF Inv, OwnBytes
  <2>2. SharesPath(v) => SharesPath(v)'
    <3> SUFFICES ASSUME NEW w \in Uploads \ {v}, Path(w) = Path(v),
                        upload[w].pc \in {"written", "torn", "done"}
                 PROVE  SharesPath(v)'
      BY DEF SharesPath
    <3>1. w # u
      OBVIOUS
    <3> QED
      BY <1>3, <3>1 DEF SharesPath
  <2> QED
    BY <2>1, <2>2
<1> QED
  BY <1>4, <1>5, <1>6, <1>7 DEF Inv

(* A file is written: who had the path shares it from now on.              *)
LEMMA WriteInv ==
  ASSUME Inv, NEW u \in Uploads, NEW pc \in {"written", "torn"}, upload[u].pc = "loaded",
         file' = [file EXCEPT ![Path(u)] = u], upload' = [upload EXCEPT ![u].pc = pc],
         UNCHANGED <<removed, row, deletion>>
  PROVE  Inv'
<1>1. TypeOK
  BY DEF Inv
<1>2. /\ upload' \in [Uploads -> Upload]
      /\ \A v \in Uploads : /\ Path(v)' = Path(v)
                            /\ v # u => upload'[v] = upload[v]
      /\ upload'[u].pc = pc
  BY <1>1, UploadStep DEF UploadPC
<1>3. row[u] = "absent" /\ Path(u) \in Tasks \X Names
  BY <1>1 DEF TypeOK
<1>4. \A p \in Tasks \X Names : file'[p] = IF p = Path(u) THEN u ELSE file[p]
  BY <1>1 DEF TypeOK
<1>5. TypeOK'
  BY <1>1, <1>2, <1>3 DEF TypeOK
<1>6. KnownRows'
  BY DEF Inv, KnownRows
<1>7. \A v \in Uploads : row[v] # "absent" => Path(v) \in Tasks \X Names /\ v # u
  BY <1>1, <1>3 DEF TypeOK
<1>8. DeletedIsGone' /\ UnlinkedIsGone'
  BY <1>1, <1>2, <1>4, <1>7 DEF Inv, TypeOK, Deletion, KnownRows, DeletedIsGone, UnlinkedIsGone
<1>9. OwnBytes'
  <2> SUFFICES ASSUME NEW v \in Uploads, upload'[v].pc \in {"written", "done"},
                      row[v] # "deleted"
               PROVE  file'[Path(v)] = v \/ BeingDeleted(v) \/ SharesPath(v)'
    BY <1>2 DEF OwnBytes, BeingDeleted
  <2>1. CASE v = u
    BY <1>3, <1>4, <2>1
  <2>2. CASE v # u /\ Path(v) = Path(u)
    BY <1>2, <2>2 DEF SharesPath
  <2>3. CASE v # u /\ Path(v) # Path(u)
    <3>1. upload[v].pc \in {"written", "done"}
      BY <1>2, <2>3
    <3>2. file[Path(v)] = v \/ BeingDeleted(v) \/ SharesPath(v)
      BY <3>1 DEF Inv, OwnBytes
    <3>3. Path(v) \in Tasks \X Names
      BY <1>1, <3>1 DEF TypeOK
    <3>4. SharesPath(v) => SharesPath(v)'
      BY <1>2, SharesStays
    <3> QED
      BY <1>4, <2>3, <3>2, <3>3, <3>4
  <2> QED
    BY <2>1, <2>2, <2>3
<1> QED
  BY <1>5, <1>6, <1>8, <1>9 DEF Inv

(* An upload that fails leaves the rows and, here, the disk as they are.   *)
LEMMA UploadFailsInv ==
  ASSUME Inv, NEW u \in Uploads, NEW pc \in {"failed", "torn"},
         \/ upload[u].pc = "loaded"
         \/ upload[u].pc = "written" /\ pc = "torn",
         upload' = [upload EXCEPT ![u].pc = pc],
         UNCHANGED <<removed, row, file, deletion>>
  PROVE  Inv'
<1>1. TypeOK
  BY DEF Inv
<1>2. /\ upload' \in [Uploads -> Upload]
      /\ \A v \in Uploads : /\ Path(v)' = Path(v)
                            /\ v # u => upload'[v] = upload[v]
      /\ upload'[u].pc = pc
  BY <1>1, UploadStep DEF UploadPC
<1>3. TypeOK'
  BY <1>1, <1>2 DEF TypeOK
<1>4. KnownRows' /\ DeletedIsGone' /\ UnlinkedIsGone'
  BY <1>1, <1>2 DEF Inv, TypeOK, Deletion, KnownRows, DeletedIsGone, UnlinkedIsGone
<1>5. OwnBytes'
  <2> SUFFICES ASSUME NEW v \in Uploads, upload[v].pc \in {"written", "done"},
                      row[v] # "deleted"
               PROVE  file[Path(v)] = v \/ BeingDeleted(v) \/ SharesPath(v)'
    BY <1>2 DEF OwnBytes, BeingDeleted
  <2>1. SharesPath(v) => SharesPath(v)'
    BY <1>2, SharesStays
  <2> QED
    BY <2>1 DEF Inv, OwnBytes
<1> QED
  BY <1>3, <1>4, <1>5 DEF Inv

(* A row is inserted for a file that is there, or was overwritten.         *)
LEMMA InsertInv ==
  ASSUME Inv, NEW u \in Uploads, Insert(u)
  PROVE  Inv'
<1> USE DEF Insert
<1>1. TypeOK
  BY DEF Inv
<1>2. /\ upload' \in [Uploads -> Upload]
      /\ \A v \in Uploads : /\ Path(v)' = Path(v)
                            /\ v # u => upload'[v] = upload[v]
      /\ upload'[u].pc = "done"
  BY <1>1, UploadStep DEF UploadPC
<1>3. \A v \in Uploads : row'[v] = IF v = u THEN "live" ELSE row[v]
  BY <1>1 DEF TypeOK
<1>4. TypeOK'
  BY <1>1, <1>2, <1>3 DEF TypeOK
<1>5. KnownRows'
  BY <1>1, <1>3 DEF Inv, TypeOK, Deletion, KnownRows
<1>6. DeletedIsGone' /\ UnlinkedIsGone'
  BY <1>1, <1>2, <1>3 DEF Inv, TypeOK, Deletion, DeletedIsGone, UnlinkedIsGone
<1>7. OwnBytes'
  <2> SUFFICES ASSUME NEW v \in Uploads, upload'[v].pc \in {"written", "done"},
                      row'[v] # "deleted"
               PROVE  file[Path(v)] = v \/ BeingDeleted(v) \/ SharesPath(v)'
    BY <1>2 DEF OwnBytes, BeingDeleted
  <2>1. upload[v].pc \in {"written", "done"} /\ row[v] # "deleted"
    BY <1>1, <1>2, <1>3 DEF TypeOK
  <2>2. SharesPath(v) => SharesPath(v)'
    BY <1>2, SharesStays
  <2> QED
    BY <2>1, <2>2 DEF Inv, OwnBytes
<1> QED
  BY <1>4, <1>5, <1>6, <1>7 DEF Inv

-----------------------------------------------------------------------------
(* A deletion reads rows that were inserted.                               *)
LEMMA LoadInv ==
  ASSUME Inv, NEW d \in Deletions, NEW t \in Tasks \cup {NoTask}, NEW us \in SUBSET Uploads,
         deletion[d].pc = "new", \A u \in us : row[u] # "absent",
         deletion' = [deletion EXCEPT ![d] = [pc |-> "loaded", task |-> t, rows |-> us]],
         UNCHANGED <<removed, row, file, upload>>
  PROVE  Inv'
<1>1. TypeOK
  BY DEF Inv
<1>2. /\ deletion' \in [Deletions -> Deletion]
      /\ \A e \in Deletions : e # d => deletion'[e] = deletion[e]
      /\ deletion'[d].pc = "loaded" /\ deletion'[d].rows = us
  BY <1>1 DEF TypeOK, Deletion, DeletionPC
<1>3. \A u \in Uploads : Path(u)' = Path(u)
  BY DEF Path
<1>4. TypeOK'
  BY <1>1, <1>2, <1>3 DEF TypeOK
<1>5. KnownRows' /\ DeletedIsGone' /\ UnlinkedIsGone'
  BY <1>1, <1>2, <1>3 DEF Inv, TypeOK, Deletion, KnownRows, DeletedIsGone, UnlinkedIsGone
<1>6. OwnBytes'
  <2>1. \A u \in Uploads : BeingDeleted(u) => BeingDeleted(u)'
    BY <1>2 DEF BeingDeleted
  <2>2. \A u \in Uploads : SharesPath(u) => SharesPath(u)'
    BY <1>3, SharesStays
  <2> QED
    BY <1>3, <2>1, <2>2 DEF Inv, OwnBytes
<1> QED
  BY <1>4, <1>5, <1>6 DEF Inv

(* Files are removed, all of them unless the deletion fails: an attachment *)
(* that loses its file is being deleted, or shares its path with one that  *)
(* is.                                                                     *)
LEMMA UnlinkInv ==
  ASSUME Inv, NEW d \in Deletions, NEW us \in SUBSET deletion[d].rows,
         NEW pc \in {"unlinked", "torn"},
         deletion[d].pc = "loaded", pc = "unlinked" => us = deletion[d].rows, Unlink(d, us),
         deletion' = [deletion EXCEPT ![d].pc = pc],
         UNCHANGED <<removed, row, upload>>
  PROVE  Inv'
<1>1. TypeOK
  BY DEF Inv
<1>2. /\ deletion' \in [Deletions -> Deletion]
      /\ \A e \in Deletions : /\ deletion'[e].rows = deletion[e].rows
                              /\ e # d => deletion'[e] = deletion[e]
      /\ deletion'[d].pc = pc
  BY <1>1, DeletionStep DEF DeletionPC
<1>3. \A u \in Uploads : Path(u)' = Path(u)
  BY DEF Path
<1>4. \A p \in Tasks \X Names :
        file'[p] = IF \E u \in us : p = Path(u) THEN NoFile ELSE file[p]
  BY DEF Unlink
<1>5. \A e \in Deletions : deletion[e].rows \subseteq Uploads
  BY <1>1 DEF TypeOK, Deletion
<1>6. TypeOK'
  <2>1. file' \in [Tasks \X Names -> Uploads \cup {NoFile}]
    BY <1>1 DEF TypeOK, Unlink
  <2> QED
    BY <1>1, <1>2, <1>3, <2>1 DEF TypeOK
<1>7. KnownRows'
  BY <1>2 DEF Inv, KnownRows
<1>8. \A u \in Uploads : row[u] # "absent" =>
        /\ Path(u) \in Tasks \X Names
        /\ upload[u].pc = "done"
  BY <1>1 DEF TypeOK
<1>9. \A u \in Uploads : row[u] # "absent" /\ file[Path(u)] # u => file'[Path(u)] # u
  BY <1>4, <1>8, NoFileIsNone
<1>10. DeletedIsGone'
  BY <1>3, <1>9 DEF Inv, DeletedIsGone
<1>11. UnlinkedIsGone'
  <2> SUFFICES ASSUME NEW e \in Deletions, deletion'[e].pc = "unlinked",
                      NEW u \in deletion[e].rows
               PROVE  file'[Path(u)] # u
    BY <1>2, <1>3, <1>5 DEF UnlinkedIsGone
  <2>1. u \in Uploads /\ row[u] # "absent"
    BY <1>5 DEF Inv, KnownRows
  <2>2. CASE e = d
    BY <1>2, <1>4, <1>8, <2>1, <2>2, NoFileIsNone
  <2>3. CASE e # d
    BY <1>2, <1>9, <2>1, <2>3 DEF Inv, UnlinkedIsGone
  <2> QED
    BY <2>2, <2>3
<1>12. OwnBytes'
  <2> SUFFICES ASSUME NEW u \in Uploads, upload[u].pc \in {"written", "done"},
                      row[u] # "deleted"
               PROVE  file'[Path(u)] = u \/ BeingDeleted(u)' \/ SharesPath(u)'
    BY <1>3 DEF OwnBytes
  <2>1. SharesPath(u) => SharesPath(u)'
    BY <1>3, SharesStays
  <2>2. BeingDeleted(u) => BeingDeleted(u)'
    BY <1>2 DEF BeingDeleted
  <2>3. Path(u) \in Tasks \X Names
    BY <1>1 DEF TypeOK
  <2>4. CASE \E v \in us : Path(u) = Path(v)
    <3>1. PICK v \in us : Path(u) = Path(v)
      BY <2>4
    <3>2. v \in Uploads /\ upload[v].pc = "done" /\ v \in deletion'[d].rows
      BY <1>2, <1>5, <1>8 DEF Inv, KnownRows
    <3>3. CASE v = u
      BY <1>2, <3>2, <3>3 DEF BeingDeleted
    <3>4. CASE v # u
      BY <1>3, <3>1, <3>2, <3>4 DEF SharesPath
    <3> QED
      BY <3>3, <3>4
  <2>5. CASE ~ \E v \in us : Path(u) = Path(v)
    BY <1>4, <2>1, <2>2, <2>3, <2>5 DEF Inv, OwnBytes
  <2> QED
    BY <2>4, <2>5
<1> QED
  BY <1>6, <1>7, <1>10, <1>11, <1>12 DEF Inv

(* A deletion that fails without touching the disk.                        *)
LEMMA DeletionFailsInv ==
  ASSUME Inv, NEW d \in Deletions, NEW pc \in {"failed", "torn"},
         \/ deletion[d].pc = "loaded"
         \/ deletion[d].pc = "unlinked" /\ pc = "torn",
         deletion' = [deletion EXCEPT ![d].pc = pc],
         UNCHANGED <<removed, row, file, upload>>
  PROVE  Inv'
<1>1. TypeOK
  BY DEF Inv
<1>2. /\ deletion' \in [Deletions -> Deletion]
      /\ \A e \in Deletions : /\ deletion'[e].rows = deletion[e].rows
                              /\ e # d => deletion'[e] = deletion[e]
      /\ deletion'[d].pc = pc
  BY <1>1, DeletionStep DEF DeletionPC
<1>3. \A u \in Uploads : Path(u)' = Path(u)
  BY DEF Path
<1>4. TypeOK'
  BY <1>1, <1>2, <1>3 DEF TypeOK
<1>5. KnownRows' /\ DeletedIsGone' /\ UnlinkedIsGone'
  BY <1>1, <1>2, <1>3 DEF Inv, TypeOK, Deletion, KnownRows, DeletedIsGone, UnlinkedIsGone
<1>6. OwnBytes'
  <2>1. \A u \in Uploads : BeingDeleted(u) => BeingDeleted(u)'
    BY <1>2 DEF BeingDeleted
  <2>2. \A u \in Uploads : SharesPath(u) => SharesPath(u)'
    BY <1>3, SharesStays
  <2> QED
    BY <1>3, <2>1, <2>2 DEF Inv, OwnBytes
<1> QED
  BY <1>4, <1>5, <1>6 DEF Inv

(* The commit of a deletion: the files of its rows are gone by then.       *)
LEMMA MarkDeletedInv ==
  ASSUME Inv, NEW d \in Deletions, MarkDeleted(d)
  PROVE  Inv'
<1> USE DEF MarkDeleted
<1>1. TypeOK
  BY DEF Inv
<1>2. /\ deletion' \in [Deletions -> Deletion]
      /\ \A e \in Deletions : /\ deletion'[e].rows = deletion[e].rows
                              /\ e # d => deletion'[e] = deletion[e]
      /\ deletion'[d].pc = "done"
  BY <1>1, DeletionStep DEF DeletionPC
<1>3. \A u \in Uploads : Path(u)' = Path(u)
  BY DEF Path
<1>4. \A u \in Uploads : row'[u] = IF u \in deletion[d].rows THEN "deleted" ELSE row[u]
  OBVIOUS
<1>5. \A e \in Deletions : deletion[e].rows \subseteq Uploads /\ deletion[e].task \in Tasks \cup {NoTask}
  BY <1>1 DEF TypeOK, Deletion
<1>6. TypeOK'
  <2>1. removed' \subseteq Tasks
    BY <1>1, <1>5 DEF TypeOK
  <2>2. row' \in [Uploads -> {"absent", "live", "deleted"}]
    BY <1>1 DEF TypeOK
  <2>3. \A u \in Uploads : row'[u] # "absent" <=> row[u] # "absent"
    BY <1>4 DEF Inv, KnownRows
  <2> QED
    BY <1>1, <1>2, <1>3, <2>1, <2>2, <2>3 DEF TypeOK
<1>7. KnownRows'
  BY <1>2, <1>4, <1>5 DEF Inv, KnownRows
<1>8. DeletedIsGone'
  BY <1>3, <1>4 DEF Inv, DeletedIsGone, UnlinkedIsGone
<1>9. UnlinkedIsGone'
  <2> SUFFICES ASSUME NEW e \in Deletions, deletion'[e].pc = "unlinked",
                      NEW u \in deletion[e].rows
               PROVE  file[Path(u)] # u
    BY <1>2, <1>3, <1>5 DEF UnlinkedIsGone
  <2>1. deletion[e].pc = "unlinked"
    BY <1>2
  <2> QED
    BY <2>1 DEF Inv, UnlinkedIsGone
<1>10. OwnBytes'
  <2> SUFFICES ASSUME NEW u \in Uploads, upload[u].pc \in {"written", "done"},
                      row'[u] # "deleted"
               PROVE  file[Path(u)] = u \/ BeingDeleted(u)' \/ SharesPath(u)'
    BY <1>3 DEF OwnBytes
  <2>1. row[u] # "deleted" /\ u \notin deletion[d].rows
    BY <1>4
  <2>2. BeingDeleted(u) => BeingDeleted(u)'
    BY <1>2, <2>1 DEF BeingDeleted
  <2>3. SharesPath(u) => SharesPath(u)'
    BY <1>3, SharesStays
  <2> QED
    BY <2>1, <2>2, <2>3 DEF Inv, OwnBytes
<1> QED
  BY <1>6, <1>7, <1>8, <1>9, <1>10 DEF Inv

-----------------------------------------------------------------------------
(* Every step of a request preserves the invariant.                        *)
LEMMA NextInv ==
  ASSUME Inv, [Next]_vars
  PROVE  Inv'
<1>1. CASE UNCHANGED vars
  BY <1>1 DEF vars, Inv, TypeOK, KnownRows, DeletedIsGone, UnlinkedIsGone, OwnBytes,
              BeingDeleted, SharesPath, Path
<1>2. ASSUME NEW u \in Uploads, NEW t \in Tasks, NEW n \in Names, LoadTask(u, t, n)
      PROVE  Inv'
  BY <1>2, LoadTaskInv
<1>3. ASSUME NEW u \in Uploads, Write(u)
      PROVE  Inv'
  BY <1>3, WriteInv DEF Write
<1>4. ASSUME NEW u \in Uploads, Insert(u)
      PROVE  Inv'
  BY <1>4, InsertInv
<1>5. ASSUME NEW u \in Uploads, UploadFails(u)
      PROVE  Inv'
  <2>1. CASE /\ upload[u].pc = "loaded"
             /\ upload' = [upload EXCEPT ![u].pc = "torn"]
             /\ file' = [file EXCEPT ![Path(u)] = u]
    BY <1>5, <2>1, WriteInv DEF UploadFails
  <2>2. CASE /\ \/ /\ upload[u].pc = "loaded"
                   /\ upload' = [upload EXCEPT ![u].pc = "failed"]
                \/ /\ upload[u].pc = "written"
                   /\ upload' = [upload EXCEPT ![u].pc = "torn"]
             /\ UNCHANGED file
    BY <1>5, <2>2, UploadFailsInv DEF UploadFails
  <2> QED
    BY <1>5, <2>1, <2>2 DEF UploadFails
<1>6. ASSUME NEW d \in Deletions, NEW u \in Uploads, LoadAttachment(d, u)
      PROVE  Inv'
  BY <1>6, LoadInv DEF LoadAttachment, CanOpen
<1>7. ASSUME NEW d \in Deletions, NEW t \in Tasks, LoadAttachments(d, t)
      PROVE  Inv'
  <2> DEFINE us == {u \in Uploads : row[u] # "absent" /\ upload[u].task = t}
  <2>1. us \in SUBSET Uploads /\ \A u \in us : row[u] # "absent"
    OBVIOUS
  <2>2. /\ deletion[d].pc = "new"
        /\ deletion' = [deletion EXCEPT ![d] = [pc |-> "loaded", task |-> t, rows |-> us]]
        /\ UNCHANGED <<removed, row, file, upload>>
    BY <1>7 DEF LoadAttachments
  <2> HIDE DEF us
  <2> QED
    BY <2>1, <2>2, LoadInv
<1>8. ASSUME NEW d \in Deletions, Remove(d)
      PROVE  Inv'
  BY <1>8, UnlinkInv DEF Remove
<1>9. ASSUME NEW d \in Deletions, MarkDeleted(d)
      PROVE  Inv'
  BY <1>9, MarkDeletedInv
<1>10. ASSUME NEW d \in Deletions, DeletionFails(d)
       PROVE  Inv'
  <2>1. CASE /\ deletion[d].pc = "loaded"
             /\ deletion' = [deletion EXCEPT ![d].pc = "torn"]
             /\ \E us \in SUBSET deletion[d].rows : Unlink(d, us)
    BY <1>10, <2>1, UnlinkInv DEF DeletionFails
  <2>2. CASE /\ \/ /\ deletion[d].pc = "loaded"
                   /\ deletion' = [deletion EXCEPT ![d].pc = "failed"]
                \/ /\ deletion[d].pc = "unlinked"
                   /\ deletion' = [deletion EXCEPT ![d].pc = "torn"]
             /\ UNCHANGED file
    BY <1>10, <2>2, DeletionFailsInv DEF DeletionFails
  <2> QED
    BY <1>10, <2>1, <2>2 DEF DeletionFails
<1> QED
  BY <1>1, <1>2, <1>3, <1>4, <1>5, <1>6, <1>7, <1>8, <1>9, <1>10 DEF Next

(* Whatever the interleaving, Inv holds in every reachable state.          *)
THEOREM InvHolds == Spec => []Inv
<1> QED
  BY InitInv, NextInv, PTL DEF Spec

(* Rows, disk and requests keep their types, and a row exists exactly when *)
(* its upload has committed (attach_file_Service).                         *)
THEOREM TypeCorrect == Spec => []TypeOK
<1>1. Inv => TypeOK
  BY DEF Inv
<1> QED
  BY <1>1, InvHolds, PTL

(* No attachment that is reported as deleted still has its file, whatever  *)
(* requests overlap and fail (delete_attachment_service,                   *)
(* delete_task_service).                                                   *)
THEOREM DeletionRemovesFiles == Spec => []DeletedIsGone
<1>1. Inv => DeletedIsGone
  BY DEF Inv
<1> QED
  BY <1>1, InvHolds, PTL

(* An attachment can lose its bytes only to its own deletion or to a file  *)
(* of the same name in the same task (open_attachment_service).            *)
THEOREM LossHasACause == Spec => []ServesOwnBytes
<1>1. Inv => ServesOwnBytes
  <2> SUFFICES ASSUME Inv, NEW u \in Uploads, CanOpen(u)
               PROVE  file[Path(u)] = u \/ BeingDeleted(u) \/ SharesPath(u)
    BY DEF ServesOwnBytes
  <2>1. upload[u].pc = "done" /\ row[u] # "deleted"
    BY DEF Inv, TypeOK, CanOpen
  <2> QED
    BY <2>1 DEF Inv, OwnBytes
<1> QED
  BY <1>1, InvHolds, PTL
=============================================================================
