---------------------------- MODULE Attachments ----------------------------
(***************************************************************************)
(* The files of task attachments and the rows that name them               *)
(* (attach_file_Service, open_attachment_service, delete_attachment_service*)
(* and delete_task_service of task_service.py).                            *)
(*                                                                         *)
(* A request reads its rows, then touches the disk, then commits, and      *)
(* gives up control at each await in between; several processes may serve  *)
(* requests (WEB_CONCURRENCY). The disk is not part of the transaction: a  *)
(* request that fails after it has touched the disk leaves it as it is.    *)
(* Rows are never removed, only marked is_deleted. One workspace.          *)
(***************************************************************************)
CONSTANTS
  Tasks, NoTask,   \* rows of tasks
  Names,           \* file names
  Uploads,         \* upload requests, with the id of the row each inserts
  Deletions,       \* requests that delete an attachment or a task
  NoFile

ASSUME NoTaskIsNone == NoTask \notin Tasks
ASSUME NoFileIsNone == NoFile \notin Uploads

VARIABLES
  removed,    \* tasks with is_deleted
  row,        \* task_attachments: absent, live, or deleted (is_deleted)
  file,       \* the disk: the upload whose bytes are in the file of a path
  upload,     \* the upload requests
  deletion    \* the requests to delete

vars == <<removed, row, file, upload, deletion>>

(* An upload that failed after it had begun to write is torn, and so is a  *)
(* deletion that failed after it had begun to remove files.                *)
UploadPC == {"new", "loaded", "written", "done", "failed", "torn"}
DeletionPC == {"new", "loaded", "unlinked", "done", "failed", "torn"}

Upload == [pc : UploadPC, task : Tasks \cup {NoTask}, name : Names \cup {NoFile}]
Deletion == [pc : DeletionPC, task : Tasks \cup {NoTask}, rows : SUBSET Uploads]

(* uploads/<workspace>/<task>/<name>, with the name the client has given.  *)
Path(u) == <<upload[u].task, upload[u].name>>

TypeOK ==
  /\ removed \subseteq Tasks
  /\ row \in [Uploads -> {"absent", "live", "deleted"}]
  /\ file \in [Tasks \X Names -> Uploads \cup {NoFile}]
  /\ upload \in [Uploads -> Upload]
  /\ deletion \in [Deletions -> Deletion]
  /\ \A u \in Uploads : /\ upload[u].pc # "new" => Path(u) \in Tasks \X Names
                        /\ row[u] # "absent" <=> upload[u].pc = "done"

Init ==
  /\ removed = {}
  /\ row = [u \in Uploads |-> "absent"]
  /\ file = [p \in Tasks \X Names |-> NoFile]
  /\ upload = [u \in Uploads |-> [pc |-> "new", task |-> NoTask, name |-> NoFile]]
  /\ deletion = [d \in Deletions |-> [pc |-> "new", task |-> NoTask, rows |-> {}]]

-----------------------------------------------------------------------------
(* POST /task/attachment. The task may be a deleted one: the query does    *)
(* not ask.                                                                *)
LoadTask(u, t, n) ==
  /\ upload[u].pc = "new"
  /\ upload' = [upload EXCEPT ![u] = [pc |-> "loaded", task |-> t, name |-> n]]
  /\ UNCHANGED <<removed, row, file, deletion>>

(* open(file_path, "wb") empties a file that is there.                     *)
Write(u) ==
  /\ upload[u].pc = "loaded"
  /\ file' = [file EXCEPT ![Path(u)] = u]
  /\ upload' = [upload EXCEPT ![u].pc = "written"]
  /\ UNCHANGED <<removed, row, deletion>>

Insert(u) ==
  /\ upload[u].pc = "written"
  /\ row' = [row EXCEPT ![u] = "live"]
  /\ upload' = [upload EXCEPT ![u].pc = "done"]
  /\ UNCHANGED <<removed, file, deletion>>

(* Mutant of UploadFails: an attachment that was flushed is kept.          *)
UploadFailsWithoutRollback(u) ==
  /\ \/ upload[u].pc = "loaded" /\ upload' = [upload EXCEPT ![u].pc = "failed"] /\ UNCHANGED <<row, file>>
     \/ /\ upload[u].pc = "written" /\ upload' = [upload EXCEPT ![u].pc = "torn"]
        /\ row' = [row EXCEPT ![u] = "live"] /\ UNCHANGED file
  /\ UNCHANGED <<removed, deletion>>

(* The type of the file is not allowed, the plan has no file_attachments,  *)
(* or an exception; the disk keeps what was written, if only a part.       *)
UploadFails(u) ==
  /\ \/ /\ upload[u].pc = "loaded"
        /\ upload' = [upload EXCEPT ![u].pc = "failed"] /\ UNCHANGED file
     \/ /\ upload[u].pc = "loaded"
        /\ upload' = [upload EXCEPT ![u].pc = "torn"] /\ file' = [file EXCEPT ![Path(u)] = u]
     \/ /\ upload[u].pc = "written"
        /\ upload' = [upload EXCEPT ![u].pc = "torn"] /\ UNCHANGED file
  /\ UNCHANGED <<removed, row, deletion>>

-----------------------------------------------------------------------------
(* GET /task/attachment/open serves the file at the path of such a row.    *)
CanOpen(u) == row[u] = "live" /\ upload[u].task \notin removed

(* DELETE /task/attachment, found by the same query.                       *)
LoadAttachment(d, u) ==
  /\ deletion[d].pc = "new" /\ CanOpen(u)
  /\ deletion' = [deletion EXCEPT ![d] = [pc |-> "loaded", task |-> NoTask, rows |-> {u}]]
  /\ UNCHANGED <<removed, row, file, upload>>

(* DELETE /task, with all rows of the task, the deleted ones included.     *)
LoadAttachments(d, t) ==
  /\ deletion[d].pc = "new" /\ t \notin removed
  /\ deletion' = [deletion EXCEPT ![d] =
       [pc |-> "loaded", task |-> t,
        rows |-> {u \in Uploads : row[u] # "absent" /\ upload[u].task = t}]]
  /\ UNCHANGED <<removed, row, file, upload>>

(* Mutant of Unlink: a task is deleted with its directory.                 *)
UnlinkDirectory(d, us) ==
  file' = [p \in Tasks \X Names |->
             IF p[1] = deletion[d].task \/ \E u \in us : p = Path(u) THEN NoFile ELSE file[p]]

(* Mutant of Unlink: the files of a deleted task stay.                     *)
UnlinkNone(d, us) ==
  IF deletion[d].task = NoTask
  THEN file' = [p \in Tasks \X Names |-> IF \E u \in us : p = Path(u) THEN NoFile ELSE file[p]]
  ELSE file' = file

(* os.remove of the paths that exist.                                      *)
Unlink(d, us) ==
  file' = [p \in Tasks \X Names |-> IF \E u \in us : p = Path(u) THEN NoFile ELSE file[p]]

Remove(d) ==
  /\ deletion[d].pc = "loaded"
  /\ Unlink(d, deletion[d].rows)
  /\ deletion' = [deletion EXCEPT ![d].pc = "unlinked"]
  /\ UNCHANGED <<removed, row, upload>>

MarkDeleted(d) ==
  /\ deletion[d].pc = "unlinked"
  /\ row' = [u \in Uploads |-> IF u \in deletion[d].rows THEN "deleted" ELSE row[u]]
  /\ removed' = removed \cup ({deletion[d].task} \ {NoTask})
  /\ deletion' = [deletion EXCEPT ![d].pc = "done"]
  /\ UNCHANGED <<file, upload>>

(* An exception: before, while or after the files are removed.             *)
DeletionFails(d) ==
  /\ \/ /\ deletion[d].pc = "loaded"
        /\ deletion' = [deletion EXCEPT ![d].pc = "failed"] /\ UNCHANGED file
     \/ /\ deletion[d].pc = "loaded"
        /\ deletion' = [deletion EXCEPT ![d].pc = "torn"]
        /\ \E us \in SUBSET deletion[d].rows : Unlink(d, us)
     \/ /\ deletion[d].pc = "unlinked"
        /\ deletion' = [deletion EXCEPT ![d].pc = "torn"] /\ UNCHANGED file
  /\ UNCHANGED <<removed, row, upload>>

-----------------------------------------------------------------------------
Next ==
  \/ \E u \in Uploads : \/ \E t \in Tasks, n \in Names : LoadTask(u, t, n)
                        \/ Write(u) \/ Insert(u) \/ UploadFails(u)
  \/ \E d \in Deletions : \/ \E u \in Uploads : LoadAttachment(d, u)
                          \/ \E t \in Tasks : LoadAttachments(d, t)
                          \/ Remove(d) \/ MarkDeleted(d) \/ DeletionFails(d)

Spec == Init /\ [][Next]_vars

-----------------------------------------------------------------------------
(* What is reported as deleted is gone from the disk, whatever uploads and *)
(* deletions overlap and fail: "Attachment deletion that removes both the  *)
(* database record state and uploaded file from disk" (README.md:28).      *)
DeletedIsGone ==
  \A u \in Uploads : row[u] = "deleted" => file[Path(u)] # u

BeingDeleted(u) == \E d \in Deletions : deletion[d].pc \in {"unlinked", "torn"} /\ u \in deletion[d].rows

SharesPath(u) ==
  \E v \in Uploads \ {u} : upload[v].pc \in {"written", "torn", "done"} /\ Path(v) = Path(u)

(* An attachment that can be opened serves the bytes it was uploaded with, *)
(* unless its deletion is under way or has failed half-way, or another file*)
(* of the same name was attached to the task.                              *)
ServesOwnBytes ==
  \A u \in Uploads : CanOpen(u) => file[Path(u)] = u \/ BeingDeleted(u) \/ SharesPath(u)

(* "Protected file uploads and file opening for task attachments"          *)
(* (README.md:27): an attachment that was uploaded and that nobody deletes *)
(* is opened as it was uploaded.                                           *)
OpenServesUpload ==
  \A u \in Uploads : CanOpen(u) => file[Path(u)] = u \/ BeingDeleted(u)
=============================================================================
