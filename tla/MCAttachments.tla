--------------------------- MODULE MCAttachments ---------------------------
(* Attachments for TLC. Three uploads and two deletions let two deletions  *)
(* of one attachment, or of it and its task, overlap with the upload of    *)
(* another file of the same or of another name.                            *)
EXTENDS Attachments, TLC

Symmetry ==
  Permutations(Tasks) \cup Permutations(Names) \cup Permutations(Uploads)
  \cup Permutations(Deletions)
=============================================================================
