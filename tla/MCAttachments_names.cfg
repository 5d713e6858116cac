CONSTANTS
  Tasks = {t1}
  NoTask = notask
  Names = {n1}
  Uploads = {u1, u2}
  Deletions = {d1, d2}
  NoFile = nofile
SPECIFICATION Spec
SYMMETRY Symmetry
INVARIANTS OpenServesUpload
CHECK_DEADLOCK FALSE
