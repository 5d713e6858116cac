CONSTANTS
  Tasks = {t1, t2}
  NoTask = notask
  Names = {n1, n2}
  Uploads = {u1, u2, u3}
  Deletions = {d1, d2}
  NoFile = nofile
SPECIFICATION Spec
SYMMETRY Symmetry
INVARIANTS TypeOK DeletedIsGone ServesOwnBytes
CHECK_DEADLOCK FALSE
