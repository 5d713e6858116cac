CONSTANTS
  v1 = v1
  v2 = v2
  f1 = f1
  f2 = f2
  i1 = i1
  i2 = i2
  None = none
  Secrets <- MCSecrets
  KindOf <- MCKindOf
  Workloads <- MCWorkloads
  Procs = {p1, p2}
  Passwords = {w1, w2}
  Tokens = {t1, t2}
  Rows = {r1, r2, r3}
SPECIFICATION Spec
SYMMETRY Symmetry
INVARIANTS TypeOK LatestMailWorks OldSessionHasACause RowsPerDevice
PROPERTIES ReuseHasACause LostCodeHasACause DeviceFollowsRequest
CHECK_DEADLOCK FALSE
