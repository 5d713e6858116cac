CONSTANTS
  free = free
  pro = pro
  Plans <- MCPlans
  Free = free
  MaxUsers <- MCMaxUsers
  MaxTasks <- MCMaxTasks
  Users = {u1, u2}
  Tasks = {t1, t2, t3, t4}
  NoItem = noitem
  Procs = {p1, p2}
SPECIFICATION Spec
SYMMETRY Symmetry
INVARIANTS TypeOK WithinMargin
PROPERTIES OverrunHasACause
CHECK_DEADLOCK FALSE
