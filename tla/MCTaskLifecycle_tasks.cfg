CONSTANTS
  ann = ann
  Nobody = nobody
  None = none
  Null = null
  Users <- MCUsers
  Inputs <- MCInputs
  Changes <- MCChanges
  Procs = {p1, p2}
  t1 = t1
  t2 = t2
  Tasks <- MCTasks
  Workloads <- MCWorkloads
  Wishes = {w1}
  Dues = {0, 2, 3}
  LastDay = 1
  MaxRetries = 1
  MaxUpdates = 2
SPECIFICATION FairSpec
INVARIANTS TypeOK OneTaskPerWish
PROPERTIES DoneStaysDone MarkedIsLate AnnouncedIsCommitted DeletedForGood SecondReminderHasACause LateIsMarked
CHECK_DEADLOCK FALSE
