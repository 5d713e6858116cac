CONSTANTS
  free = free
  pro = pro
  enterprise = enterprise
  Plans <- MCPlans
  Free = free
  Price <- MCPrice
  NoPlan = none
  Subs = {s1}
  NoSub = nosub
  Procs = {p1, p2}
  MaxPeriod = 1
  MaxRequests = 1
  MaxReplays = 0
  MaxEvents = 3
  Hazards = {}
SPECIFICATION Spec
SYMMETRY Symmetry
INVARIANTS Synchronised
CHECK_DEADLOCK FALSE
