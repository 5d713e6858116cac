CONSTANTS
  free = free
  pro = pro
  enterprise = enterprise
  Plans <- MCPlans
  Free = free
  Price <- MCPrice
  NoPlan = none
  Subs = {s1, s2}
  NoSub = nosub
  Procs = {p1, p2}
  MaxPeriod = 1
  MaxRequests = 2
  MaxReplays = 1
  MaxEvents = 3
  Hazards = {"overlap", "reorder", "fault", "twoPayments"}
SPECIFICATION Spec
SYMMETRY Symmetry
INVARIANTS ItemBelongs GrantedPlanWasPriced
CHECK_DEADLOCK FALSE
