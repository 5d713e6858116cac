CONSTANTS
  free = free
  pro = pro
  enterprise = enterprise
  Plans <- MCPlans
  Free = free
  Price <- MCPrice
  NoPlan = none
  Subs = {s1, s2}
  NoSub = nosub
  Procs = {p1}
  MaxPeriod = 2
  MaxRequests = 4
  MaxReplays = 0
  MaxEvents = 3
  Hazards = {"create", "declined", "twoPayments"}
SPECIFICATION FairSpec
PROPERTIES EndIsRecorded
CHECK_DEADLOCK FALSE
