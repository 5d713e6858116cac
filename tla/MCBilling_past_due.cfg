CONSTANTS
  free = free
  pro = pro
  enterprise = enterprise
  Plans <- MCPlans
  Free = free
  Price <- MCPrice
  NoPlan = none
  Subs = {s1}
  NoSub = nosub
  Procs = {p1}
  MaxPeriod = 2
  MaxRequests = 2
  MaxReplays = 0
  MaxEvents = 3
  Hazards = {"declined"}
SPECIFICATION Spec
PROPERTIES DowngradeNextCycle
CHECK_DEADLOCK FALSE
