CONSTANTS
  free = free
  pro = pro
  enterprise = enterprise
  Plans <- MCPlans
  Free = free
  Price <- MCPrice
  NoPlan = none
  Subs = {s1, s2}
  NoSub = nosub
  Procs = {p1}
  MaxPeriod = 3
  MaxRequests = 5
  MaxReplays = 0
  MaxEvents = 3
  Hazards = {}
SPECIFICATION FairSpec
INVARIANTS TypeOK Synchronised OneRow RefusalJustified FailedRequestIsHarmless
PROPERTIES DowngradeNextCycle NoSilentLoss KeepsContract PaidIsGranted
CHECK_DEADLOCK FALSE
