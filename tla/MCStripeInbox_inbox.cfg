CONSTANTS
  Events = {e1, e2}
  NoEvent = none
  Tasks = {t1, t2, t3}
  Modes = {TRUE, FALSE}
  MaxRetries = 2
  MaxFaults = 3
SPECIFICATION FairSpec
INVARIANTS TypeOK SingleOwner EffectAtMostOnce
PROPERTIES LedgerSpec JobsEnd AckedIsProcessed
CHECK_DEADLOCK FALSE
