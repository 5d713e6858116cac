CONSTANTS
  Events = {e1}
  NoEvent = none
  Tasks = {t1, t2}
  Modes = {TRUE}
  MaxRetries = 3
  MaxFaults = 1
SPECIFICATION Spec
INVARIANTS RetryHandlesEvent
CHECK_DEADLOCK FALSE
