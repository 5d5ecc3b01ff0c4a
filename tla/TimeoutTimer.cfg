SPECIFICATION FairSpec
CONSTANTS
  Timers = {t1, t2, t3}
  None = None
  Timeouts = {0, 1, 2}
  MaxTime = 4
  MaxCalls = 3
INVARIANTS
  NoOrphan
  NotEarly
PROPERTIES
  RunsInTheEnd
CHECK_DEADLOCK FALSE
