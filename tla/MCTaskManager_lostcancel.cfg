SPECIFICATION Spec
CONSTANTS
  t1 = t1
  t2 = t2
  t3 = t3
  w1 = w1
  w2 = w2
  c1 = c1
  Boot = Boot
  Stop = Stop
  Cleaner = Cleaner
  Nobody = Nobody
  Task = {t1}
  Worker = {w1}
  Canceller = {c1}
  Backlog = {}
  LeftRecords <- LeftActive
  MayShutdown = FALSE
  MayExpire = FALSE
  MaxCrashes = 0
INVARIANT
  CancelledNotCompleted
CHECK_DEADLOCK FALSE
