SPECIFICATION FairSpec
CONSTANTS
  t1 = t1
  t2 = t2
  t3 = t3
  w1 = w1
  w2 = w2
  c1 = c1
  Boot = Boot
  Stop = Stop
  Cleaner = Cleaner
  Nobody = Nobody
  Task = {t1, t2, t3}
  Worker = {w1}
  Canceller = {}
  Backlog = {t1, t2, t3}
  LeftRecords <- LeftActive
  MayShutdown = FALSE
  MayExpire = TRUE
  MaxCrashes = 1
PROPERTIES
  OnlyDeliveredRemoved
  BacklogDrains
INVARIANT
  AllReturned
