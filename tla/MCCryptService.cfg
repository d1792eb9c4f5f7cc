SPECIFICATION FairSpec
CONSTANTS
  t1 = t1
  t2 = t2
  s1 = s1
  s2 = s2
  Nobody = Nobody
  MaxKeys = 2
  Task = {t1, t2}
  Script = {s1, s2}
  External = {s1}
  Url <- SomeUrls
  Web <- SomeWeb
  Config <- SomeConfigs
INVARIANTS
  TypeOK
  CloudKeysByProvider
  NothingLeftBehind
PROPERTIES
  TasksEnd
CHECK_DEADLOCK FALSE
