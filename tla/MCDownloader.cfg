SPECIFICATION FairSpec
CONSTANTS
  g1 = g1
  g2 = g2
  g3 = g3
  Goroutine = {g1, g2, g3}
  SegLen = 3
  Concurrency = 2
  MaxRetry = 1
  ToMP4 = TRUE
INVARIANTS
  TypeOK
  Partition
  Throttled
  SettledAtEnd
  OkMeansDelivered
  GivenUpAfterAllRetries
PROPERTIES
  FilesKeptUntilMerged
  Termination
  CancelHonoured
  ImplementsJob
