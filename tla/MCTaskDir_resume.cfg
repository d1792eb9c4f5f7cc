SPECIFICATION FairSpec
CONSTANTS
  p1 = p1
  p2 = p2
  p3 = p3
  o1 = o1
  o2 = o2
  None = None
  Playlist = {p1, p2, p3}
  Output = {o1, o2}
  OutputOf <- Outputs
  SegCount <- Lengths
  FlushMayFail = FALSE
INVARIANTS
  TypeOK
  OutputUnmixed
  OkMeansWhole
PROPERTIES
  ImplementsResumable
  EveryoneDelivered
