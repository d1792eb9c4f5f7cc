SPECIFICATION Spec
CONSTANTS
  u1 = u1
  u2 = u2
  URI = {u1, u2}
  Method = {"AES-128"}
  Ranges <- SomeRanges
  Modulus = 4
  MaxLines = 7
  MaxOther = 1
SYMMETRY Swap
INVARIANTS
  TypeOK
  SegmentsAsListed
  KeyInForce
  ImplicitRangesAdjoin
  VariantsAsListed
CHECK_DEADLOCK FALSE
