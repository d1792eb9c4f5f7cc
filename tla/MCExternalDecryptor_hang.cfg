SPECIFICATION HangSpec
CONSTANTS
  c1 = c1
  c2 = c2
  Closer = Closer
  Nobody = Nobody
  Setup = Setup
  Call = {c1, c2}
  BigRequest = {c1}
  MaxStrays = 0
PROPERTIES
  CallsReturn
CHECK_DEADLOCK FALSE
