SPECIFICATION FairSpec
CONSTANTS
  c1 = c1
  c2 = c2
  Closer = Closer
  Nobody = Nobody
  Setup = Setup
  Call = {c1, c2}
  BigRequest = {c1}
  MaxStrays = 1
INVARIANTS
  TypeOK
  InStep
PROPERTIES
  KillSparesOthers
  CallsReturn
  ImplementsScriptCalls
CHECK_DEADLOCK FALSE
