SPECIFICATION FairSpec
CONSTANTS
  BufSize = 3
  SendRoom = 3
  Inputs <- SomeInputs
INVARIANTS
  TypeOK
  FailedConnectNoticed
  PrintsEcho
PROPERTIES
  NeverStuck
