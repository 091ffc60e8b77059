SPECIFICATION FairSpec
CONSTANTS
  DaCyl = 3
  Cyls <- MCCyls
  Images <- MCImages
  StepTime = 1
  SettleTime = 2
  EjectLimit = 4
  MountLimit = 8
  ReadyLimit = 4
  MotorLimit = 2
  EjectBy = 6
  MountBy = 5
  ReadyBy = 4
  MaxStall = 1
INVARIANTS
  CylIsHead
  ChangeComplete
  NoBug
PROPERTIES
  CallsReturn
