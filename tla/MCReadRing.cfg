\* the second read finds what the first, which may have lost captures, left
SPECIFICATION FairSpec
CONSTANTS
  Size = 4
  CntMod = 32
  Cell = 4
  Word = 4
  NrWords = 2
  Intervals <- MCIntervals
  Phases <- MCPhases
  MfmMarks <- MCMfmMarks
  FmMarks <- MCFmMarks
  Paces <- MCPaces
  Burst = 3
  MaxFlux = 5
  MaxReads = 2
INVARIANTS
  ReadsDisk
  SyncIsOnDisk
  NoOverrun
PROPERTIES
  ReadSpec
  ReadReturns
CHECK_DEADLOCK FALSE
