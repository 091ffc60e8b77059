SPECIFICATION FairSpec
CONSTANTS
  Nr = 3
  Disks <- MCDisks
  Half = 6
  Seeks <- MCSeeks
  Lead = 2
  SecLen = 8
  LongLen = 16
  Tracks = 2
  Values <- MCValues
  MaxLag = 1
INVARIANTS
  WritesOwn
  NoWarn
  FaultSeen
PROPERTIES
  TestsEnd
