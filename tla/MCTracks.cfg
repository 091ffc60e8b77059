SPECIFICATION FairSpec
CONSTANTS
  Sectors <- MCSectors
  Values <- MCValues
  Filler = "e2"
  Formats <- MCFormats
  TrackLen = 34
  MaxLag = 1
  GapSync = 3
  HdrLen = 2
  Gap2 = 1
  DatLen = 3
  Gap3 = 3
  EdgeGap = 2
  TrackGap = 2
  SecGap = 1
  InfoLen = 2
  BodyLen = 5
  WholeLen = 36
  MaxInfo = 4
INVARIANTS
  NoWarn
  GapMeasured
  TrackIntact
PROPERTIES
  TestsEnd
