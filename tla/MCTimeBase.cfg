\* every reload, wrap and renewal
SPECIFICATION TimeSpec
CONSTANTS
  Hi = 3
  Lo = 16
  Period = 6
  Early = 1
  Late = 3
  MaxStall = 6
  Delays <- MCDelays
INVARIANTS
  NowIsExact
  StampIsRecent
  DelayIsExact
