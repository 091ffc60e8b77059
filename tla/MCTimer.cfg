\* two timers, near and far deadlines
SPECIFICATION Spec
CONSTANTS
  Timers = {t1, t2}
  t1 = t1
  t2 = t2
  Slack = 2
  Fine = 9
  Unit = 3
  EarlyUnits = 2
  ArrMax = 3
  SetDeltas <- MCSetDeltas
  CbDeltas <- MCCbDeltas
  MaxDelay = 1
  MaxMask = 8
  SetGap = 3
INVARIANTS
  Sorted
  WakeupArmed
  OnTime
PROPERTIES
  HandlerEnds
