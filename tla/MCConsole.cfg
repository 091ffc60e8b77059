\* output, barriers and crashes of the thread
SPECIFICATION Spec
CONSTANTS
  Size = 4
  CtrMod = 12
  Messages <- MCMessages
  DumpLines = 1
  DumpMessage <- MCDump
  CrashFrom = {"thread"}
  LfNeedsRoom = TRUE
INVARIANTS
  ConsExact
PROPERTIES
  FifoSpec
  BarrierReturns
  CrashDumps
