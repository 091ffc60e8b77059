\* serial input during the completion interrupt
SPECIFICATION Spec
CONSTANTS
  Size = 4
  CtrMod = 12
  Messages <- MCLfMessages
  DumpLines = 1
  DumpMessage <- MCDump
  CrashFrom = {"thread", "irq"}
  LfNeedsRoom = TRUE
PROPERTIES
  CrashDumps
CHECK_DEADLOCK FALSE
