\* line feeds that do not fit
SPECIFICATION Spec
CONSTANTS
  Size = 4
  CtrMod = 12
  Messages <- MCLfMessages
  DumpLines = 1
  DumpMessage <- MCDump
  CrashFrom = {}
  LfNeedsRoom = FALSE
INVARIANTS
  NeverOverfull
