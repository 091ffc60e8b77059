SPECIFICATION Spec
CONSTANTS
  Formats <- MCFormats
  GapSync = 3
  Gap3 = 2
  DataLen = 2
  Datas <- MCDatas
  Before <- MCBefore
  QuickDisk = FALSE
  Damages <- MCDamages
INVARIANTS
  InPlace
  SyncAtMark
  WarnsOfDamage
