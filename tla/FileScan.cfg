SPECIFICATION FairSpec
CONSTANTS
  Slots = {s1, s2}
  TimerIds = {t1, t2}
  NoTimer = NoTimer
  NoSlot = NoSlot
  NoAC = NoAC
  Lists <- ScanLists
  MaxLength = 2
  f1 = f1
  f2 = f2
INVARIANTS
  TypeOK
  TimerIsOwn
PROPERTIES
  ScanIsComplete
  ScanEnds
