SPECIFICATION FairSpec
CONSTANTS
  Threads = {game, loader}
  Game = game
  Addresses = {a1, a2}
  Contents = {m1, m2}
  Other = Other
  Free = Free
  Nobody = Nobody
  MaxTimeDifference = 1
  MaxLostPackets = 3
  Width = 16
  MaxLag = 1
INVARIANTS
  TypeOK
  OnlyUnsentStay
PROPERTIES
  LossesExplained
  EveryEntryLeaves
\* The process may have ended.
CHECK_DEADLOCK FALSE
