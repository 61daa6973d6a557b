SPECIFICATION FairSpec
CONSTANTS
  MaxSessions = 2
  MaxFiles = 1
  ImgModified = TRUE
INVARIANTS
  TypeOK
  NoReportVanishes
  ReportsFollowTheInfo
PROPERTIES
  EveryFileIsReported
  QueueIsWorkedOff
  GameGoesOn
\* Every session may be over and the loader stuck.
CHECK_DEADLOCK FALSE
