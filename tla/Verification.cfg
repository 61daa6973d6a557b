SPECIFICATION FairSpec
CONSTANTS
  Interval = 6
  Slack = 1
  MaxLate = 1
  JoinWithin = 3
INVARIANTS
  TypeOK
  SilenceIsNoticed
PROPERTIES
  WarnedForACause
  UnloadedIsWarned
