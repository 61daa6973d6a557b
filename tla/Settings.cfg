SPECIFICATION Spec
CONSTANTS
  SprintLimits = {0, 1, 7}
  NoAC = NoAC
  MaxWire = 3
INVARIANTS
  TypeOK
  GettersTellTheTruth
  FrameLimitComesFromScripts
