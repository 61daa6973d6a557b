SPECIFICATION Spec
CONSTANTS
  SprintLimits = {0, 1, 7}
  NoAC = NoAC
  MaxWire = 1
INVARIANT
  SettingIsApplied
