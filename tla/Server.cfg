SPECIFICATION FairSpec
CONSTANTS
  Slots = {s1, s2}
  Players = {p1, p2, n}
  ACPlayers = {p1}
  OldClients = {p1}
  NPCs = {n}
  Cheaters = {p1}
  RconAdmins = {p2}
  NoPlayer = NoPlayer
  NoAC = NoAC
  MaxKicks = 1
  MaxChecks = 1
  MaxQueue = 1
  MaxGrants = 1
INVARIANTS
  TypeOK
  UnprotectedIsBeingKicked
  BannedIsBeingKicked
  InheritedOnlyFromTheNeverJoined
  MisdirectedOnlyAfterLeaving
PROPERTIES
  OnlyTheAllowedToggle
  NoReprieve
  UnprotectedLeaves
  BannedLeaves
\* Every connection may have come and gone.
CHECK_DEADLOCK FALSE
