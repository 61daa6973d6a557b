SPECIFICATION Spec
CONSTANTS
  Slots = {s1}
  Players = {p1, p2}
  ACPlayers = {p1, p2}
  OldClients = {}
  NPCs = {}
  Cheaters = {p1}
  RconAdmins = {}
  NoPlayer = NoPlayer
  NoAC = NoAC
  MaxKicks = 1
  MaxChecks = 1
  MaxQueue = 2
  MaxGrants = 1
PROPERTY
  KickHitsItsTarget
\* Every connection may have come and gone.
CHECK_DEADLOCK FALSE
