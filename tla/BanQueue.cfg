SPECIFICATION FairSpec
CONSTANTS
  Bans = {b1, b2, b3}
  Checker = Checker
  Nobody = Nobody
  Outcomes = {"registered", "refused", "unanswered", "unreachable"}
INVARIANTS
  TypeOK
  FrontIsSafe
  NobodyWaits
  NoBanIsLost
PROPERTIES
  DeliverySpec
  BacklogIsFollowedByRecheck
