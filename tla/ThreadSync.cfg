SPECIFICATION FairSpec
CONSTANTS
  Callbacks = {c1, c2, c3}
  NoCallback = NoCallback
  Capacity = 3
INVARIANTS
  TypeOK
  DamageNeedsARace
PROPERTIES
  AtomicUntilRace
  RunUnlessRace
\* A race may end the server.
CHECK_DEADLOCK FALSE
