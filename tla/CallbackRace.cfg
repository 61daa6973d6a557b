SPECIFICATION Spec
CONSTANTS
  Callbacks = {c1, c2}
  NoCallback = NoCallback
  Capacity = 2
INVARIANT
  NothingIsLost
\* A race may end the server.
CHECK_DEADLOCK FALSE
