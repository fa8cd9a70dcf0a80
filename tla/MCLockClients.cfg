SPECIFICATION FairSpec
CONSTANTS
  Clients = {c1, c2, c3}
  Keys = {k1, k2}
  OutliveTTL = FALSE
INVARIANTS
  Mutex
PROPERTIES
  LockFreed
CHECK_DEADLOCK FALSE
