SPECIFICATION Spec
CONSTANTS
  b1 = b1
  b2 = b2
  k1 = k1
  k2 = k2
  Bookings = {b1}
  Qty <- MCQty
  Capacity = 2
  Keys = {k1, k2}
  KeyOf <- MCSameKey
  Events <- MCContradiction
  Cancels <- MCOneCancel
  NullSessionsCollide = FALSE
  Env = {"stray", "race", "crash"}
INVARIANTS
  AnyEnvInv
  OneReleaser
  OpenAwaitsJob
PROPERTIES
  SoldStaysSold
  CancelledIsClosed
  WebhookLockUse
CHECK_DEADLOCK FALSE
