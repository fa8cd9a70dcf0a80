SPECIFICATION Spec
CONSTANTS
  b1 = b1
  b2 = b2
  k1 = k1
  k2 = k2
  Bookings = {b1, b2}
  Qty <- MCQty
  Capacity = 3
  Keys = {k1, k2}
  KeyOf <- MCOwnKeys
  Events <- MCNoEvent
  Cancels <- MCNoCancel
  NullSessionsCollide = TRUE
  Env = {}
INVARIANTS
  NullSessionsExcluded
CHECK_DEADLOCK FALSE
