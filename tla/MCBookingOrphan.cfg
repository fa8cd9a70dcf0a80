SPECIFICATION Spec
CONSTANTS
  b1 = b1
  b2 = b2
  k1 = k1
  k2 = k2
  Bookings = {b1, b2}
  Qty <- MCQty
  Capacity = 2
  Keys = {k1, k2}
  KeyOf <- MCOwnKeys
  Events <- MCPaidBoth
  Cancels <- MCNoCancel
  NullSessionsCollide = FALSE
  Env = {"stray"}
INVARIANTS
  NoOversell
CHECK_DEADLOCK FALSE
