SPECIFICATION Spec
CONSTANTS
  b1 = b1
  b2 = b2
  k1 = k1
  k2 = k2
  Bookings = {b1, b2}
  Qty <- MCQty
  Capacity = 2
  Keys = {k1, k2}
  KeyOf <- MCOwnKeys
  Events <- MCMixed
  Cancels <- MCOneCancel
  NullSessionsCollide = FALSE
  Env = {"fault"}
INVARIANTS
  CalmInv
  OneHandler
  Ledger
  SlotsNonNegative
  NoOversell
  SoldIsHeld
  ConfirmedAsAWhole
PROPERTIES
  SaleSpec
CHECK_DEADLOCK FALSE
