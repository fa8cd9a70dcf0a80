SPECIFICATION PaySpec
CONSTANTS
  b1 = b1
  k1 = k1
  Bookings = {b1}
  Qty <- MCQty
  Capacity = 1
  Keys = {k1}
  KeyOf <- MCKeyOf
  Pays <- MCPays
  Events <- MCEvents
  Cancels <- MCNoCancel
  NullSessionsCollide = FALSE
  Env = {"stray", "race", "partial", "fault", "crash"}
INVARIANTS
  SoldIsPaid
  OnePaymentStored
CHECK_DEADLOCK FALSE
