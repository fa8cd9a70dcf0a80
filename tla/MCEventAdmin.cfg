SPECIFICATION AdminSpec
CONSTANTS
  b1 = b1
  k1 = k1
  Bookings = {b1}
  Qty <- MCQty
  Capacity = 2
  Keys = {k1}
  KeyOf <- MCKeyOf
  Events = {}
  Cancels = {}
  Admins <- MCAdmins
  NullSessionsCollide = FALSE
  Env = {"crash"}
INVARIANTS
  MetaFollowsStatus
  PublishedLedger
  LateIsRefused
CHECK_DEADLOCK FALSE
