SPECIFICATION Spec
CONSTANTS
  g1 = g1
  g2 = g2
  g3 = g3
  l1 = l1
  a1 = a1
  c1 = c1
  p1 = p1
  u1 = u1
  o1 = o1
  e1 = e1
  w1 = w1
  w2 = w2
  NoOne = NoOne
  Requests = {g1, g2, g3, l1, a1, c1, p1, u1, o1}
  Emails = {e1}
  Passwords = {w1, w2}
  Call <- MCCall
  Scenarios <- MCScenarios
  Env = {"fault", "crash"}
INVARIANTS
  AccountsInv
  RegisteredCanLogIn
  ServedInRole
  LogTellsAnswer
  ErrorsKept
PROPERTIES
  BookSpec
CHECK_DEADLOCK FALSE
