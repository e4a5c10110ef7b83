SPECIFICATION Spec
CONSTANTS
  Calls = {c1, c2}
  Refreshes = {f1, f2}
  NoRefresh = NoRefresh
  Runs = {r1, r2}
  Connections = {k1, k2}
  Rules = {x, y}
  Dumps = {d1, d2}
  Writes = {w1, w2}
  Listings = {a, b}
  Requests = {q1, q2}
  DailyCalls = 3
CHECK_DEADLOCK FALSE
INVARIANTS
  PlatformTypeOK
  OneRefresh
  ReplayedOnce
  SignedInHasToken
  LogoutSticks
  EveryRuleTried
  OverlapHasCause
  LockOutlivesRun
  DumpsUnderLock
  WritersPredateDump
  BudgetKept
  SuccessKeepsQuote
PROPERTIES
  CallsEnd
  RunsEnd
  LockComesFree
