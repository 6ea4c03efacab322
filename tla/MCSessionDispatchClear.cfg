SPECIFICATION Spec
CONSTANTS
  k1 = k1
  Calls = {c1, c2, c3}
  Sessions = {k1}
  SessionOf <- MCSessionOf
  e1 = e1
  Earlier <- MCNoEarlier
  LockIds = {l1}
  NoLock = NoLock
  MemoryWindow = 2
  SumThreshold = 1
  SumEnabled = TRUE
  TTLEnabled = TRUE
  TokenBudget = 1
  SummaryTurns = 1
  MaxCheckpoints = 2
  StatusMayFail = FALSE
  MaxCrashes = 0
  MaxClears = 1
PROPERTIES
  ClearedNotResumed
CHECK_DEADLOCK FALSE
