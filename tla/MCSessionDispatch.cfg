SPECIFICATION FairSpec
CONSTANTS
  k1 = k1
  Calls = {c1, c2}
  Sessions = {k1}
  SessionOf <- MCSessionOf
  e1 = e1
  Earlier <- MCEarlier
  LockIds = {l1}
  NoLock = NoLock
  MemoryWindow = 1
  SumThreshold = 1
  SumEnabled = TRUE
  TTLEnabled = TRUE
  TokenBudget = 1
  SummaryTurns = 1
  MaxCheckpoints = 2
  StatusMayFail = TRUE
  MaxCrashes = 1
  MaxClears = 1
INVARIANTS
  AckedDurable
  LatestIsNewest
  MetadataAfterSnapshot
PROPERTIES
  NoLostUpdate
  EveryCallReturns
CHECK_DEADLOCK FALSE
