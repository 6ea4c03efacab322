SPECIFICATION Spec
CONSTANTS
  p1 = p1
  p2 = p2
  p3 = p3
  d1 = d1
  d2 = d2
  Procs = {p1, p2, p3}
  Data = {d1}
  NoFile = NoFile
  LiveStale = FALSE
  Profiles <- StaleProfiles
INVARIANTS
  LockMutex
CHECK_DEADLOCK FALSE
SYMMETRY Symm
