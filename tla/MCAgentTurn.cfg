CONSTANTS
  t1 = t1
  t2 = t2
  s1 = s1
  job = job
  read = read
  write = write
  spawn = spawn
  ghost = ghost
  Turns = {t1, t2}
  Sessions = {s1, job}
  CronSessions = {job}
  Reads = {read}
  Writes = {write}
  Spawn = spawn
  Unknown = ghost
  Responses <- MCResponses
  Specialist <- MCSpecialist
  Default <- MCDefault
  Fallbacks <- MCFallbacks
  Reflect = TRUE
  MaxRounds = 1
  MaxIter = 2
  SubIter = 1
  MaxRetries = 1
  MaxFail = 2
  Main = Main
  NoBreaker = NoBreaker
SPECIFICATION Spec
INVARIANTS
  FreshResults
  Paired
  FailClosed
  ProbeAlone
