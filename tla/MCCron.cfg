SPECIFICATION FairSpec
CONSTANTS
  j1 = j1
  j2 = j2
  IDs = {j1, j2}
  Seeds = {j2}
  Defs <- AllDefs
  InitFile <- MCInitFile
  NoJob = NoJob
  NoStore = NoStore
  Malformed = Malformed
  Every = 2
  Period = 3
  AtTime = 4
  EditLive = TRUE
  WritesFail = TRUE
  FileBreaks = TRUE
  MaxTime = 4
  MaxEdits = 1
  MaxCrashes = 1
PROPERTIES
  OncePersisted
  NoRefire
  DueRuns
  RemovalAuthorized
CHECK_DEADLOCK FALSE
