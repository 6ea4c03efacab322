SPECIFICATION MCSpec
CONSTANTS
  r1 = r1
  r2 = r2
  k1 = k1
  k2 = k2
  None = None
  Mailers = {"job", r1, r2, "mail"}
  Bearers = {"tool"}
  MaxGrants = 1
  MaxExpiries = 1
  Payloads <- MCPayloads
  Retriers <- MCRetriers
  Delays = 2
  Calendars <- MCCalendars
  Starts = {1, 2}
  BadStart = later
  MaxEvents = 2
  MaxResults = 2
  MaxCalls = 2
INVARIANTS
  FailureTold
  AnswerNotResent
  ListingComplete
PROPERTIES
  NoTurnAfterShutdown
CHECK_DEADLOCK FALSE
