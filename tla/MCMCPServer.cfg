CONSTANTS
  c1 = c1
  c2 = c2
  s = s
  Calls = {c1, c2}
  Discovery = d
  Stops = {s}
  None = None
  MaxGens = 3
SPECIFICATION MCSpec
PROPERTY CallReturns
INVARIANTS
  OneTransport
  OwnAnswer
