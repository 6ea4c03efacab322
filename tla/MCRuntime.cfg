SPECIFICATION MCSpec
CONSTANTS
  x = x
  y = y
  w2 = w2
  Workers = {w1, w2}
  Facts = {f1}
  NoFact = NoFact
  MaxRows = 1
  Turns = {t1}
  Openers = {"agent", "cli"}
  Nobody = Nobody
  Namespaces = {"s1", "s2", "global"}
  Texts = {x, y}
  MaxMemCrashes = 2
  Failed = Failed
  Noise = {y}
  RagLimit = 1
  Chunks = {c1}
  Viewers = {a, b}
  Levels = {"INFO", "WARN"}
  BufSize = 2
  ChanCap = 1
  TailLines = 1
  MaxEntries = 3
  Executors = {"anthropic", "openai"}
  Managers = {"none", "openai"}
  MemoryWindow = 5
  KeepContext = 2
  KeepLastAssistants = 1
  MaxTurns = 3
  MaxCalls = 2
  MaxRounds = 2
INVARIANTS
  StoresOutliveWorkers
  MemoryKept
  RecallIsolated
  StreamComplete
  CompactedPaired
PROPERTIES
  ShutdownEnds
CHECK_DEADLOCK FALSE
