SPECIFICATION WindowSpec
CONSTANTS
  Executors = {"gemini"}
  Managers = {"none"}
  MemoryWindow = 5
  KeepContext = 2
  KeepLastAssistants = 1
  MaxTurns = 3
  MaxCalls = 2
  MaxRounds = 2
INVARIANTS
  CompactedPaired
CHECK_DEADLOCK FALSE
