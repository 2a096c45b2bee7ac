SPECIFICATION EventsSpec
CONSTANTS
  a = a
  b = b
  Unmapped = Unmapped
  EngineChains <- MCChains
  Scenarios <- MCScenarios
  Retained = 3
  MaxRetries = 1
  MaxBatch = 2
INVARIANTS
  EventsFollowed
  SocketsClosed
CHECK_DEADLOCK FALSE
