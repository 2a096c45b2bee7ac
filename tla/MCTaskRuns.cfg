SPECIFICATION TasksSpec
CONSTANTS
  a = a
  b = b
  Impls = {a, b}
  Ranks <- MCRanks
  Patience <- MCPatience
  MaxMessages = 2
  MaxEvents = 3
  Wrappers = {w1, w2, w3}
  Mine = {w1}
  Devices = {d1}
  MaxSteps = 2
  StepLimit = 2
  MaxTurns = 3
  MaxCalls = 2
  TimeoutBudget = 1
  TokenBudget = 3
  MaxRetries = 1
  MaxChunks = 2
  LogRuns = {"l1", "l2"}
  LogIds = {"i1", "i2"}
  LogNames <- MCLogNames
  QueueMax = 2
  MountLevel = 2
  MaxRecords = 2
  LogTroubles = 1
INVARIANTS
  LeaseExclusive
  NothingLeft
  ScoreSound
  HonestEnd
  AgentsOwnWork
  RewardEarned
  TurnsKept
  LogsKept
