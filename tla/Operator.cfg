SPECIFICATION OperatorSpec
CONSTANTS
  Broadcasts = {1, 2}
  Seqs = {1, 2}
  PerTick = 2
  TickMs = 1
  ThrottleDelay <- MCThrottleDelay
  TokenRetry = 1
  MaxThrottled = 2
  Breaker = 2
  MaxRunning = 2
  Tokens = {"ok", "missing"}
  Answers = {"ok", "throttled", "halt"}
  LimiterRefuses = TRUE
  Reserved = {0, 1}
  Calls = {"cancel"}
  MaxCalls = 1
  MaxCrashes = 0
  PageLimit = 1
  MaxMessages = 4
  LastAt = 2
  MaxReads = 3
  MaxPurges = 1
  MaxViewFaults = 1
INVARIANTS
  EndedHasNoneQueued
  RunningIsAwaited
  NoGap
  NeverOlder
