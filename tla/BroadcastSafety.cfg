SPECIFICATION Spec
CONSTANTS
  Broadcasts = {1}
  Seqs = {1, 2, 3}
  PerTick = 2
  TickMs = 1
  ThrottleDelay <- MCThrottleDelay
  TokenRetry = 1
  MaxThrottled = 2
  Breaker = 2
  MaxRunning = 2
  Tokens = {"ok", "missing", "unavailable"}
  Answers = {"ok", "lost", "throttled", "halt", "failed"}
  LimiterRefuses = TRUE
  Reserved = {0, 1, 2}
  Calls = {"cancel", "erase"}
  MaxCalls = 1
  MaxCrashes = 1
PROPERTIES
  KeepsPromise
