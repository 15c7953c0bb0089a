SPECIFICATION FairSpec
CONSTANTS
  Broadcasts = {1}
  Seqs = {1, 2}
  PerTick = 2
  TickMs = 1
  ThrottleDelay <- MCThrottleDelay
  TokenRetry = 1
  MaxThrottled = 2
  Breaker = 3
  MaxRunning = 2
  Tokens = {"ok"}
  Answers = {"ok", "lost", "throttled", "failed"}
  LimiterRefuses = FALSE
  Reserved = {0, 1, 2}
  Calls = {"erase", "prune"}
  MaxCalls = 1
  MaxCrashes = 2
PROPERTIES
  RunningEnds
  SendingEnds
