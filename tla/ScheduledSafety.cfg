SPECIFICATION Spec
CONSTANTS
  Keys = {"k1"}
  MaxVersions = 2
  LastExpiry = 2
  EndOfTime = 4
  PerTick = 1
  TickMs = 1
  TokenRetry = 1
  StaleMs = 1
  MediaRetry = 2
  ThrottleDelay <- MCThrottleDelay
  MaxThrottled = 2
  MaxOpen = 2
  Tokens = {"ok", "missing"}
  Answers = {"ok", "lost", "throttled", "refused"}
  LimiterRefuses = TRUE
  PurgeCanFail = TRUE
  Calls = {"cancel", "erase", "prune"}
  MaxCalls = 2
  MaxFaults = 1
INVARIANTS
  OpenIsAwaited
PROPERTIES
  KeepsPromise
  OnlyLiveIsSent
  FailureIsTold
