SPECIFICATION FairSpec
CONSTANTS
  Keys = {"k1", "k2"}
  MaxVersions = 1
  LastExpiry = 2
  EndOfTime = 5
  PerTick = 1
  TickMs = 1
  TokenRetry = 1
  StaleMs = 1
  MediaRetry = 1
  ThrottleDelay <- MCThrottleDelay
  MaxThrottled = 2
  MaxOpen = 2
  Tokens = {"ok", "missing"}
  Answers = {"ok", "lost", "throttled"}
  LimiterRefuses = FALSE
  PurgeCanFail = FALSE
  Calls = {}
  MaxCalls = 0
  MaxFaults = 1
PROPERTIES
  OpenEnds
