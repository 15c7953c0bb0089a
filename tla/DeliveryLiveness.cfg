SPECIFICATION FairSpec
CONSTANTS
  m1 = m1
  m2 = m2
  s1 = s1
  w1 = w1
  c1 = c1
  c2 = c2
  Ids = {1, 2}
  Events = {m1}
  Wamids = {w1}
  Customers = {c1, c2}
  NoWamid = NoWamid
  NoBatch = NoBatch
  NoAlarm = NoAlarm
  About <- MCAbout
  CustomerOf <- MCCustomerOf
  MaxAttempts = 2
  BatchSize = 1
  PoolSize = 1
  Backoff <- MCBackoff
  SweepInterval = 1
  MediaRetry = 1
  OtherWakes = {}
  PurgeCanFail = TRUE
  Calls = {"config", "retry", "erase", "other"}
  MaxCalls = 1
  MaxCrashes = 1
INVARIANTS
  NeverStranded
PROPERTIES
  PendingIsSettled
  HeldContentExpires
