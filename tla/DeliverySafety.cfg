SPECIFICATION HistorySpec
CONSTANTS
  m1 = m1
  m2 = m2
  s1 = s1
  w1 = w1
  c1 = c1
  c2 = c2
  Ids = {1, 2}
  Events = {m1, m2}
  Wamids = {}
  Customers = {c1, c2}
  NoWamid = NoWamid
  NoBatch = NoBatch
  NoAlarm = NoAlarm
  About <- MCAbout
  CustomerOf <- MCCustomerOf
  MaxAttempts = 2
  BatchSize = 2
  PoolSize = 2
  Backoff <- MCBackoff
  SweepInterval = 1
  MediaRetry = 1
  OtherWakes = {}
  PurgeCanFail = FALSE
  Calls = {"erase", "retry"}
  MaxCalls = 2
  MaxCrashes = 0
SYMMETRY
  MCCustomersSwap
INVARIANTS
  StoredEventIsAccountedFor
  ErasedStaysErased
PROPERTY
  DeliveryKeepsPromise
