SPECIFICATION StoreFair
CONSTANTS
  p1 = p1
  p2 = p2
  u1 = u1
  i1 = i1
  i2 = i2
  h1 = h1
  o1 = o1
  f1 = f1
  m1 = m1
  m2 = m2
  NoKey = NoKey
  Phones = {p1, p2}
  Bsuids = {u1}
  Ins = {i1, i2}
  Echoes = {h1}
  Outs = {o1}
  PhoneIn <- MCPhoneIn
  BsuidIn <- MCBsuidIn
  Payloads <- MCPayloads
  Unreadable = {}
  SliceSize = 2
  MaxSyncTries = 1
  OldMsgs = {h1}
  MaxErasures = 1
  MaxReprocesses = 1
  MaxSyncFaults = 1
  Messages = {m1, m2}
  MediaIds = {f1}
  FileOf <- MCFileOf
  Erasers = {"e1"}
  Concurrency = 2
  MaxTries = 2
  MaxArrivals = 3
  MaxMediaFaults = 1
  MaxReplays = 1
  MaxRestarts = 1
  Requests = {"q1", "q2"}
  SendKeyIds = {"k1"}
  Bodies = {"b1", "b2"}
  MaxLives = 2
  MaxRequests = 4
  MaxKeyFaults = 1
  Entries = {1, 2}
  Passes = {"w1", "w2"}
  PassSize = 2
  ForwardMaxAttempts = 2
  MaxBunRestarts = 1
INVARIANTS
  StoreTypeOK
  OneConversation
  StatusIsLatest
  HistoryStaysErased
  StoredIsThere
  MediaIsAwaited
  AnswersAreTrue
PROPERTIES
  EraseTakesAllLinked
  PayloadEnds
  UnreferencedGoes
  KeyKeepsPromise
  QueueKeepsPromise
CHECK_DEADLOCK FALSE
