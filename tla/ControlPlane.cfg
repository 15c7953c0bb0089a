SPECIFICATION ControlFair
CONSTANTS
  p1 = p1
  p2 = p2
  b1 = b1
  b2 = b2
  Phones = {p1, p2}
  Runs = {"r1", "r2"}
  NoKind = NoKind
  MaxAttempts = 2
  MaxHandoffs = 2
  MaxPolls = 1
  MaxRechecks = 2
  MaxFaults = 1
  Batches = {b1, b2}
  NoPhone = NoPhone
  PhoneOf <- MCPhoneOf
  MaxHeld = 2
  MaxRepeats = 1
  MaxHookFaults = 1
  MaxReconnects = 2
  a1 = a1
  a2 = a2
  w1 = w1
  w2 = w2
  n1 = n1
  n2 = n2
  g1 = g1
  g2 = g2
  Accounts = {a1, a2}
  NoAccount = NoAccount
  Wabas = {w1, w2}
  NoWaba = NoWaba
  Numbers = {n1, n2}
  ConnectStates = {"s1"}
  NoState = NoState
  Flows = {g1, g2}
  Listings <- MCListings
INVARIANTS
  SyncIssuedOnce
  HeldIsAwaited
  AnsweredIsKept
  ActiveOwesNothing
PROPERTIES
  ProgressSticks
  LifeSpec
  PendingEnds
  HandoffsAreOwned
CHECK_DEADLOCK FALSE
