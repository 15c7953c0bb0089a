SPECIFICATION ControlSpec
CONSTANTS
  p1 = p1
  p2 = p2
  b1 = b1
  b2 = b2
  Phones = {p1, p2}
  Runs = {"r1", "r2"}
  NoKind = NoKind
  MaxAttempts = 2
  MaxHandoffs = 1
  MaxPolls = 1
  MaxRechecks = 2
  MaxFaults = 0
  Batches = {}
  NoPhone = NoPhone
  PhoneOf <- MCPhoneOf
  MaxHeld = 0
  MaxRepeats = 0
  MaxHookFaults = 0
  MaxReconnects = 0
  a1 = a1
  a2 = a2
  w1 = w1
  w2 = w2
  n1 = n1
  n2 = n2
  g1 = g1
  g2 = g2
  Accounts = {}
  NoAccount = NoAccount
  Wabas = {w1, w2}
  NoWaba = NoWaba
  Numbers = {n1, n2}
  ConnectStates = {}
  NoState = NoState
  Flows = {g1}
  Listings <- MCListings
INVARIANTS
  UnconfirmedWasNotAnswered
CHECK_DEADLOCK FALSE
