SPECIFICATION ConversationsSpec
CONSTANTS
  p1 = p1
  h1 = h1
  NoKey = NoKey
  Phones = {p1}
  Bsuids = {}
  Ins = {}
  Echoes = {h1}
  Outs = {}
  PhoneIn <- MCPhoneIn
  BsuidIn <- MCBsuidIn
  Payloads <- MCPayloads
  Unreadable = {}
  SliceSize = 2
  MaxSyncTries = 1
  OldMsgs = {}
  MaxErasures = 0
  MaxReprocesses = 0
  MaxSyncFaults = 0
INVARIANTS
  PassedIsApplied
CHECK_DEADLOCK FALSE
