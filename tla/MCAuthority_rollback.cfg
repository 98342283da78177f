SPECIFICATION Spec
CONSTANTS
  h1 = h1
  h2 = h2
  x1 = x1
  x2 = x2
  s1 = s1
  i1 = i1
  c1 = c1
  NoHost = NoHost
  NoHandle = NoHandle
  Hosts <- OneHost
  Handles <- OneHandle
  HostOf <- Alone
  Ops <- SingleOps
  Kind <- SingleKind
  Borrows = {}
  Events = {"clock", "legacy"}
  Deadlines = {1}
  MaxTime = 0
  MaxGen = 1
  MaxRenewal = 1
  MaxReceipts = 2
  MaxRecons = 0
INVARIANT RollbackAfterRelease
CHECK_DEADLOCK FALSE
