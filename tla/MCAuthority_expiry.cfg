SPECIFICATION Spec
CONSTANTS
  h1 = h1
  h2 = h2
  x1 = x1
  x2 = x2
  s1 = s1
  i1 = i1
  c1 = c1
  NoHost = NoHost
  NoHandle = NoHandle
  Hosts <- OneHost
  Handles <- TwoHandles
  HostOf <- SameHost
  Ops <- InputOps
  Kind <- InputKind
  Borrows = {}
  Events = {"shutdown"}
  Deadlines = {1, 2}
  MaxTime = 1
  MaxGen = 1
  MaxRenewal = 2
  MaxReceipts = 1
  MaxRecons = 0
INVARIANTS DispatchInOrder PermitWithinGrant
PROPERTIES FenceHolds OutcomeFinal
CHECK_DEADLOCK FALSE
