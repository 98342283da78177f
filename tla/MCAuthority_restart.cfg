SPECIFICATION Spec
CONSTANTS
  h1 = h1
  h2 = h2
  x1 = x1
  x2 = x2
  s1 = s1
  i1 = i1
  c1 = c1
  NoHost = NoHost
  NoHandle = NoHandle
  Hosts <- TwoHosts
  Handles <- TwoHandles
  HostOf <- OneEach
  Ops <- SessionOps
  Kind <- SessionKind
  Borrows = {"native"}
  Events = {"crash", "legacy", "disk"}
  Deadlines = {1}
  MaxTime = 0
  MaxGen = 2
  MaxRenewal = 1
  MaxReceipts = 1
  MaxRecons = 1
SYMMETRY Swap
INVARIANTS TypeOK UncertainHoldsDevice NothingStranded HelperIsolation
PROPERTIES EffectFence ImplementsJournal
CHECK_DEADLOCK FALSE
