SPECIFICATION Spec
CONSTANTS
  s1 = s1
  s2 = s2
  o1 = o1
  bytes = bytes
  frozen = frozen
  i1 = i1
  t1 = t1
  NoThread = NoThread
  Samples <- TwoSamples
  Pixels = {s1}
  Acq <- InOrder
  Finals = {o1}
  Original = frozen
  Inputs = {i1}
  Outcomes = {"injected"}
  Stops = {t1}
  Attempts <- AllAttempts
  Digests <- Hashes
  DigestOf <- SameBytes
  ResIds <- Reservations
  ResOf <- Charged
  Given = {"final"}
  Capacity = 4
  Headroom = 1
  MaxStaging = 2
  MaxFaults = 2
  MaxCalls = 3
  MaxExpired = 1
  Events = {"crash", "io", "unlink", "full", "clock", "late", "expire", "suppress", "lifecycle"}
INVARIANTS TypeOK NoUnchargedBytes PublishedReadable InjectedIsRecorded CompleteIsComplete OutcomeKept
PROPERTIES OriginalFixed
CHECK_DEADLOCK FALSE
