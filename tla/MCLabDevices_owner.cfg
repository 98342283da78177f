SPECIFICATION Spec
CONSTANTS
  s1 = s1
  s2 = s2
  r1 = r1
  k1 = k1
  k2 = k2
  NoOne = NoOne
  Sessions <- TwoSessions
  Reservations <- OneReservation
  Closers <- OneCloser
  Native = TRUE
  Prepared = {}
  Events = {}
PROPERTY CloseSparesLaterOwner
CHECK_DEADLOCK FALSE
