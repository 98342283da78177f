SPECIFICATION Spec
CONSTANTS
  s1 = s1
  s2 = s2
  r1 = r1
  k1 = k1
  k2 = k2
  NoOne = NoOne
  Sessions <- TwoSessions
  Reservations <- OneReservation
  Closers <- TwoClosers
  Native = TRUE
  Prepared <- FirstPrepared
  Events = {"fail", "input", "frame", "abandon", "reserve", "scope", "recover", "repair", "shutdown", "early"}
INVARIANTS TypeOK OneProvider ScopeKeepsAuthority ConfirmedReleaseIsReal
PROPERTIES AbandonedStaysFenced PreparedNeverReopens
CHECK_DEADLOCK FALSE
