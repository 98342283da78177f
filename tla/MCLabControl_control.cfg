SPECIFICATION Spec
CONSTANTS
    a = a
    c1 = c1
    r1 = r1
    k1 = k1
    k2 = k2
    None = None
    Clients = {a}
    Cmds = {c1}
    Replayed <- TwoEvents
    Played <- OnePlayed
    Recordings = {r1}
    Callers = {k1, k2}
    Native = TRUE
    Calls <- Manual
    Acts = {"down"}
    MaxEpoch = 3
    ReceiptLimit = 0
    EventLimit = 0
    Events = {"playback", "cancel", "fail", "unknown", "geometry", "timeout", "close"}
INVARIANTS TypeOK PlaybackAlone
PROPERTIES AtMostOnce CancelledPlaybackStops ReplayIsPure
CHECK_DEADLOCK FALSE
