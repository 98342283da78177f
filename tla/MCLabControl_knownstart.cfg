SPECIFICATION Spec
CONSTANTS
    a = a
    c1 = c1
    r1 = r1
    k1 = k1
    k2 = k2
    None = None
    Clients = {a}
    Cmds = {c1}
    Replayed <- TwoEvents
    Played <- OnePlayed
    Recordings = {r1}
    Callers = {k1, k2}
    Native = TRUE
    Calls <- Resetting
    Acts = {"tap"}
    MaxEpoch = 3
    ReceiptLimit = 0
    EventLimit = 1
    Events = {}
CHECK_DEADLOCK FALSE
INVARIANT KnownStartIsReset
