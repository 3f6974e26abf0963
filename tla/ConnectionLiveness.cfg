SPECIFICATION FairSpec
CONSTANTS
    Senders = {s1}
    Handlers = {h1}
    Refreshers = {}
    MaxSessions = 1
    CmdCap = 2
    SendCap = 1
    ReqCap = 1
    ErrCap = 1
    MaxLate = 1
    MaxRetries = 2
PROPERTIES
    CleanupTerminates
    PeerLossClosesSession
CHECK_DEADLOCK FALSE
