SPECIFICATION Spec
CONSTANTS
    Senders = {s1}
    Handlers = {h1}
    Refreshers = {r1}
    MaxSessions = 2
    CmdCap = 1
    SendCap = 1
    ReqCap = 1
    ErrCap = 1
    MaxLate = 1
    MaxRetries = 1
INVARIANTS
    DownstreamClosedAfterReader
    OneSessionAtATime
    ExposedSendChanIsOpen
    StoppedIsClean
    CacheNotRevived
CHECK_DEADLOCK FALSE
