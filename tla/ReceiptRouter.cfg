SPECIFICATION FairSpec
CONSTANTS
    Waiters = {w1, w2}
    Hashes = {h1, h2}
    NoReceipt = NoReceipt
    MaxMessages = 2
INVARIANTS
    RegisteredIsUnserved
    TimeoutMeansNotSeen
    WaitingIsKnown
PROPERTIES
    TimedCallsReturn
CHECK_DEADLOCK FALSE
