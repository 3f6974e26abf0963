SPECIFICATION ReconnectFairSpec
CONSTANTS
    Addrs = {a1}
    MaxBreaks = 2
    MaxOthers = 0
    Calls = {k1}
INVARIANTS
    ReconnectTypeOK
    ParentIsWatched
PROPERTIES
    SubscriptionsSurvive
    ClosedForGood
CHECK_DEADLOCK FALSE
