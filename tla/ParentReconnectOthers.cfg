SPECIFICATION ReconnectFairSpec
CONSTANTS
    Addrs = {a1}
    MaxBreaks = 2
    MaxOthers = 1
    Calls = {}
INVARIANTS
    ParentIsWatched
PROPERTIES
    SubscriptionsSurvive
CHECK_DEADLOCK FALSE
