SPECIFICATION FairSpec
CONSTANTS
    Callers = {c1, c2, c3}
    MaxFailures = 2
    MaxRequests = 2
    MaxCalls = 9
INVARIANTS
    QuotaUsedMeansInFlight
    ClosedIsBelowLimit
PROPERTIES
    HalfOpenEnds
