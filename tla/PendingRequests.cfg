SPECIFICATION FairSpec
CONSTANTS
    Calls = {c1, c2}
    Workers = {w1, w2}
    NoCall = NoCall
    MaxAnswers = 2
INVARIANTS
    WorkersNeverBlock
    WaitingIsReachable
PROPERTIES
    CallsReturn
CHECK_DEADLOCK FALSE
