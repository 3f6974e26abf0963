CONSTANTS
    Calls = {c1, c2}
    Keys = {k1}
    Vals = {v1, v2}
    None = None
SPECIFICATION FairSpec
INVARIANTS
    HandlerNeverBlocks
    SuccessMeansApplied
    GetIsFresh
PROPERTIES
    CallsReturn
CHECK_DEADLOCK FALSE
