CONSTANTS
    Keys = {k1, k2}
    Vals = {v1, v2}
    BadKey = BadKey
    None = None
    Callers = {c1, c2}
    Readers = {r1}
    MaxRecs = 3
    MaxGens = 1
SPECIFICATION Spec
INVARIANTS
    IndexFindsKey
PROPERTIES
    ImplementsSavedMap
CONSTRAINT Usable
SYMMETRY Symmetry
CHECK_DEADLOCK FALSE
