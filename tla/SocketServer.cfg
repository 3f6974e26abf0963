SPECIFICATION ServerFairSpec
CONSTANTS
    Conns = {c1, c2}
    Workers = {w1, w2}
    Objects = {o1, o2, o3}
    Nothing = Nothing
    ConnCap = 1
    QueueCap = 1
INVARIANTS
    OneHolder
PROPERTIES
    QueuedIsHandled
    ShutdownCompletes
CHECK_DEADLOCK FALSE
