\* A failed setup is cancelled twice while it cleans up.
CONSTANTS
    Tasks = {t1}
    Conns = {c1}
    NoConn = NoConn
    Keys = {k1}
    IdleRelease = 0
    MaxVersion = 1
    CancelAt = {"undo", "undoBare"}
    t1 = t1
    t2 = t2
    c1 = c1
    c2 = c2
    k1 = k1
    k2 = k2
SPECIFICATION Spec
INVARIANT NoOrphan
