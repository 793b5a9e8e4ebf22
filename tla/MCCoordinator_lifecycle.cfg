\* Two tasks, two clients, no property traffic: the lifecycle.
CONSTANTS
    Tasks = {t1, t2}
    Conns = {c1, c2}
    NoConn = NoConn
    Keys = {k1}
    IdleRelease = 1
    MaxVersion = 1
    CancelAt = {"lock", "dial", "setup", "undo", "call", "settle"}
    t1 = t1
    t2 = t2
    c1 = c1
    c2 = c2
    k1 = k1
    k2 = k2
SPECIFICATION Spec
SYMMETRY MCSymmetry
INVARIANTS
    TypeOK
    NoOrphan
    NoResurrection
    LeaseHeld
    ShutdownIsFinal
PROPERTIES
    CleanupOnlyFailed
    SlotSpec
