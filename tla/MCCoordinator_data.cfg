\* One task, two clients: pushes, reads and writes racing.
CONSTANTS
    Tasks = {t1}
    Conns = {c1, c2}
    NoConn = NoConn
    Keys = {k1}
    IdleRelease = 0
    MaxVersion = 3
    CancelAt = {"call"}
    t1 = t1
    t2 = t2
    c1 = c1
    c2 = c2
    k1 = k1
    k2 = k2
SPECIFICATION Spec
SYMMETRY MCSymmetry
CONSTRAINT NotStopping
INVARIANTS
    NoLostUpdate
    QuietFresh
PROPERTIES
    NoRegress
