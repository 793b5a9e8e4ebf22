\* One client, a lease of two ticks: the lease and the shutdown come to an end.
CONSTANTS
    Tasks = {t1, t2}
    Conns = {c1}
    NoConn = NoConn
    Keys = {k1}
    IdleRelease = 2
    MaxVersion = 1
    CancelAt = {"lock", "dial", "setup", "undo", "undoBare", "call", "refit", "drop", "settle"}
    t1 = t1
    t2 = t2
    c1 = c1
    c2 = c2
    k1 = k1
    k2 = k2
SPECIFICATION FairSpec
PROPERTIES
    ShutdownCompletes
    LeaseExpires
