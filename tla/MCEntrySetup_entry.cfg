SPECIFICATION Spec
CONSTANTS
    right = right
    other = other
    nothex = nothex
    short = short
    c1 = c1
    c2 = c2
    k1 = k1
    Tokens = {right, other, nothex, short}
    NotHex = nothex
    Short = short
    ChargersToken = right
    Ports = {c1, c2}
    Keys = {k1}
    EditDuringSetup = FALSE
    MaxEdits = 2
    MaxFaults = 2
INVARIANT FreeWhenStopped
INVARIANT LoadedIsCurrent
PROPERTY AsksOnlyIfRejected
PROPERTY TriedAgain
CHECK_DEADLOCK FALSE
