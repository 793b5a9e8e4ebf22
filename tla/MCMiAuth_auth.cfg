SPECIFICATION Spec
CONSTANTS
    right = right
    other = other
    broken = broken
    Tokens = {right, other}
    NoToken = NoToken
    Malformed = {broken}
    Goals = {"login", "register"}
    DidForms = {"prefixed", "headed", "short", "silent", "other"}
    Hints = {"none", "right", "wrong", "brief"}
    Mtu = 40
    QueueMax = 2
    Slow = FALSE
    OddKinds = {"error"}
    MaxAttempts = 2
    MaxLost = 1
    MaxNoise = 1
INVARIANT BoundTogether
PROPERTY MutualSpec
PROPERTY AttemptEnds
PROPERTY Succeeds
CHECK_DEADLOCK FALSE
