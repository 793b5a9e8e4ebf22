SPECIFICATION Spec
CONSTANTS
    right = right
    other = other
    broken = broken
    Tokens = {right, other}
    NoToken = NoToken
    Malformed = {broken}
    Goals = {"login"}
    DidForms = {"prefixed", "headed", "short", "silent", "other"}
    Hints = {"none", "right", "wrong", "brief"}
    Mtu = 0
    QueueMax = 2
    Slow = TRUE
    OddKinds = {"error", "ok", "loginOk"}
    MaxAttempts = 2
    MaxLost = 1
    MaxNoise = 1
INVARIANT ProofAfterProof
INVARIANT InvalidIsInvalid
INVARIANT NeverMixed
CHECK_DEADLOCK FALSE
