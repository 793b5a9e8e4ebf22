SPECIFICATION Spec
CONSTANTS
    h1 = h1
    h2 = h2
    Handles = {h1, h2}
    Requests <- SomeRequests
    Answers <- FewAnswers
    OddAnswers <- CutAnswers
    Duplex = FALSE
    MaxFrames = 12
    MaxRows = 100
    MaxLogins = 2
    MaxMessages = 2
SYMMETRY HandleSymmetry
INVARIANT ReadsBack
INVARIANT SetConfirmed
INVARIANT Decoded
ACTION_CONSTRAINT OddEndsIt
CHECK_DEADLOCK FALSE
