SPECIFICATION Spec
CONSTANTS
    t1 = t1
    t2 = t2
    Tasks = {t1, t2}
    NoTask = NoTask
    MaxCounter = 1
    SeqMax = 2
    Parts = 2
    QueueMax = 2
    DeferMax = 1
    Forms = {"inline"}
    MaxCalls = 4
    MaxRepeats = 0
SYMMETRY TaskSymmetry
INVARIANT AnswerOfItsOwn
INVARIANT NobodyWaitsInVain
INVARIANT ClosedIsQuiet
PROPERTY OwnerToldOnce
PROPERTY KeySpec
CHECK_DEADLOCK FALSE
