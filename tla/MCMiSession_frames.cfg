SPECIFICATION Spec
CONSTANTS
    t1 = t1
    Tasks = {t1}
    NoTask = NoTask
    MaxCounter = 3
    SeqMax = 2
    Parts = 2
    QueueMax = 3
    DeferMax = 2
    Forms = {"inline", "parcel"}
    MaxCalls = 0
    MaxRepeats = 1
INVARIANT GapStops
INVARIANT NoFalseAlarm
INVARIANT NoReplay
CHECK_DEADLOCK FALSE
