SPECIFICATION Spec
CONSTANTS
    Timeouts = {0, 2, 6}
    PollLimit = 3
    Limit = 2
    Devices <- ManyDevices
    MaxLogins = 2
    MaxFaults = 1
INVARIANT TokenIsOurs
PROPERTY ApprovalCounts
CHECK_DEADLOCK FALSE
