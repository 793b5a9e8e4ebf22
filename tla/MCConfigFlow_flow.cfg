SPECIFICATION Spec
CONSTANTS
    mac1 = mac1
    mac2 = mac2
    id1 = id1
    id2 = id2
    cn = cn
    de = de
    Flows = {id1, id2}
    Addresses = {mac1, mac2}
    Chargers = {mac1}
    Regions = {cn, de}
    NoAddress = NoAddress
    NoRegion = NoRegion
    MaxCalls = 2
    CloseAnytime = TRUE
    MaxAttempts = 2
PROPERTY Asserted
PROPERTY ShownIsPolled
PROPERTY OwnToken
PROPERTY ProgressEnds
CHECK_DEADLOCK FALSE
