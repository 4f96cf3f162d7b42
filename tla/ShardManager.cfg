SPECIFICATION Spec
CONSTANTS
    r1 = r1
    r2 = r2
    a = a
    b = b
    c = c
    Requests <- TwoRequests
    Orgs <- SomeOrgs
    Regions = 1
    PerRegion = 1
    MaxSize = 3
    NaN = NaN
    Free = Free
    Default = Default
    NoConn = NoConn
CHECK_DEADLOCK FALSE
INVARIANT OwnSchema
