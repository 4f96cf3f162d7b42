SPECIFICATION FairSpec
CONSTANTS
    r1 = r1
    r2 = r2
    k1 = k1
    k2 = k2
    o1 = o1
    o2 = o2
    n1 = n1
    n2 = n2
    e1 = e1
    Requests <- TwoRequests
    Conns <- TwoConns
    Orgs <- TwoOrgs
    Numbers <- TwoNumbers
    Emails <- OneEmail
    Users <- ThreeUsers
    Stored <- Existing
    Nobody = Nobody
    None = None
    Unset = Unset
CHECK_DEADLOCK FALSE
INVARIANTS
    TypeOK
    OwnTenant
    FailedLeavesNoTrace
    ContractsCounted
PROPERTY
    EveryRequestEnds
