SPECIFICATION Spec
CONSTANTS
    p1 = p1
    p2 = p2
    r1 = r1
    r2 = r2
    q1 = q1
    q2 = q2
    None = None
    home = home
    other = other
    Home = home
    Orgs <- TwoOrgs
    Payments <- TwoPayments
    Records <- TwoRecords
    Reconcilers <- TwoReconcilers
    Amounts <- ThreeAmounts
    Dates <- OneDate
    RowsDecode = TRUE
SYMMETRY Symmetry
INVARIANTS
    TypeOK
    BalanceWithinLive
    ReconciledIsConfirmed
    PairsAgree
PROPERTIES
    SettledOnceAlone
