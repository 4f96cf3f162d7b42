SPECIFICATION Spec
CONSTANTS
    p1 = p1
    p2 = p2
    r1 = r1
    r2 = r2
    q1 = q1
    q2 = q2
    None = None
    home = home
    other = other
    Home = home
    Orgs <- OneOrg
    Payments <- TwoPayments
    Records <- TwoRecords
    Reconcilers <- OneReconciler
    Amounts <- TwoAmounts
    Dates <- TwoDates
    RowsDecode = FALSE
PROPERTIES
    SettledOnce
