SPECIFICATION FairSpec
CONSTANTS
    a1 = a1
    a2 = a2
    good = good
    bad = bad
    Calls <- Callers
    GoodLogins <- GoodOnes
    BadLogins <- BadOnes
INVARIANTS
    SingleFlight
    ExecutedOnce
    NobodyForgotten
PROPERTIES
    WaitersMoveOn
