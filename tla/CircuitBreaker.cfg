SPECIFICATION FairSpec
CONSTANTS
    c1 = c1
    c2 = c2
    c3 = c3
    Callers <- ThreeCallers
    Threshold = 3
INVARIANTS
    CountersAgree
    QuietWhileOpen
PROPERTIES
    Recovers
    Trips
