SPECIFICATION Spec
CONSTANTS
    r1 = r1
    r2 = r2
    Requests <- TwoRequests
    MaxSessions = 2
    MaxIds = 4
    MaxPasswords = 0
    Operations <- RefreshOperations
SYMMETRY Symmetry
PROPERTY AllTerminated
