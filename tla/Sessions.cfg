SPECIFICATION MixedSpec
CONSTANTS
    r1 = r1
    r2 = r2
    Requests <- TwoRequests
    MaxSessions = 2
    MaxIds = 5
    MaxPasswords = 1
    Operations <- AllOperations
SYMMETRY Symmetry
INVARIANTS
    TypeOK
    ParentRetired
    SuccessorsBounded
    LoginsCapped
    AloneUnderCurrentPassword
PROPERTIES
    AloneAllTerminated
    AloneOldestEvicted
