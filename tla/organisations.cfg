CONSTANTS
    u1 = u1 u2 = u2
    q1 = q1 q2 = q2
    Users <- TwoUsers
    Requests <- TwoRequests
    NoUser = NoUser
SPECIFICATION Spec
CHECK_DEADLOCK FALSE
SYMMETRY Symmetry
INVARIANT TypeOK
PROPERTY LastOwnerStays
PROPERTY NobodyIsDispossessed
PROPERTY RemovalSticks
PROPERTY RefusedForCause
