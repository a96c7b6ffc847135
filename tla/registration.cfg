CONSTANTS
    u1 = u1 u2 = u2 a1 = a1 a2 = a2 s1 = s1 st1 = st1 q1 = q1 q2 = q2
    Users <- TwoUsers
    Addresses <- TwoAddresses
    Subjects <- OneSubject
    States <- OneState
    Requests <- TwoRequests
    NoUser = NoUser
    NoAddress = NoAddress
    NoSubject = NoSubject
    NoState = NoState
    open_registration = TRUE
    MaxMails = 1
    MaxLinks = 1
SPECIFICATION Spec
CHECK_DEADLOCK FALSE
SYMMETRY Symmetry
INVARIANT TypeOK
INVARIANT FirstIsAdmin
INVARIANT UnverifiedIsCovered
PROPERTY JoinsProvedAccount
PROPERTY RefusedForCause
