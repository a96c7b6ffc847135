CONSTANTS
    e1 = e1 e2 = e2 e3 = e3
    logout = logout login = login
    Emissions <- ThreeEmissions
    Payloads <- TwoPayloads
    Payload <- SomeAlike
    PageSize = 1
    NoCursor = NoCursor
SPECIFICATION Spec
CHECK_DEADLOCK FALSE
INVARIANT TypeOK
INVARIANT BreaksOnlyAtOverlaps
INVARIANT TamperingIsNoticed
INVARIANT SkipsOnlyOverlapped
PROPERTY ImplementsHashTree
PROPERTY FeedCatchesUp
