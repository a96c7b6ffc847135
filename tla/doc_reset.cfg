CONSTANTS
    t1 = t1 t2 = t2
    q1 = q1 q2 = q2
    Tokens <- TwoTokens
    Requests <- TwoRequests
    Revokers <- TwoRequests
    NoToken = NoToken
    MaxVersion = 2
SPECIFICATION Spec
INVARIANT ResetEndsEverySession
