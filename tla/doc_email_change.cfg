CONSTANTS
    t1 = t1 t2 = t2
    q1 = q1 q2 = q2
    home = home work = work
    Tokens <- TwoTokens
    Requests <- TwoRequests
    Addresses <- TwoAddresses
    NoToken = NoToken
    MaxAttempts = 3
SPECIFICATION Spec
INVARIANT VerifiedAddressIsProved
