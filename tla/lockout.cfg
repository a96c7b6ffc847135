CONSTANTS
    w1 = w1 w2 = w2 w3 = w3
    Workers <- ThreeWorkers
    MaxAttempts = 3
    Duration = 2
    MaxClock = 6
SPECIFICATION Spec
SYMMETRY Symmetry
INVARIANT TypeOK
INVARIANT SerialFailuresLock
INVARIANT LockNeedsFailures
PROPERTY LockHolds
