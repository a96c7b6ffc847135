CONSTANTS
    h1 = h1 h2 = h2 h3 = h3 p1 = p1 p2 = p2
    Hits <- ThreeHits
    Processes <- TwoProcesses
    NoProcess = NoProcess
    Limits = {1, 2}
    Window = 2
    MaxTime = 3
SPECIFICATION RLSpec
CHECK_DEADLOCK FALSE
SYMMETRY Symmetry
INVARIANT RLTypeOK
PROPERTY LimitHolds
PROPERTY RefusedForCause
