CONSTANTS
    c1 = c1 c2 = c2 c3 = c3
    Calls <- ThreeCalls
    Switches <- OneSwitch
    MaxPairs = 2
SPECIFICATION Spec
CHECK_DEADLOCK FALSE
INVARIANT TypeOK
INVARIANT FlagIsTrue
INVARIANT LiveSessionIsKept
INVARIANT LogoutSticks
PROPERTY CallsSettleOrStrand
