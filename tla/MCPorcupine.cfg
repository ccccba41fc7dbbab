CONSTANTS
    W = 2
    Ops = 3
    Requests <- requests
SPECIFICATION FairSpec
INVARIANTS SearchConsistent VerdictRight PartialsRight
PROPERTY Returns NoGoroutineLeft
CHECK_DEADLOCK FALSE
