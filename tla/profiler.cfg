SPECIFICATION Spec
CONSTANTS
    Accounts = {s1, s2}
    MaxCallDepth = 2
    FlushAfter = 0
    Wrap = 2
    MaxNest = 3
    MaxCalls = 3
    MaxTime = 3
INVARIANTS
    TypeOK
    DepthIsNesting
PROPERTY ChargesRight
CHECK_DEADLOCK FALSE
