SPECIFICATION Spec
CONSTANTS
    Caller = {c1}
    Window = 2
    Limit = 3
    MaxTime = 3
    MaxPassed = 4
CHECK_DEADLOCK FALSE
INVARIANT LimitEnforced
