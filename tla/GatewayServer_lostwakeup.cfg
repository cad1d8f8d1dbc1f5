SPECIFICATION Spec
CONSTANTS
    Conn = {c1}
    NoConn = NoConn
    Limit = 1
    MaxWait = 1
    MaxTime = 2
INVARIANT ExitsThroughDrain
