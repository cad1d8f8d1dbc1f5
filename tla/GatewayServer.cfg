SPECIFICATION FairSpec
CONSTANTS
    Conn = {c1, c2, c3, c4}
    NoConn = NoConn
    Limit = 3
    MaxWait = 2
    MaxTime = 3
INVARIANTS TypeOK BackPressure DrainSeesEveryConnection
PROPERTY ExitsAfterSignal
